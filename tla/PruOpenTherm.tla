---------------------------- MODULE PruOpenTherm ----------------------------
(***************************************************************************)
(* The OpenTherm half of the PRU firmware (pru/opentherm_sm.c): a request  *)
(* is written to the wire in Manchester code and the boiler's frame is     *)
(* read back by timing its edges.  Time passes in tenths of a bit; in each *)
(* of them the boiler's wire may change, and then the loop of pru/main.c   *)
(* polls the machine.  What comes out on the wire and what goes back to    *)
(* the daemon is recorded.                                                 *)
(***************************************************************************)
EXTENDS Integers, Sequences

CONSTANTS
  OtBits,      \* data bits of a frame: 32
  Half,        \* cDurHalfBit
  CapMin,      \* cDurBitCaptureMin
  CapMax,      \* cDurBitCaptureMax
  WaitGap,     \* cDurGap
  Response,    \* cDurResponseTimeout
  ErrorGap,    \* cDurErrorGap
  ErrorFrame,  \* cDurErrorFrameTimeout
  SlaveGap,    \* the boiler waits at least so long before it answers
  Jitter       \* and may stretch a bit by so much

Bit == 2 * Half

ASSUME OtAssumption ==
  /\ {OtBits, WaitGap, Response, SlaveGap} \subseteq Nat \ {0}
  /\ Half \in Nat /\ CapMin \in (Half + Jitter + 1)..Bit /\ Jitter \in Nat
  /\ CapMax \in (Bit + Jitter + 1)..(Bit + Half)
  /\ ErrorGap \in Nat /\ ErrorGap > CapMax /\ ErrorFrame \in Nat /\ ErrorFrame > ErrorGap
  /\ WaitGap < SlaveGap

VARIABLES
  otSt, otIdx,       \* sState, sBitidx
  t0, t0Frame,       \* time since sT0, since sT0Frame
  prevV, otValue,    \* sPrevV, sValue
  otOut,             \* ot_set_bus
  boiler, boilerT,   \* the half-bit the boiler is sending, or 0; since when
  reply, asked,      \* the boiler's frame; it has a request to answer
  otHeard,           \* history: levels before the mid-bit edges of a request
  owed, said,        \* history: requests without an answer; the last answer
  whole, noiseless   \* history: the frame is read from its start, undisturbed; no noise so far

otVars == <<otSt, otIdx, t0, t0Frame, prevV, otValue, otOut, boiler, boilerT, reply, asked,
            otHeard, owed, said, whole, noiseless>>

Words == [0..(OtBits - 1) -> {0, 1}]
NoWord == [i \in 0..(OtBits - 1) |-> 0]
Halves == 2 * (OtBits + 2)
MaxT == IF Response > ErrorFrame THEN Response ELSE ErrorFrame
Later(t) == IF t < MaxT THEN t + 1 ELSE t

OtTypeOK ==
  /\ otSt \in {"idle", "write", "gap", "wait", "read", "errorGap"}
  /\ otIdx \in -2..OtBits /\ t0 \in 0..MaxT /\ t0Frame \in 0..MaxT
  /\ prevV \in {0, 1} /\ otOut \in {0, 1} /\ otValue \in Words
  /\ boiler \in 0..Halves /\ boilerT \in 0..(SlaveGap + Bit) /\ reply \in Words /\ asked \in BOOLEAN
  /\ otHeard \in Seq({0, 1}) /\ Len(otHeard) <= OtBits + 2
  /\ owed \in 0..1 /\ said[2] \in Words /\ whole \in BOOLEAN /\ noiseless \in BOOLEAN

OtInit ==
  /\ otSt = "idle" /\ otIdx = 0 /\ t0 = 0 /\ t0Frame = 0 /\ prevV = 0
  /\ otValue = NoWord /\ otOut = 0
  /\ boiler = 0 /\ boilerT = 0 /\ reply = NoWord /\ asked = FALSE
  /\ otHeard = <<>> /\ owed = 0 /\ said = <<"none", NoWord>>
  /\ whole = FALSE /\ noiseless = TRUE

-----------------------------------------------------------------------------
(* The bit at an index: start and stop bits are ones.                       *)
BitAt(w, i) == IF i \in 0..(OtBits - 1) THEN w[i] ELSE 1

(* The boiler: a one is a high half and a low one.                          *)
BoilerLevel(k, w) ==
  LET b == BitAt(w, OtBits - (k - 1) \div 2)
  IN IF k = 0 THEN 0 ELSE IF k % 2 = 1 THEN b ELSE 1 - b

BoilerMoves ==
  \/ /\ boiler = 0 /\ UNCHANGED <<boiler, reply, asked>>
     /\ boilerT' = IF boilerT < SlaveGap THEN boilerT + 1 ELSE boilerT
  \/ /\ boiler = 0 /\ asked /\ boilerT = SlaveGap
     /\ boiler' = 1 /\ boilerT' = 0 /\ asked' = FALSE /\ reply' \in Words
  \/ /\ boiler > 0 /\ UNCHANGED <<reply, asked>>
     /\ \/ /\ boilerT + 1 < Half + IF boiler % 2 = 0 THEN Jitter ELSE 0
           /\ boilerT' = boilerT + 1 /\ UNCHANGED boiler
        \/ /\ boilerT + 1 >= Half /\ boilerT' = 0
           /\ boiler' = IF boiler = Halves THEN 0 ELSE boiler + 1

(* It hears a request when it is not sending itself.                        *)
BoilerAsked ==
  IF boiler = 0 THEN boilerT' = 0 /\ asked' = TRUE /\ UNCHANGED <<boiler, reply>>
                ELSE BoilerMoves

-----------------------------------------------------------------------------
OtAnswer(code, w) == otSt' = "idle" /\ owed' = owed - 1 /\ said' = <<code, w>>
Silent == UNCHANGED <<owed, said>>

(* ot_sm_do; now: the time since sT0.                                       *)
WriteFrame(now) ==
  /\ otSt = "write"
  /\ LET cur == BitAt(otValue, otIdx)
     IN IF now >= Bit
          THEN /\ otOut' = 1 - cur /\ t0' = 0 /\ otIdx' = otIdx - 1
               /\ otHeard' = Append(otHeard, otOut)
               /\ otSt' = IF otIdx - 1 < -1 THEN "gap" ELSE otSt
          ELSE /\ otOut' = IF now >= Half THEN cur ELSE otOut
               /\ t0' = now /\ UNCHANGED <<otSt, otIdx, otHeard>>
  /\ Silent /\ UNCHANGED <<t0Frame, prevV, otValue>>

FrameWaitGap(now) ==
  /\ otSt = "gap"
  /\ otSt' = IF now >= WaitGap THEN "wait" ELSE otSt
  /\ t0' = now
  /\ Silent /\ UNCHANGED <<otIdx, t0Frame, prevV, otValue, otOut, otHeard>>

WaitFrame(now, bus) ==
  /\ otSt = "wait"
  /\ IF bus = 1
       THEN /\ otSt' = "read" /\ t0' = Half /\ t0Frame' = 0
            /\ otIdx' = OtBits /\ prevV' = 1 /\ otValue' = NoWord /\ Silent
       ELSE /\ IF now >= Response THEN OtAnswer("noResponse", NoWord) ELSE UNCHANGED otSt /\ Silent
            /\ t0' = now /\ UNCHANGED <<otIdx, t0Frame, prevV, otValue>>
  /\ UNCHANGED <<otOut, otHeard>>

(* An edge in the middle of a bit; the one between two bits comes before    *)
(* the capture window and only changes sPrevV.                              *)
MutTooEarly(now) == now < Half
TooEarly(now) == now < CapMin
StartOrStop == otIdx \in {-1, OtBits}
ReadEdge(now) ==
  /\ prevV' = 1 - prevV
  /\ IF TooEarly(now)
       THEN t0' = now /\ Silent /\ UNCHANGED <<otSt, otIdx, otValue>>
       ELSE /\ t0' = 0 /\ otIdx' = otIdx - 1
            /\ otValue' = IF StartOrStop THEN otValue ELSE [otValue EXCEPT ![otIdx] = prevV]
            /\ IF StartOrStop /\ prevV = 0 THEN otSt' = "errorGap" /\ Silent
               ELSE IF otIdx = -1 THEN OtAnswer("ok", otValue)
               ELSE UNCHANGED otSt /\ Silent

ReadFrame(now, bus) ==
  /\ otSt = "read"
  /\ IF bus # prevV THEN ReadEdge(now)
     ELSE /\ otSt' = IF now >= CapMax THEN "errorGap" ELSE otSt
          /\ t0' = now /\ Silent /\ UNCHANGED <<otIdx, prevV, otValue>>
  /\ t0Frame' = Later(t0Frame)
  /\ UNCHANGED <<otOut, otHeard>>

MutGivenUp(f) == FALSE    \* only a quiet wire ends it
GivenUp(f) == f >= ErrorFrame
FrameErrorWaitGap(now, bus) ==
  /\ otSt = "errorGap"
  /\ t0Frame' = Later(t0Frame)
  /\ IF bus # prevV THEN t0' = 0 /\ prevV' = bus /\ UNCHANGED otSt /\ Silent
     ELSE /\ t0' = now /\ UNCHANGED prevV
          /\ IF bus = 0 /\ now >= ErrorGap THEN OtAnswer("frameError", NoWord)
             ELSE IF GivenUp(t0Frame') THEN OtAnswer("busError", NoWord)
             ELSE UNCHANGED otSt /\ Silent
  /\ UNCHANGED <<otIdx, otValue, otOut, otHeard>>

Idling == /\ otSt = "idle" /\ Silent
          /\ UNCHANGED <<otSt, otIdx, t0, t0Frame, prevV, otValue, otOut, otHeard>>

(* A unit of time.                                                          *)
OtTick(noise) ==
  /\ IF otSt = "write" /\ otIdx = -1 /\ Later(t0) >= Bit THEN BoilerAsked ELSE BoilerMoves
  /\ LET level == BoilerLevel(boiler', reply')
         bus == IF noise THEN 1 - level ELSE level
     IN \/ Idling
        \/ WriteFrame(Later(t0)) \/ FrameWaitGap(Later(t0))
        \/ WaitFrame(Later(t0), bus) \/ ReadFrame(Later(t0), bus)
        \/ FrameErrorWaitGap(Later(t0), bus)
  /\ noiseless' = (noiseless /\ ~noise)
  /\ whole' = (~noise /\ (whole \/ (otSt = "wait" /\ boiler = 0 /\ boiler' = 1)))

(* process_message: eCmdOtTransmit; a machine at work refuses, and that is  *)
(* its answer.                                                              *)
MutFirst == OtBits - 1    \* no start bit
First == OtBits
MutTransmit(w) ==  \* busy or not
  /\ otSt' = "write" /\ otValue' = w /\ t0' = 0 /\ otIdx' = First
  /\ otHeard' = <<>> /\ owed' = owed + 1 /\ whole' = FALSE
  /\ UNCHANGED <<t0Frame, prevV, otOut, boiler, boilerT, reply, asked, said, noiseless>>
Transmit(w) ==
  /\ otSt = "idle"
  /\ otSt' = "write" /\ otValue' = w /\ t0' = 0 /\ otIdx' = First
  /\ otHeard' = <<>> /\ owed' = owed + 1 /\ whole' = FALSE
  /\ UNCHANGED <<t0Frame, prevV, otOut, boiler, boilerT, reply, asked, said, noiseless>>

OtNext == \/ \E noise \in BOOLEAN : OtTick(noise)
          \/ \E w \in Words : Transmit(w)
OtSpec == OtInit /\ [][OtNext]_otVars
OtFairness == WF_otVars(\E noise \in BOOLEAN : OtTick(noise))
-----------------------------------------------------------------------------
(* Each accepted request gets one answer, whichever of the five ways the    *)
(* machine takes back to idle.                                              *)
AnsweredOnce == owed = IF otSt = "idle" THEN 0 ELSE 1

(* The wire carries the request between a start and a stop bit.             *)
WrittenAsAsked ==
  otSt = "gap" => otHeard = [k \in 1..(OtBits + 2) |-> BitAt(otValue, OtBits + 1 - k)]

(* A request goes out as asked and gets one answer (opentherm_sm.c).        *)
RequestsSound == AnsweredOnce /\ WrittenAsAsked

(* A frame that starts while it is waited for, from a boiler that is slow   *)
(* by the tolerated jitter, over a quiet wire, is read and read right; and  *)
(* over a wire that was always quiet nothing but a whole frame is taken for *)
(* one, also not the rest of a late answer into which the machine has       *)
(* started to listen.                                                       *)
FramesSound ==
  [][otSt # "idle" /\ otSt' = "idle" =>
       /\ whole' => said' = <<"ok", reply'>>
       /\ noiseless /\ said'[1] = "ok" => said'[2] = reply]_otVars

(* Every request is answered, however noisy the wire, if only two polls now *)
(* and then see the same level: an edge keeps the timeouts from being       *)
(* looked at.  The daemon waits for nothing else.                           *)
OtAnswers == []<><<prevV' = prevV>>_otVars => (otSt # "idle" ~> otSt = "idle")
=============================================================================
