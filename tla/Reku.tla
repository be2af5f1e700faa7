-------------------------------- MODULE Reku --------------------------------
(***************************************************************************)
(* The ventilation unit: the thread of bytd/src/Reku.cpp, a serial line,   *)
(* and the unit's own firmware (rekuperacia_fw/main.c).  A frame is two    *)
(* pieces, its beginning with the mark and the rest with the CRC; pieces   *)
(* get lost, and noise comes in between.                                   *)
(*                                                                         *)
(* Time passes in half seconds, and then only when nothing is on the wire  *)
(* or waits to be read: frames, the 50 ms after which the firmware starts  *)
(* afresh and the VTIME of the daemon's read are shorter.                  *)
(***************************************************************************)
EXTENDS Integers, Sequences

CONSTANTS
  Flows,       \* FlowPercent
  Failsafe,    \* the fans on their own: 64
  NaN,         \* no values
  PollOk,      \* half seconds readFrame waits in connection ...
  PollLost,    \* ... and without
  CommTimeout, \* of the firmware's 1500 ms
  Watchdog     \* of its watchdog

ASSUME RekuAssumption ==
  /\ {PollOk, PollLost, CommTimeout, Watchdog} \subseteq Nat \ {0}
  /\ PollOk < CommTimeout /\ CommTimeout < Watchdog
  /\ Failsafe \notin Flows

VARIABLES
  rkSt, rkLeft,     \* the thread: in which readFrame, half seconds left; "ended"
  commOk, flow,     \* commOk, FlowPercent
  shown,            \* the published values: NaN, or their age
  toUnit, toHost,   \* pieces on the wire
  unitErr, unitHas, \* rxCtx.state = COMMRX_ERR; the piece it has got, or NaN
  unitSt, quiet,    \* commState; half seconds since t0Comm
  unitTx, unitNr,   \* txCtx.state; frames are told apart
  fans, dog,        \* CCPR1L and CCPR2L; half seconds since CLRWDT
  noisy,            \* noise came in this half second
  unheard           \* history: half seconds since the last good command

rekuVars == <<rkSt, rkLeft, commOk, flow, shown, toUnit, toHost, unitErr, unitHas,
              unitSt, quiet, unitTx, unitNr, fans, dog, noisy, unheard>>
unit == <<unitErr, unitHas, unitSt, quiet, unitTx, unitNr, fans, dog, noisy, unheard>>
thread == <<rkSt, rkLeft, commOk, shown>>

Pieces(x) == <<<<"mark", x>>, <<"rest", x>>>>
MaxAge == PollOk + PollOk + 1
RekuTypeOK ==
  /\ rkSt \in {"poll", "answer", "ended"} /\ rkLeft \in 0..PollOk \cup 0..PollLost
  /\ commOk \in BOOLEAN /\ flow \in Flows /\ shown \in 0..MaxAge \cup {NaN}
  /\ toUnit \in Seq({"noise", "mark", "rest"} \X (Flows \cup {NaN}))
  /\ toHost \in Seq({"mark", "rest"} \X {0, 1})
  /\ unitErr \in BOOLEAN /\ unitHas \in Flows \cup {NaN}
  /\ unitSt \in {"no", "communicating", "lost"} /\ quiet \in 0..Watchdog
  /\ unitTx \in BOOLEAN /\ unitNr \in {0, 1} /\ fans \in Flows \cup {Failsafe}
  /\ dog \in 0..Watchdog /\ noisy \in BOOLEAN /\ unheard \in 0..(Watchdog + 1)

RekuInit ==
  /\ rkSt = "answer" /\ rkLeft = PollLost /\ commOk = FALSE /\ flow \in Flows /\ shown = NaN
  /\ toUnit = <<>> /\ toHost = <<>>
  /\ unitErr = FALSE /\ unitHas = NaN /\ unitSt = "no" /\ quiet = 0
  /\ unitTx = TRUE /\ unitNr = 0 /\ fans = Failsafe /\ dog = 0
  /\ noisy = FALSE /\ unheard = Watchdog + 1

-----------------------------------------------------------------------------
(* readFrame: read returns ten bytes, or fewer when no more come; only both *)
(* pieces of one frame pass.                                                *)
Good == Len(toHost) >= 2 /\ toHost[1][1] = "mark" /\ toHost[2] = <<"rest", toHost[1][2]>>
Unread == IF Len(toHost) >= 2 THEN SubSeq(toHost, 3, Len(toHost)) ELSE <<>>

Arriving(frame) == {<<>>, <<frame[1]>>, <<frame[2]>>, frame}

(* In connection: whatever comes, or nothing in time, a command is written; *)
(* if that fails, the thread is over.                                       *)
WriteControl(written, wire) ==
  IF written THEN /\ toUnit' = toUnit \o wire
                  /\ rkSt' = "answer" /\ rkLeft' = PollOk
             ELSE rkSt' = "ended" /\ rkLeft' = 0 /\ UNCHANGED toUnit

RekuPoll(written, wire) ==
  /\ rkSt = "poll" /\ (toHost # <<>> \/ rkLeft = 0)
  /\ toHost' = Unread
  /\ WriteControl(written, wire)
  /\ shown' = IF ~written THEN NaN ELSE IF Good THEN 0 ELSE shown
  /\ UNCHANGED <<commOk, flow, unit>>

(* The answer, or any frame; without one the values are withdrawn, and      *)
(* without connection nothing is written.                                   *)
MutOnFailure == shown
OnFailure == NaN
RekuAnswer ==
  /\ rkSt = "answer" /\ (toHost # <<>> \/ rkLeft = 0)
  /\ toHost' = Unread
  /\ commOk' = Good
  /\ shown' = IF Good THEN 0 ELSE IF commOk THEN OnFailure ELSE shown
  /\ rkSt' = IF Good THEN "poll" ELSE "answer"
  /\ rkLeft' = IF Good THEN PollOk ELSE PollLost
  /\ UNCHANGED <<flow, toUnit, unit>>

(* PrevetranieReku.                                                         *)
SetFlow(f) == flow' = f /\ UNCHANGED <<thread, toUnit, toHost, unit>>

-----------------------------------------------------------------------------
(* The firmware.  start_tx does nothing while a frame is still going out.   *)
StartTx == unitTx' = TRUE

(* do_rx with a byte.                                                       *)
UnitReads(err, has) ==
  /\ unitErr' = err /\ unitHas' = has
  /\ UNCHANGED <<unitSt, quiet, unitTx, fans, unheard>>
UnitRx ==
  /\ toUnit # <<>> /\ toUnit' = Tail(toUnit)
  /\ LET piece == Head(toUnit)
     IN IF unitErr THEN UnitReads(TRUE, NaN)
        ELSE IF unitHas = NaN
          THEN IF piece[1] = "mark" THEN UnitReads(FALSE, piece[2]) ELSE UnitReads(TRUE, NaN)
          ELSE IF piece # <<"rest", unitHas>> THEN UnitReads(TRUE, NaN)
          ELSE /\ quiet' = 0 /\ unitSt' = "communicating" /\ fans' = unitHas /\ StartTx
               /\ unheard' = 0 /\ unitHas' = NaN /\ UNCHANGED unitErr
  /\ noisy' = (noisy \/ Head(toUnit)[1] = "noise")
  /\ UNCHANGED <<thread, flow, toHost, unitNr, dog>>

(* do_tx: the frame is out; what of it arrives.                             *)
UnitTx(wire) ==
  /\ unitTx /\ unitTx' = FALSE
  /\ unitNr' = 1 - unitNr /\ dog' = 0
  /\ toHost' = IF rkSt = "ended" THEN <<>> ELSE toHost \o wire
  /\ UNCHANGED <<thread, flow, toUnit, unitErr, unitHas, unitSt, quiet, fans, noisy, unheard>>

(* Power-on and watchdog; only the first announces itself.                  *)
UnitReset ==
  /\ unitErr' = FALSE /\ unitHas' = NaN /\ unitSt' = "no" /\ quiet' = 0
  /\ fans' = Failsafe /\ dog' = 0

(* Half a second.  After 50 ms without a byte a started frame or an error   *)
(* is over; only then is t0Comm looked at, and a byte of noise in time      *)
(* keeps all that away.                                                     *)
MutAnnounced == unitSt # "no"
Announced == TRUE
MutStarved == dog + 1 >= Watchdog /\ ~noisy
Starved == dog + 1 >= Watchdog
UnitTick ==
  IF Starved THEN UnitReset /\ UNCHANGED unitTx
  ELSE /\ dog' = IF dog < Watchdog THEN dog + 1 ELSE dog
       /\ IF noisy THEN /\ quiet' = IF quiet < Watchdog THEN quiet + 1 ELSE quiet
                        /\ UNCHANGED <<unitErr, unitHas, unitSt, fans, unitTx>>
          ELSE /\ unitErr' = FALSE /\ unitHas' = NaN
               /\ IF quiet + 1 >= CommTimeout
                    THEN /\ quiet' = 0 /\ unitTx' = (unitTx \/ Announced)
                         /\ unitSt' = IF unitSt = "no" THEN "no" ELSE "lost"
                         /\ fans' = IF unitSt = "no" THEN fans ELSE Failsafe
                    ELSE quiet' = quiet + 1 /\ UNCHANGED <<unitTx, unitSt, fans>>

RekuTick ==
  /\ toUnit = <<>> /\ toHost = <<>> /\ ~unitTx
  /\ rkSt = "ended" \/ rkLeft > 0
  /\ rkLeft' = IF rkLeft > 0 THEN rkLeft - 1 ELSE 0
  /\ shown' = IF shown = NaN THEN NaN ELSE IF shown < MaxAge THEN shown + 1 ELSE shown
  /\ UnitTick
  /\ noisy' = FALSE
  /\ unheard' = IF unheard <= Watchdog THEN unheard + 1 ELSE unheard
  /\ UNCHANGED <<rkSt, commOk, flow, toUnit, toHost, unitNr>>

Noise == /\ ~noisy /\ toUnit = <<>> /\ ~unitTx /\ toUnit' = <<<<"noise", NaN>>>>
         /\ UNCHANGED <<thread, flow, toHost, unit>>
UnitPower == /\ dog > 0 /\ Len(toHost) < 2
             /\ UnitReset /\ unitTx' = TRUE
             /\ UNCHANGED <<thread, flow, toUnit, toHost, unitNr, noisy, unheard>>

(* Without and with faults.                                                 *)
RekuStep == \/ RekuPoll(TRUE, Pieces(flow)) \/ RekuAnswer \/ UnitRx \/ UnitTx(Pieces(unitNr))
            \/ RekuTick
RekuFault ==
  \/ \E wire \in Arriving(Pieces(flow)) \ {Pieces(flow)} : RekuPoll(TRUE, wire)
  \/ \E wire \in Arriving(Pieces(unitNr)) \ {Pieces(unitNr)} : UnitTx(wire)
  \/ RekuPoll(FALSE, <<>>) \/ Noise \/ UnitPower

NewFlow == \E f \in Flows : SetFlow(f)
RekuNext == RekuStep \/ RekuFault \/ NewFlow
RekuSpec == RekuInit /\ [][RekuNext]_rekuVars
-----------------------------------------------------------------------------
(* Values older than one turn of the loop are withdrawn, and all of them    *)
(* when the thread ends: a temperature that stays published is measured.    *)
RekuFresh == shown # NaN => rkSt # "ended" /\ shown <= PollOk + PollOk

(* The fans obey a command no longer than the watchdog lets them, also when *)
(* noise keeps the firmware from noticing that the daemon is gone.          *)
FansFresh == fans # Failsafe => unheard <= Watchdog

(* What is to come when faults and new orders are over, unless the thread   *)
(* has ended: the fans do what is asked of them and the values are there.   *)
RekuFollows == rkSt = "ended" \/ (commOk /\ shown # NaN /\ fans = flow)

(* Neither side goes on with what the other no longer says: values and fans *)
(* are withdrawn in time (onFailure, the watchdog).                         *)
VentilationFresh == RekuFresh /\ FansFresh
=============================================================================
