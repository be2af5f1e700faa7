----------------------------- MODULE HouseProofs -----------------------------
(***************************************************************************)
(* Proofs about the parts of the house that MCHouse composes, each for any *)
(* values of its constants: an inductive invariant of the part, the types  *)
(* and what the part promises; at the end the composition, in which each   *)
(* part only moves by its own steps.                                       *)
(***************************************************************************)
EXTENDS MCHouse, SequenceTheorems, FiniteSetTheorems, WellFoundedInduction, TLAPS

-----------------------------------------------------------------------------
(* The ventilation (Reku).                                                  *)

(* The published values and the time the thread still waits add up to no    *)
(* more than one turn of the loop, and there are none without connection.   *)
ValuesInTime ==
  /\ ~commOk => shown = NaN
  /\ rkSt = "poll" => commOk
  /\ rkSt = "ended" => shown = NaN
  /\ shown # NaN => shown + rkLeft <= IF rkSt = "poll" THEN PollOk ELSE PollOk + PollOk

(* While the fans obey a command the firmware is in connection, and the     *)
(* watchdog has run for as long as no command came: the frames that rest it *)
(* answer a command, or put the fans on their own.                          *)
FansWatched ==
  fans # Failsafe => /\ unitSt = "communicating" /\ unheard <= dog
                     /\ unitTx => unheard = 0

RekuIInv == RekuTypeOK /\ ValuesInTime /\ FansWatched
-----------------------------------------------------------------------------
(* What is left in the line's buffer are pieces that were in it.            *)
LEMMA UnreadType ==
  ASSUME toHost \in Seq({"mark", "rest"} \X {0, 1})
  PROVE  Unread \in Seq({"mark", "rest"} \X {0, 1})
<1> DEFINE S == {"mark", "rest"} \X {0, 1}
<1>1. CASE Len(toHost) >= 2
  <2>1. Len(toHost) \in Int /\ 3 \in Int
    OBVIOUS
  <2>2. \A i \in 3..Len(toHost) : toHost[i] \in S
    OBVIOUS
  <2>3. SubSeq(toHost, 3, Len(toHost)) \in Seq(S)
    <3> HIDE DEF S
    <3> QED BY <2>1, <2>2, SubSeqProperties
  <2> QED BY <1>1, <2>3 DEF Unread
<1>2. CASE ~(Len(toHost) >= 2)
  BY <1>2 DEF Unread
<1> QED BY <1>1, <1>2

(* The pieces of a frame, as many as arrive, are pieces of the line.        *)
LEMMA ArrivingType ==
  ASSUME NEW S, NEW x \in S, NEW wire \in Arriving(Pieces(x)) \cup {Pieces(x)}
  PROVE  wire \in Seq({"mark", "rest"} \X S)
<1>1. <<"mark", x>> \in {"mark", "rest"} \X S /\ <<"rest", x>> \in {"mark", "rest"} \X S
  OBVIOUS
<1> DEFINE m == <<"mark", x>>
           r == <<"rest", x>>
           T == {"mark", "rest"} \X S
<1>2. wire \in {<<>>, <<m>>, <<r>>, <<m, r>>}
  BY DEF Arriving, Pieces
<1>3. m \in T /\ r \in T
  BY <1>1
<1> HIDE DEF m, r, T
<1>4. <<>> \in Seq(T) /\ <<m>> \in Seq(T) /\ <<r>> \in Seq(T)
  BY <1>3
<1>5. <<m, r>> \in Seq(T)
  BY <1>3
<1>6. wire \in Seq(T)
  BY <1>2, <1>4, <1>5
<1> QED BY <1>6 DEF T

(* The unit starts with its fans on their own.                              *)
LEMMA RekuInitIInv == RekuInit => RekuIInv
<1> USE RekuAssumption
<1> SUFFICES ASSUME RekuInit PROVE RekuIInv
  OBVIOUS
<1>1. RekuTypeOK
  <2>1. rkLeft \in 0..PollLost /\ quiet \in 0..Watchdog /\ dog \in 0..Watchdog
        /\ unheard \in 0..(Watchdog + 1)
    BY DEF RekuInit
  <2>2. toUnit \in Seq({"noise", "mark", "rest"} \X (Flows \cup {NaN}))
        /\ toHost \in Seq({"mark", "rest"} \X {0, 1})
    BY DEF RekuInit
  <2> QED BY <2>1, <2>2 DEF RekuInit, RekuTypeOK
<1>2. ValuesInTime /\ FansWatched
  BY DEF RekuInit, ValuesInTime, FansWatched
<1> QED BY <1>1, <1>2 DEF RekuIInv

(* The thread in connection: a frame renews the values, and the command is  *)
(* written or the thread is over.                                           *)
LEMMA RekuPollSteps ==
  ASSUME RekuIInv, NEW written \in BOOLEAN,
         NEW wire \in Arriving(Pieces(flow)) \cup {Pieces(flow), <<>>},
         RekuPoll(written, wire)
  PROVE  RekuIInv'
<1> USE RekuAssumption DEF unit
<1>1. flow \in Flows /\ toUnit \in Seq({"noise", "mark", "rest"} \X (Flows \cup {NaN}))
      /\ toHost \in Seq({"mark", "rest"} \X {0, 1})
  BY DEF RekuIInv, RekuTypeOK
<1>2. wire \in Seq({"noise", "mark", "rest"} \X (Flows \cup {NaN}))
  <2>1. wire \in Seq({"mark", "rest"} \X Flows)
    <3>1. CASE wire = <<>>
      BY <3>1
    <3>2. CASE wire # <<>>
      BY <3>2, <1>1, ArrivingType
    <3> QED BY <3>1, <3>2
  <2> QED BY <2>1
<1>3. toHost' \in Seq({"mark", "rest"} \X {0, 1})
  BY <1>1, UnreadType DEF RekuPoll
<1>4. toUnit' \in Seq({"noise", "mark", "rest"} \X (Flows \cup {NaN}))
  <2>1. CASE written
    <3>1. toUnit' = toUnit \o wire
      BY <2>1 DEF RekuPoll, WriteControl
    <3> QED BY <1>1, <1>2, <3>1
  <2>2. CASE ~written
    BY <1>1, <2>2 DEF RekuPoll, WriteControl
  <2> QED BY <2>1, <2>2
<1>5. /\ rkSt' = IF written THEN "answer" ELSE "ended"
      /\ rkLeft' = IF written THEN PollOk ELSE 0
      /\ shown' = IF ~written THEN NaN ELSE IF Good THEN 0 ELSE shown
      /\ rkSt = "poll" /\ UNCHANGED <<commOk, flow, unit>>
  BY DEF RekuPoll, WriteControl
<1>6. RekuTypeOK'
  BY <1>3, <1>4, <1>5 DEF RekuIInv, RekuTypeOK, MaxAge
<1>7. ValuesInTime'
  BY <1>5 DEF RekuIInv, RekuTypeOK, ValuesInTime, MaxAge
<1>8. FansWatched'
  BY <1>5 DEF RekuIInv, FansWatched
<1> QED BY <1>6, <1>7, <1>8 DEF RekuIInv

(* The thread after its command, or without connection.                     *)
LEMMA RekuAnswerSteps == RekuIInv /\ RekuAnswer => RekuIInv'
<1> SUFFICES ASSUME RekuIInv, RekuAnswer PROVE RekuIInv'
  OBVIOUS
<1> USE RekuAssumption DEF unit
<1>1. toHost' \in Seq({"mark", "rest"} \X {0, 1})
  BY UnreadType DEF RekuIInv, RekuTypeOK, RekuAnswer
<1>2. /\ commOk' = Good /\ rkSt = "answer"
      /\ shown' = IF Good THEN 0 ELSE IF commOk THEN NaN ELSE shown
      /\ rkSt' = IF Good THEN "poll" ELSE "answer"
      /\ rkLeft' = IF Good THEN PollOk ELSE PollLost
      /\ UNCHANGED <<flow, toUnit, unit>>
  BY DEF RekuAnswer, OnFailure
<1>3. Good \in BOOLEAN
  BY DEF Good
<1>4. RekuTypeOK'
  BY <1>1, <1>2, <1>3 DEF RekuIInv, RekuTypeOK, MaxAge
<1>5. ValuesInTime'
  BY <1>2 DEF RekuIInv, RekuTypeOK, ValuesInTime, MaxAge
<1>6. FansWatched'
  BY <1>2 DEF RekuIInv, FansWatched
<1> QED BY <1>4, <1>5, <1>6 DEF RekuIInv

(* The unit reads a byte; only the end of a good command changes the fans.  *)
LEMMA UnitRxSteps == RekuIInv /\ UnitRx => RekuIInv'
<1> SUFFICES ASSUME RekuIInv, UnitRx PROVE RekuIInv'
  OBVIOUS
<1> USE RekuAssumption DEF thread
<1>1. /\ toUnit # <<>> /\ toUnit \in Seq({"noise", "mark", "rest"} \X (Flows \cup {NaN}))
      /\ toUnit' = Tail(toUnit)
  BY DEF RekuIInv, RekuTypeOK, UnitRx
<1>2. Head(toUnit) \in {"noise", "mark", "rest"} \X (Flows \cup {NaN})
      /\ toUnit' \in Seq({"noise", "mark", "rest"} \X (Flows \cup {NaN}))
  BY <1>1, HeadTailProperties
<1>3. \/ /\ unitErr' \in BOOLEAN /\ unitHas' \in Flows \cup {NaN}
         /\ UNCHANGED <<unitSt, quiet, unitTx, fans, unheard>>
      \/ /\ quiet' = 0 /\ unitSt' = "communicating" /\ fans' = unitHas /\ unitHas # NaN /\ unitTx' = TRUE
         /\ unheard' = 0 /\ unitHas' = NaN /\ UNCHANGED unitErr
  <2>1. CASE unitErr
    BY <2>1 DEF UnitRx, UnitReads
  <2>2. CASE ~unitErr /\ unitHas = NaN
    <3>1. Head(toUnit)[2] \in Flows \cup {NaN}
      BY <1>2
    <3> QED BY <2>2, <3>1 DEF UnitRx, UnitReads
  <2>3. CASE ~unitErr /\ unitHas # NaN /\ Head(toUnit) # <<"rest", unitHas>>
    BY <2>3 DEF UnitRx, UnitReads
  <2>4. CASE ~unitErr /\ unitHas # NaN /\ Head(toUnit) = <<"rest", unitHas>>
    BY <2>4 DEF UnitRx, StartTx
  <2> QED BY <2>1, <2>2, <2>3, <2>4
<1>4. /\ noisy' \in BOOLEAN /\ UNCHANGED <<thread, flow, toHost, unitNr, dog>>
  <2>1. noisy \in BOOLEAN
    BY DEF RekuIInv, RekuTypeOK
  <2> QED BY <2>1 DEF UnitRx
<1>5. RekuTypeOK'
  <2>1. /\ unitErr \in BOOLEAN /\ unitHas \in Flows \cup {NaN}
        /\ unitSt \in {"no", "communicating", "lost"} /\ quiet \in 0..Watchdog
        /\ unitTx \in BOOLEAN /\ fans \in Flows \cup {Failsafe} /\ unheard \in 0..(Watchdog + 1)
    BY DEF RekuIInv, RekuTypeOK
  <2>2. quiet' \in 0..Watchdog /\ unheard' \in 0..(Watchdog + 1)
    BY <1>3, <2>1
  <2>3. /\ unitErr' \in BOOLEAN /\ unitHas' \in Flows \cup {NaN}
        /\ unitSt' \in {"no", "communicating", "lost"}
        /\ unitTx' \in BOOLEAN /\ fans' \in Flows \cup {Failsafe}
    BY <1>3, <2>1
  <2> QED BY <1>2, <1>4, <2>2, <2>3 DEF RekuIInv, RekuTypeOK
<1>6. ValuesInTime'
  BY <1>4 DEF RekuIInv, ValuesInTime
<1>7. FansWatched'
  BY <1>3, <1>4 DEF RekuIInv, FansWatched, RekuTypeOK
<1> QED BY <1>5, <1>6, <1>7 DEF RekuIInv

(* The unit's frame is out.                                                 *)
LEMMA UnitTxSteps ==
  ASSUME RekuIInv, NEW wire \in Arriving(Pieces(unitNr)) \cup {Pieces(unitNr)}, UnitTx(wire)
  PROVE  RekuIInv'
<1> USE RekuAssumption DEF thread
<1>1. unitNr \in {0, 1} /\ toHost \in Seq({"mark", "rest"} \X {0, 1})
  BY DEF RekuIInv, RekuTypeOK
<1>2. wire \in Seq({"mark", "rest"} \X {0, 1})
  BY <1>1, ArrivingType
<1>3. toHost' \in Seq({"mark", "rest"} \X {0, 1})
  <2>1. toHost \o wire \in Seq({"mark", "rest"} \X {0, 1})
    <3> DEFINE S == {"mark", "rest"} \X {0, 1}
    <3>1. toHost \in Seq(S) /\ wire \in Seq(S)
      BY <1>1, <1>2
    <3> HIDE DEF S
    <3>2. toHost \o wire \in Seq(S)
      BY <3>1
    <3> QED BY <3>2 DEF S
  <2> QED BY <2>1 DEF UnitTx
<1>4. RekuTypeOK'
  <2>1. unitTx' = FALSE /\ unitNr' = 1 - unitNr /\ dog' = 0
    BY DEF UnitTx
  <2>2. unitNr' \in {0, 1} /\ dog' \in 0..Watchdog
    BY <1>1, <2>1
  <2> QED BY <1>3, <2>1, <2>2 DEF RekuIInv, RekuTypeOK, UnitTx
<1>5. ValuesInTime' /\ FansWatched'
  BY DEF RekuIInv, RekuTypeOK, UnitTx, ValuesInTime, FansWatched
<1> QED BY <1>4, <1>5 DEF RekuIInv

(* Half a second: the values age as the thread's wait runs out, and the     *)
(* watchdog resets the unit before it has gone Watchdog without a command.  *)
LEMMA RekuTickSteps == RekuIInv /\ RekuTick => RekuIInv'
<1> SUFFICES ASSUME RekuIInv, RekuTick PROVE RekuIInv'
  OBVIOUS
<1> USE RekuAssumption
<1>1. /\ rkLeft' = IF rkLeft > 0 THEN rkLeft - 1 ELSE 0
      /\ shown' = IF shown = NaN THEN NaN ELSE IF shown < MaxAge THEN shown + 1 ELSE shown
      /\ rkSt = "ended" \/ rkLeft > 0
      /\ ~unitTx /\ noisy' = FALSE
      /\ unheard' = IF unheard <= Watchdog THEN unheard + 1 ELSE unheard
      /\ UNCHANGED <<rkSt, commOk, flow, toUnit, toHost, unitNr>>
  BY DEF RekuTick
<1>2. \/ /\ unitErr' = FALSE /\ unitHas' = NaN /\ unitSt' = "no" /\ quiet' = 0
         /\ fans' = Failsafe /\ dog' = 0 /\ unitTx' = unitTx
      \/ /\ dog + 1 < Watchdog /\ dog' = dog + 1
         /\ quiet' = IF quiet < Watchdog THEN quiet + 1 ELSE quiet
         /\ UNCHANGED <<unitErr, unitHas, unitSt, fans, unitTx>>
      \/ /\ dog + 1 < Watchdog /\ dog' = dog + 1
         /\ unitErr' = FALSE /\ unitHas' = NaN
         /\ quiet' = 0 /\ unitTx' = TRUE
         /\ unitSt' = IF unitSt = "no" THEN "no" ELSE "lost"
         /\ fans' = IF unitSt = "no" THEN fans ELSE Failsafe
      \/ /\ dog + 1 < Watchdog /\ dog' = dog + 1
         /\ unitErr' = FALSE /\ unitHas' = NaN
         /\ quiet + 1 < CommTimeout /\ quiet' = quiet + 1 /\ UNCHANGED <<unitTx, unitSt, fans>>
  <2>1. dog \in 0..Watchdog /\ quiet \in 0..Watchdog
    BY DEF RekuIInv, RekuTypeOK
  <2>2. CASE Starved
    BY <2>2 DEF RekuTick, UnitTick, UnitReset
  <2>3. CASE ~Starved
    <3>1. dog + 1 < Watchdog /\ dog' = dog + 1
      BY <2>1, <2>3 DEF RekuTick, UnitTick, Starved
    <3>2. CASE noisy
      BY <2>3, <3>1, <3>2 DEF RekuTick, UnitTick
    <3>3. CASE ~noisy /\ quiet + 1 >= CommTimeout
      BY <2>3, <3>1, <3>3 DEF RekuTick, UnitTick, Announced
    <3>4. CASE ~noisy /\ ~(quiet + 1 >= CommTimeout)
      BY <2>1, <2>3, <3>1, <3>4 DEF RekuTick, UnitTick
    <3> QED BY <3>2, <3>3, <3>4
  <2> QED BY <2>2, <2>3
<1>3. RekuTypeOK'
  <2>1. rkLeft' \in 0..PollOk \cup 0..PollLost
    BY <1>1 DEF RekuIInv, RekuTypeOK
  <2>2. shown' \in 0..MaxAge \cup {NaN}
    BY <1>1 DEF RekuIInv, RekuTypeOK, MaxAge
  <2>3. /\ unitErr' \in BOOLEAN /\ unitHas' \in Flows \cup {NaN}
        /\ unitSt' \in {"no", "communicating", "lost"} /\ quiet' \in 0..Watchdog
        /\ unitTx' \in BOOLEAN /\ fans' \in Flows \cup {Failsafe} /\ dog' \in 0..Watchdog
    <3>1. /\ unitErr \in BOOLEAN /\ unitHas \in Flows \cup {NaN}
          /\ unitSt \in {"no", "communicating", "lost"} /\ quiet \in 0..Watchdog
          /\ unitTx \in BOOLEAN /\ fans \in Flows \cup {Failsafe} /\ dog \in 0..Watchdog
      BY DEF RekuIInv, RekuTypeOK
    <3>2. quiet' \in 0..Watchdog /\ dog' \in 0..Watchdog
      BY <1>2, <3>1
    <3>3. unitErr' \in BOOLEAN /\ unitTx' \in BOOLEAN
      BY <1>2, <3>1
    <3>4. unitHas' \in Flows \cup {NaN} /\ unitSt' \in {"no", "communicating", "lost"}
          /\ fans' \in Flows \cup {Failsafe}
      BY <1>2, <3>1
    <3> QED BY <3>2, <3>3, <3>4
  <2>4. unheard' \in 0..(Watchdog + 1)
    BY <1>1 DEF RekuIInv, RekuTypeOK
  <2> QED BY <1>1, <2>1, <2>2, <2>3, <2>4 DEF RekuIInv, RekuTypeOK
<1>4. ValuesInTime'
  BY <1>1 DEF RekuIInv, RekuTypeOK, ValuesInTime, MaxAge
<1>5. FansWatched'
  BY <1>1, <1>2 DEF RekuIInv, RekuTypeOK, FansWatched
<1> QED BY <1>3, <1>4, <1>5 DEF RekuIInv

(* Noise on the line, power-on of the unit, a new order of the user.        *)
LEMMA RekuOtherSteps == RekuIInv /\ (Noise \/ UnitPower \/ NewFlow) => RekuIInv'
<1> SUFFICES ASSUME RekuIInv, Noise \/ UnitPower \/ NewFlow PROVE RekuIInv'
  OBVIOUS
<1> USE RekuAssumption DEF thread, unit
<1>1. CASE Noise
  <2>1. toUnit' \in Seq({"noise", "mark", "rest"} \X (Flows \cup {NaN}))
    BY <1>1 DEF Noise
  <2> QED BY <1>1, <2>1 DEF RekuIInv, RekuTypeOK, ValuesInTime, FansWatched, Noise, MaxAge
<1>2. CASE UnitPower
  <2>1. /\ unitErr' = FALSE /\ unitHas' = NaN /\ unitSt' = "no" /\ quiet' = 0
        /\ fans' = Failsafe /\ dog' = 0 /\ unitTx' = TRUE
        /\ UNCHANGED <<thread, flow, toUnit, toHost, unitNr, noisy, unheard>>
    BY <1>2 DEF UnitPower, UnitReset
  <2>2. quiet' \in 0..Watchdog /\ dog' \in 0..Watchdog
    BY <2>1
  <2>3. RekuTypeOK'
    BY <2>1, <2>2 DEF RekuIInv, RekuTypeOK
  <2>4. ValuesInTime' /\ FansWatched'
    BY <2>1 DEF RekuIInv, ValuesInTime, FansWatched
  <2> QED BY <2>3, <2>4 DEF RekuIInv
<1>3. CASE NewFlow
  BY <1>3 DEF RekuIInv, RekuTypeOK, ValuesInTime, FansWatched, NewFlow, SetFlow, MaxAge
<1> QED BY <1>1, <1>2, <1>3

(* Every step of thread, line and unit.                                     *)
LEMMA RekuNextIInv == RekuIInv /\ [RekuNext]_rekuVars => RekuIInv'
<1> SUFFICES ASSUME RekuIInv, [RekuNext]_rekuVars PROVE RekuIInv'
  OBVIOUS
<1>1. CASE \E written \in BOOLEAN, wire \in Arriving(Pieces(flow)) \cup {Pieces(flow), <<>>} :
             RekuPoll(written, wire)
  BY <1>1, RekuPollSteps
<1>2. CASE RekuAnswer
  BY <1>2, RekuAnswerSteps
<1>3. CASE UnitRx
  BY <1>3, UnitRxSteps
<1>4. CASE \E wire \in Arriving(Pieces(unitNr)) \cup {Pieces(unitNr)} : UnitTx(wire)
  BY <1>4, UnitTxSteps
<1>5. CASE RekuTick
  BY <1>5, RekuTickSteps
<1>6. CASE Noise \/ UnitPower \/ NewFlow
  BY <1>6, RekuOtherSteps
<1>7. CASE UNCHANGED rekuVars
  BY <1>7 DEF rekuVars, RekuIInv, RekuTypeOK, ValuesInTime, FansWatched
<1>8. \/ \E written \in BOOLEAN, wire \in Arriving(Pieces(flow)) \cup {Pieces(flow), <<>>} :
           RekuPoll(written, wire)
      \/ RekuAnswer \/ UnitRx
      \/ \E wire \in Arriving(Pieces(unitNr)) \cup {Pieces(unitNr)} : UnitTx(wire)
      \/ RekuTick \/ Noise \/ UnitPower \/ NewFlow \/ UNCHANGED rekuVars
  BY DEF RekuNext, RekuStep, RekuFault
<1> QED BY <1>1, <1>2, <1>3, <1>4, <1>5, <1>6, <1>7, <1>8

(* What the invariant says of values and fans is what is promised.          *)
LEMMA RekuIsFresh == RekuIInv => VentilationFresh
  BY RekuAssumption
  DEF RekuIInv, RekuTypeOK, ValuesInTime, FansWatched, VentilationFresh, RekuFresh, FansFresh, MaxAge

(* The inductive invariant of the ventilation thread, the line and the unit. *)
THEOREM RekuInvariance == RekuSpec => []RekuIInv
<1> QED BY RekuInitIInv, RekuNextIInv, PTL DEF RekuSpec

(* Well-typedness for any times and flows.                                  *)
THEOREM RekuTypeCorrect == RekuSpec => []RekuTypeOK
<1>1. RekuIInv => RekuTypeOK
  BY DEF RekuIInv
<1> QED BY <1>1, RekuInvariance, PTL

(* Whatever bytes are lost or spoilt, and whichever side restarts: what is  *)
(* published is never older than the polls allow, and the fans do not obey  *)
(* a command older than the unit's watchdog (Reku::threadFunc, the          *)
(* firmware's main loop).                                                   *)
THEOREM VentilationIsFresh == RekuSpec => []VentilationFresh
<1> QED BY RekuInvariance, RekuIsFresh, PTL

-----------------------------------------------------------------------------
(* The slow outputs (SlowPwm).                                              *)

(* A channel that is on has the end of its pulse before it, or no end in    *)
(* this period; one that is off has it behind it.                           *)
PulsesPlanned ==
  /\ at <= to
  /\ \A c \in pwmBits : /\ asked[c] > 0 /\ chto[c] = asked[c]
                        /\ asked[c] \in {to, Nrts} \cup schedule
  /\ \A c \in Heads \ pwmBits : asked[c] <= at
  /\ \A t \in schedule : to < t

(* The worker only waits when the pins are as it calculated them, and each  *)
(* change of what that depends on wakes it.                                 *)
WaitsInAgreement == wkPc = "waiting" /\ ~woken => ~fini /\ pins = pwmBits \cup switches

SlowPwmIInv == SlowPwmTypeOK /\ PulsesPlanned /\ WaitsInAgreement
-----------------------------------------------------------------------------
(* A set of deadlines that is not empty has an earliest.                    *)
LEMMA EarliestExists ==
  ASSUME NEW ends, ends \subseteq Nat, ends # {}
  PROVE  Earliest(ends) \in ends /\ \A t \in ends : Earliest(ends) <= t
<1>1. IsWellFoundedOn(OpToRel(<, Nat), Nat)
  BY NatLessThanWellFounded
<1>2. PICK e \in ends : \A t \in ends : ~(<<t, e>> \in OpToRel(<, Nat))
  BY <1>1, WFMin
<1>3. ASSUME NEW t \in ends PROVE e <= t
  <2>1. t \in Nat /\ e \in Nat
    OBVIOUS
  <2>2. t < e => <<t, e>> \in OpToRel(<, Nat)
    BY <2>1 DEF OpToRel
  <2>3. ~(t < e)
    BY <1>2, <2>2
  <2> QED BY <2>1, <2>3
<1> QED BY <1>2, <1>3 DEF Earliest

(* The next deadline lies before those still to come, and no pulse that     *)
(* ends within the period is forgotten.                                     *)
LEMMA WaitIsNext ==
  ASSUME NEW ends \in SUBSET (1..(Nrts - 1)), Wait(ends)
  PROVE  /\ to' \in 1..Nrts /\ isT0' \in BOOLEAN /\ schedule' \subseteq 1..(Nrts - 1)
         /\ isT0' => to' = Nrts /\ schedule' = {}
         /\ ends \subseteq {to'} \cup schedule'
         /\ \A t \in schedule' : to' < t
         /\ to' \in ends \cup {Nrts}
<1> Nrts \in Nat \ {0}
  BY SlowPwmAssumption
<1>1. CASE ends = {}
  BY <1>1 DEF Wait
<1>2. CASE ends # {}
  <2>0. ends \subseteq Nat
    OBVIOUS
  <2>1. Earliest(ends) \in ends /\ \A t \in ends : Earliest(ends) <= t
    BY <1>2, <2>0, EarliestExists
  <2>2. to' = Earliest(ends) /\ ~isT0' /\ isT0' \in BOOLEAN /\ schedule' = ends \ {to'}
    BY <1>2 DEF Wait
  <2>3. to' \in 1..(Nrts - 1) /\ to' \in ends
    BY <2>1, <2>2
  <2>4. \A t \in schedule' : to' < t
    <3>1. SUFFICES ASSUME NEW t \in ends, t # to' PROVE to' < t
      BY <2>2
    <3>2. to' <= t /\ t \in 1..(Nrts - 1)
      BY <2>1, <2>2
    <3> QED BY <2>3, <3>1, <3>2
  <2>5. ends \subseteq {to'} \cup schedule' /\ schedule' \subseteq 1..(Nrts - 1)
    BY <2>2
  <2> QED BY <2>2, <2>3, <2>4, <2>5
<1> QED BY <1>1, <1>2

(* At first no channel is on and none was asked for.                        *)
LEMMA SlowPwmInitIInv == SlowPwmInit => SlowPwmIInv
<1> SUFFICES ASSUME SlowPwmInit PROVE SlowPwmIInv
  OBVIOUS
<1> Nrts \in Nat \ {0}
  BY SlowPwmAssumption
<1>1. SlowPwmTypeOK
  <2>1. widths \in [Heads -> 0..Nrts] /\ asked \in [Heads -> 0..Nrts] /\ chto \in [Heads -> 0..Nrts]
    BY DEF SlowPwmInit
  <2>2. at \in 0..Nrts /\ to \in 1..Nrts
    BY DEF SlowPwmInit
  <2> QED BY <2>1, <2>2 DEF SlowPwmInit, SlowPwmTypeOK
<1>2. PulsesPlanned
  BY DEF SlowPwmInit, PulsesPlanned
<1>3. WaitsInAgreement
  BY DEF SlowPwmInit, WaitsInAgreement
<1> QED BY <1>1, <1>2, <1>3 DEF SlowPwmIInv
-----------------------------------------------------------------------------
(* The io thread leaves the plan alone, and wakes the worker for all but    *)
(* the widths.                                                              *)
LEMMA IoThreadSteps ==
  ASSUME SlowPwmIInv,
         \/ \E c \in Heads, w \in 0..Nrts : UpdateHead(c, w)
         \/ \E s \in Switched, v \in BOOLEAN : DigOut(s, v)
         \/ Destroy \/ Destroyed
  PROVE  SlowPwmIInv'
<1> USE DEF plan, shared, Notify
<1>1. SlowPwmTypeOK'
  <2>1. CASE \E c \in Heads, w \in 0..Nrts : UpdateHead(c, w)
    BY <2>1 DEF SlowPwmIInv, SlowPwmTypeOK, UpdateHead
  <2>2. CASE \E s \in Switched, v \in BOOLEAN : DigOut(s, v)
    BY <2>2 DEF SlowPwmIInv, SlowPwmTypeOK, DigOut
  <2>3. CASE Destroy
    <3>1. woken' \in BOOLEAN
      BY <2>3 DEF Destroy
    <3> QED BY <2>3, <3>1 DEF SlowPwmIInv, SlowPwmTypeOK, Destroy
  <2>4. CASE Destroyed
    BY <2>4 DEF SlowPwmIInv, SlowPwmTypeOK, Destroyed
  <2> QED BY <2>1, <2>2, <2>3, <2>4
<1>2. UNCHANGED plan
  BY DEF UpdateHead, DigOut, Destroy, Destroyed
<1>3. PulsesPlanned'
  BY <1>2 DEF SlowPwmIInv, PulsesPlanned
<1>4. WaitsInAgreement'
  BY <1>2 DEF SlowPwmIInv, WaitsInAgreement, SlowPwmTypeOK, UpdateHead, DigOut, Destroy, Destroyed
<1> QED BY <1>1, <1>3, <1>4 DEF SlowPwmIInv

(* A new period: the widths of this moment are what it shows.               *)
LEMMA StartsPlans ==
  ASSUME SlowPwmIInv, Starts
  PROVE  /\ PulsesPlanned' /\ pwmBits' \subseteq Heads
         /\ at' \in 0..Nrts /\ to' \in 1..Nrts /\ isT0' \in BOOLEAN
         /\ schedule' \subseteq 1..(Nrts - 1) /\ (isT0' => to' = Nrts /\ schedule' = {})
         /\ chto' \in [Heads -> 0..Nrts] /\ asked' \in [Heads -> 0..Nrts]
<1> Nrts \in Nat \ {0} /\ widths \in [Heads -> 0..Nrts]
  BY SlowPwmAssumption DEF SlowPwmIInv, SlowPwmTypeOK
<1> DEFINE partial == {c \in Heads : widths[c] \in 1..(Nrts - 1)}
           ends == {widths[c] : c \in partial}
<1>1. ends \in SUBSET (1..(Nrts - 1)) /\ Wait(ends)
  BY DEF Starts
<1>2. /\ to' \in 1..Nrts /\ isT0' \in BOOLEAN /\ schedule' \subseteq 1..(Nrts - 1)
      /\ isT0' => to' = Nrts /\ schedule' = {}
      /\ ends \subseteq {to'} \cup schedule'
      /\ \A t \in schedule' : to' < t
  BY <1>1, WaitIsNext
<1>3. at' = 0 /\ asked' = widths /\ pwmBits' = {c \in Heads : widths[c] > 0}
  BY DEF Starts
<1>4. chto' = [c \in Heads |-> IF c \in partial \/ widths[c] = Nrts THEN widths[c] ELSE 0]
  BY DEF Starts
<1>5. \A c \in pwmBits' : /\ widths[c] > 0 /\ chto'[c] = widths[c]
                          /\ widths[c] \in {to', Nrts} \cup schedule'
  BY <1>2, <1>3, <1>4
<1>6. PulsesPlanned'
  BY <1>2, <1>3, <1>5 DEF PulsesPlanned
<1> QED BY <1>2, <1>3, <1>4, <1>6

(* A deadline within the period: the pulses that end there are over.        *)
LEMMA EndsPlans ==
  ASSUME SlowPwmIInv, Ends, at >= to
  PROVE  /\ PulsesPlanned' /\ pwmBits' \subseteq Heads
         /\ at' \in 0..Nrts /\ to' \in 1..Nrts /\ isT0' \in BOOLEAN
         /\ schedule' \subseteq 1..(Nrts - 1) /\ (isT0' => to' = Nrts /\ schedule' = {})
         /\ chto' \in [Heads -> 0..Nrts] /\ asked' \in [Heads -> 0..Nrts]
<1> /\ Nrts \in Nat \ {0} /\ asked \in [Heads -> 0..Nrts] /\ chto \in [Heads -> 0..Nrts]
    /\ at \in 0..Nrts /\ to \in 1..Nrts /\ schedule \in SUBSET (1..(Nrts - 1)) /\ pwmBits \subseteq Heads
  BY SlowPwmAssumption DEF SlowPwmIInv, SlowPwmTypeOK
<1>1. /\ at = to
      /\ \A c \in pwmBits : /\ asked[c] > 0 /\ chto[c] = asked[c]
                            /\ asked[c] \in {to, Nrts} \cup schedule
      /\ \A c \in Heads \ pwmBits : asked[c] <= at
      /\ \A t \in schedule : to < t
  BY DEF SlowPwmIInv, PulsesPlanned
<1>2. /\ pwmBits' = {c \in pwmBits : to < chto[c]} /\ Wait(schedule)
      /\ chto' = chto /\ at' = at /\ asked' = asked
  BY DEF Ends
<1>3. /\ to' \in 1..Nrts /\ isT0' \in BOOLEAN /\ schedule' \subseteq 1..(Nrts - 1)
      /\ isT0' => to' = Nrts /\ schedule' = {}
      /\ schedule \subseteq {to'} \cup schedule'
      /\ \A t \in schedule' : to' < t
      /\ to' \in schedule \cup {Nrts}
  BY <1>2, WaitIsNext
<1>4. at' <= to'
  BY <1>1, <1>2, <1>3
<1>5. \A c \in pwmBits' : /\ asked'[c] > 0 /\ chto'[c] = asked'[c]
                          /\ asked'[c] \in {to', Nrts} \cup schedule'
  BY <1>1, <1>2, <1>3
<1>6. \A c \in Heads \ pwmBits' : asked'[c] <= at'
  BY <1>1, <1>2
<1>7. PulsesPlanned'
  BY <1>3, <1>4, <1>5, <1>6 DEF PulsesPlanned
<1> QED BY <1>2, <1>3, <1>7

(* The worker.                                                              *)
LEMMA WorkerSteps == SlowPwmIInv /\ Worker => SlowPwmIInv'
<1> SUFFICES ASSUME SlowPwmIInv, Worker PROVE SlowPwmIInv'
  OBVIOUS
<1> USE DEF plan, shared, ToWrite, CalcNewVal
<1>1. CASE Looks /\ UNCHANGED <<shared, pins>>
  <2>1. UNCHANGED <<plan, shared, pins, woken>> /\ wkPc' = "writing" /\ newval' \subseteq Heads \cup Switched
    BY <1>1 DEF Looks, SlowPwmIInv, SlowPwmTypeOK
  <2>2. SlowPwmTypeOK'
    BY <2>1 DEF SlowPwmIInv, SlowPwmTypeOK
  <2> QED BY <2>1, <2>2 DEF SlowPwmIInv, PulsesPlanned, WaitsInAgreement
<1>2. CASE Deadline /\ UNCHANGED <<shared, pins>>
  <2>1. /\ PulsesPlanned' /\ pwmBits' \subseteq Heads
        /\ at' \in 0..Nrts /\ to' \in 1..Nrts /\ isT0' \in BOOLEAN
        /\ schedule' \subseteq 1..(Nrts - 1) /\ (isT0' => to' = Nrts /\ schedule' = {})
        /\ chto' \in [Heads -> 0..Nrts] /\ asked' \in [Heads -> 0..Nrts]
    BY <1>2, StartsPlans, EndsPlans DEF Deadline
  <2>2. wkPc' \in {"check", "writing"} /\ newval' \subseteq Heads \cup Switched
    BY <1>2, <2>1 DEF Deadline, SlowPwmIInv, SlowPwmTypeOK
  <2>3. UNCHANGED <<widths, switches, fini, woken, pins>>
    BY <1>2 DEF Deadline
  <2>4. SlowPwmTypeOK'
    BY <2>1, <2>2, <2>3 DEF SlowPwmIInv, SlowPwmTypeOK
  <2>5. WaitsInAgreement'
    BY <2>2 DEF WaitsInAgreement
  <2> QED BY <2>1, <2>4, <2>5 DEF SlowPwmIInv
<1>3. CASE Waits /\ UNCHANGED <<shared, pins>>
  <2>1. SlowPwmTypeOK'
    BY <1>3 DEF Waits, SlowPwmIInv, SlowPwmTypeOK
  <2> QED BY <1>3, <2>1 DEF Waits, SlowPwmIInv, PulsesPlanned, WaitsInAgreement
<1>4. CASE /\ wkPc = "check" /\ wkPc' = IF fini THEN "ended" ELSE "looks"
           /\ UNCHANGED <<shared, woken, newval, pins, plan>>
  <2>1. SlowPwmTypeOK'
    BY <1>4 DEF SlowPwmIInv, SlowPwmTypeOK
  <2> QED BY <1>4, <2>1 DEF SlowPwmIInv, PulsesPlanned, WaitsInAgreement
<1>5. CASE /\ wkPc = "writing" /\ pins' = newval /\ wkPc' = "check"
           /\ UNCHANGED <<shared, woken, newval, plan>>
  <2>1. SlowPwmTypeOK'
    BY <1>5 DEF SlowPwmIInv, SlowPwmTypeOK
  <2> QED BY <1>5, <2>1 DEF SlowPwmIInv, PulsesPlanned, WaitsInAgreement
<1> QED BY <1>1, <1>2, <1>3, <1>4, <1>5 DEF Worker

(* A slot passes up to the deadline and not beyond.                         *)
LEMMA SlotSteps == SlowPwmIInv /\ Slot => SlowPwmIInv'
<1> SUFFICES ASSUME SlowPwmIInv, Slot PROVE SlowPwmIInv'
  OBVIOUS
<1> Nrts \in Nat \ {0}
  BY SlowPwmAssumption
<1>1. SlowPwmTypeOK'
  BY DEF SlowPwmIInv, SlowPwmTypeOK, Slot, shared
<1>2. PulsesPlanned'
  BY DEF SlowPwmIInv, SlowPwmTypeOK, PulsesPlanned, Slot
<1>3. WaitsInAgreement'
  BY DEF SlowPwmIInv, WaitsInAgreement, Slot, shared
<1> QED BY <1>1, <1>2, <1>3 DEF SlowPwmIInv

(* Every step of either thread, and time.                                   *)
LEMMA SlowPwmNextIInv == SlowPwmIInv /\ [SlowPwmNext]_pwmVars => SlowPwmIInv'
<1> SUFFICES ASSUME SlowPwmIInv, [SlowPwmNext]_pwmVars PROVE SlowPwmIInv'
  OBVIOUS
<1>1. CASE UNCHANGED pwmVars
  BY <1>1 DEF SlowPwmIInv, SlowPwmTypeOK, PulsesPlanned, WaitsInAgreement, pwmVars
<1>2. CASE \/ \E c \in Heads, w \in 0..Nrts : UpdateHead(c, w)
           \/ \E s \in Switched, v \in BOOLEAN : DigOut(s, v)
           \/ Destroy \/ Destroyed
  BY <1>2, IoThreadSteps
<1>3. CASE Worker \/ Slot
  BY <1>3, WorkerSteps, SlotSteps
<1> QED BY <1>1, <1>2, <1>3, Zenon DEF SlowPwmNext

(* The inductive invariant of the outputs under both threads.               *)
THEOREM SlowPwmInvariance == SlowPwmSpec => []SlowPwmIInv
<1> QED BY SlowPwmInitIInv, SlowPwmNextIInv, PTL DEF SlowPwmSpec
-----------------------------------------------------------------------------
(* What the invariant says while time passes.                               *)
LEMMA PlannedIsShown == SlowPwmIInv => OutputsRight
<1> SUFFICES ASSUME SlowPwmIInv, Passing PROVE /\ \A c \in Heads : (c \in pins) = (at < asked[c])
                                        /\ pins \cap Switched = switches
  BY DEF OutputsRight, PulsesRight, SwitchesShown
<1>1. /\ Nrts \in Nat \ {0} /\ asked \in [Heads -> 0..Nrts] /\ at \in 0..Nrts /\ to \in 1..Nrts
      /\ schedule \in SUBSET (1..(Nrts - 1)) /\ pwmBits \subseteq Heads /\ switches \subseteq Switched
      /\ Heads \cap Switched = {}
  BY SlowPwmAssumption DEF SlowPwmIInv, SlowPwmTypeOK
<1>2. pins = pwmBits \cup switches /\ at < to
  BY DEF SlowPwmIInv, Passing, WaitsInAgreement
<1>3. ASSUME NEW c \in Heads PROVE (c \in pins) = (at < asked[c])
  <2>1. CASE c \in pwmBits
    <3>1. asked[c] \in {to, Nrts} \cup schedule /\ \A t \in schedule : to < t
      BY <2>1 DEF SlowPwmIInv, PulsesPlanned
    <3>2. at < asked[c]
      BY <1>1, <1>2, <3>1
    <3> QED BY <2>1, <1>2, <3>2
  <2>2. CASE c \notin pwmBits
    <3>1. asked[c] <= at
      BY <2>2 DEF SlowPwmIInv, PulsesPlanned
    <3>2. c \notin pins /\ ~(at < asked[c])
      BY <1>1, <1>2, <2>2, <3>1
    <3> QED BY <3>2
  <2> QED BY <2>1, <2>2
<1>4. pins \cap Switched = switches
  BY <1>1, <1>2
<1> QED BY <1>3, <1>4

(* Well-typedness for any channels and any number of slots.                 *)
THEOREM SlowPwmTypeCorrect == SlowPwmSpec => []SlowPwmTypeOK
<1> QED BY SlowPwmInvariance, PTL DEF SlowPwmIInv

(* Whatever is set while the worker looks, writes or waits: each channel is *)
(* on for the share it had at the beginning of the period, and a switched   *)
(* output shows what it was set to (the worker's loop in slowswi2cpwm).     *)
THEOREM OutputsShowWhatIsAsked == SlowPwmSpec => []OutputsRight
<1> QED BY SlowPwmInvariance, PlannedIsShown, PTL

-----------------------------------------------------------------------------
(* The wall switches (Switches).                                            *)

(* Handlers to run, now or when the timer ends, and marks to click, of a    *)
(* single switch one by one.                                                *)
Pending == Len(handlers) + (IF wait > 0 THEN 1 ELSE 0)
Marks == (IF "LU" \in marked THEN 1 ELSE 0) + (IF "LD" \in marked THEN 1 ELSE 0)
AnyMark == IF marked = {} THEN 0 ELSE 1

(* A mark has a handler that is going to click it: of a single switch its   *)
(* own, of a double one the only one.  No timer outlasts a release.         *)
MarksHaveHandlers ==
  /\ kind = "simple" => Pending = 0 /\ marked \subseteq held
  /\ kind = "duo" => Pending = AnyMark
  /\ kind = "single" => Marks <= Pending
  /\ wait > 0 => /\ \E b \in held : heldFor[b] >= Press - wait
                 /\ kind = "single" => \A b \in held : heldFor[b] >= Press - wait

(* Every handler and every mark stands for a press of its own.              *)
PressesCounted ==
  /\ Len(clicks) + (IF kind = "single" THEN Pending ELSE AnyMark) <= pressed
  /\ pressed > 0 => marked # {} \/ clicks # <<>>
  /\ pressed = 0 => held = {}
  /\ pressed + Cardinality(frame \ held) <= MaxPresses

(* Changes that come one by one find no handler left to run.                *)
OneByOne ==
  ~crowded =>
    /\ Len(handlers) <= 1 /\ (frame # {} => handlers = <<>> /\ \E b \in Buttons : frame = {b})
    /\ kind = "single" => /\ Marks = Pending /\ Len(clicks) + Pending = pressed
                          /\ wait > 0 => marked \subseteq held
    /\ handlers = <<"ok">> => IF kind = "single" THEN \A b \in marked : heldFor[b] >= Press
                                                 ELSE \E b \in held : heldFor[b] >= Press
    /\ LongIsHeld

(* The only press of an episode, before and after its click.                *)
SoloWaits ==
  /\ clicks = <<>> /\ marked = {last}
  /\ kind = "simple" => last \in held
  /\ kind # "simple" =>
       \/ wait > 0 /\ handlers = <<>> /\ last \in held /\ heldFor[last] = Press - wait
       \/ wait = 0 /\ handlers = <<"ok">> /\ heldFor[last] = Press
       \/ wait = 0 /\ handlers = <<"aborted">> /\ last \notin held /\ heldFor[last] < Press
SoloClicked ==
  /\ marked = {} /\ Pending = 0 /\ Len(clicks) = 1 /\ clicks[1].what = {last}
  /\ clicks[1].long = (kind # "simple" /\ heldFor[last] >= Press)
  /\ heldFor[last] < Press => last \notin held \/ kind = "simple"
SoloStory == pressed = 1 => held \subseteq {last} /\ (SoloWaits \/ SoloClicked)

(* A press without a click is marked, on a double switch its side is, and   *)
(* what is marked there was pressed last.                                   *)
PressesAnswered ==
  /\ ~stale
  /\ kind = "single" => owed \subseteq marked
  /\ kind # "single" => /\ marked \subseteq newest
                        /\ \A b \in owed : Side(b) \cap marked # {}

SwitchesIInv ==
  /\ SwitchesTypeOK /\ MarksHaveHandlers /\ PressesCounted /\ OneByOne /\ SoloStory
-----------------------------------------------------------------------------
Click == [what : SUBSET Buttons, long : BOOLEAN, lasting : BOOLEAN]
Completion == {"ok", "aborted"}

(* The types as the proofs use them.                                        *)
LEMMA SwitchTypes ==
  ASSUME SwitchesTypeOK
  PROVE  /\ Press \in Nat \ {0} /\ Left \subseteq Buttons /\ Buttons \subseteq AllButtons
         /\ kind = "single" => Buttons = {"LU", "LD"}
         /\ kind \in {"single", "duo", "simple"} /\ held \subseteq Buttons /\ frame \subseteq Buttons
         /\ heldFor \in [AllButtons -> 0..Press] /\ marked \subseteq Buttons
         /\ wait \in 0..Press /\ handlers \in Seq(Completion) /\ clicks \in Seq(Click)
         /\ pressed \in 0..MaxPresses /\ last \in AllButtons /\ crowded \in BOOLEAN
         /\ Len(handlers) \in Nat /\ Len(clicks) \in Nat /\ Pending \in Nat /\ MaxPresses \in Nat
         /\ Marks \in 0..2 /\ AnyMark \in 0..1
         /\ kind = "single" => (Marks = 0 <=> marked = {})
<1>1. /\ Press \in Nat \ {0} /\ Left \subseteq Buttons /\ Buttons \subseteq AllButtons
      /\ (kind = "single" => Buttons = {"LU", "LD"}) /\ MaxPresses \in Nat
  BY SwitchesAssumption DEF Buttons, Left
<1>2. /\ kind \in {"single", "duo", "simple"} /\ held \subseteq Buttons /\ frame \subseteq Buttons
      /\ heldFor \in [AllButtons -> 0..Press] /\ marked \subseteq Buttons
      /\ wait \in 0..Press /\ handlers \in Seq(Completion) /\ clicks \in Seq(Click)
      /\ pressed \in 0..MaxPresses /\ last \in AllButtons /\ crowded \in BOOLEAN
  BY DEF SwitchesTypeOK, Completion, Click
<1>3. Len(handlers) \in Nat /\ Len(clicks) \in Nat
  <2> HIDE DEF Click, Completion
  <2> QED BY <1>2
<1>4. Pending \in Nat /\ Marks \in 0..2 /\ AnyMark \in 0..1
  BY <1>1, <1>2, <1>3 DEF Pending, Marks, AnyMark
<1>5. kind = "single" => (Marks = 0 <=> marked = {})
  BY <1>1, <1>2 DEF Marks
<1> QED BY <1>1, <1>2, <1>3, <1>4, <1>5

(* A set of buttons is finite.                                              *)
LEMMA ChangesFinite ==
  ASSUME SwitchesTypeOK, NEW changes \in SUBSET Buttons
  PROVE  IsFiniteSet(changes) /\ Cardinality(changes) \in Nat
<1>1. IsFiniteSet({"LU", "LD", "RU", "RD"})
  <2>1. IsFiniteSet({"LU"}) /\ IsFiniteSet({"LD"}) /\ IsFiniteSet({"RU"}) /\ IsFiniteSet({"RD"})
    BY FS_Singleton
  <2>2. IsFiniteSet({"LU"} \cup {"LD"}) /\ IsFiniteSet({"RU"} \cup {"RD"})
    BY <2>1, FS_Union
  <2>3. IsFiniteSet(({"LU"} \cup {"LD"}) \cup ({"RU"} \cup {"RD"}))
    BY <2>2, FS_Union
  <2>4. {"LU", "LD", "RU", "RD"} = ({"LU"} \cup {"LD"}) \cup ({"RU"} \cup {"RD"})
    OBVIOUS
  <2> QED BY <2>3, <2>4
<1>2. changes \subseteq {"LU", "LD", "RU", "RD"}
  <2>1. changes \subseteq AllButtons
    BY SwitchTypes
  <2> QED BY <2>1, SwitchesAssumption
<1> QED BY <1>1, <1>2, FS_Subset, FS_CardinalityType

(* The presses still to come of a frame.                                    *)
LEMMA PressesLeft ==
  ASSUME SwitchesTypeOK, NEW b \in frame
  PROVE  /\ Cardinality(frame \ held) \in Nat /\ IsFiniteSet(frame \ held)
         /\ b \notin held => Cardinality((frame \ {b}) \ (held \cup {b})) = Cardinality(frame \ held) - 1
         /\ b \in held => (frame \ {b}) \ (held \ {b}) = frame \ held
<1>1. frame \ held \in SUBSET Buttons
  BY SwitchTypes
<1>3. IsFiniteSet(frame \ held)
  BY <1>1, ChangesFinite
<1>4. Cardinality(frame \ held) \in Nat
  BY <1>1, ChangesFinite
<1>5. ASSUME b \notin held
      PROVE  Cardinality((frame \ {b}) \ (held \cup {b})) = Cardinality(frame \ held) - 1
  <2>1. (frame \ {b}) \ (held \cup {b}) = (frame \ held) \ {b} /\ b \in frame \ held
    BY <1>5
  <2>2. Cardinality((frame \ held) \ {b}) = Cardinality(frame \ held) - 1
    BY <1>3, <2>1, FS_RemoveElement
  <2> QED BY <2>1, <2>2
<1>6. b \in held => (frame \ {b}) \ (held \ {b}) = frame \ held
  OBVIOUS
<1> QED BY <1>3, <1>4, <1>5, <1>6

(* An abort turns the wait into a handler.                                  *)
LEMMA AbortKeepsPending ==
  ASSUME SwitchesTypeOK
  PROVE  /\ Aborted \in Seq(Completion) /\ Len(Aborted) = Pending
         /\ wait = 0 => Aborted = handlers
         /\ wait > 0 /\ handlers = <<>> => Aborted = <<"aborted">>
         /\ handlers = <<>> => Aborted # <<"ok">>
<1>1. handlers \in Seq(Completion) /\ wait \in Nat
  BY SwitchTypes
<1>2. CASE wait > 0
  <2>1. Aborted = Append(handlers, "aborted") /\ Pending = Len(handlers) + 1
    BY <1>2 DEF Aborted, Pending
  <2>2. "aborted" \in Completion
    BY DEF Completion
  <2>3. handlers = <<>> => Aborted = <<"aborted">>
    BY <2>1
  <2> QED BY <1>1, <1>2, <2>1, <2>2, <2>3
<1>3. CASE ~(wait > 0)
  BY <1>1, <1>3 DEF Aborted, Pending
<1> QED BY <1>2, <1>3

(* A click that is raised comes after the earlier ones.                     *)
LEMMA RaiseAppends ==
  ASSUME SwitchesTypeOK, NEW what \in SUBSET Buttons, NEW long \in BOOLEAN, Raise(what, long)
  PROVE  /\ clicks' \in Seq(Click)
         /\ what = {} => clicks' = clicks
         /\ what # {} =>
              /\ Len(clicks') = Len(clicks) + 1 /\ DOMAIN clicks' = 1..(Len(clicks) + 1)
              /\ clicks' # <<>>
              /\ \A i \in DOMAIN clicks : clicks'[i] = clicks[i]
              /\ DOMAIN clicks = 1..Len(clicks)
              /\ clicks'[Len(clicks) + 1].what = what /\ clicks'[Len(clicks) + 1].long = long
              /\ clicks'[Len(clicks) + 1].lasting =
                   \E b \in (IF kind = "single" THEN {} ELSE held) \cup what : heldFor[b] >= Press
<1> DEFINE c == [what |-> what, long |-> long,
                 lasting |-> \E b \in (IF kind = "single" THEN {} ELSE held) \cup what :
                               heldFor[b] >= Press]
<1>1. clicks \in Seq(Click)
  BY SwitchTypes
<1>2. c \in Click
  BY DEF Click
<1>3. clicks' = IF what = {} THEN clicks ELSE Append(clicks, c)
  BY DEF Raise
<1>4. /\ c.what = what /\ c.long = long
      /\ c.lasting = \E b \in (IF kind = "single" THEN {} ELSE held) \cup what : heldFor[b] >= Press
  OBVIOUS
<1> HIDE DEF c, Click
<1>5. CASE what = {}
  BY <1>1, <1>3, <1>5
<1>6. CASE what # {}
  <2>1. clicks' = Append(clicks, c)
    BY <1>3, <1>6
  <2>2. /\ clicks' \in Seq(Click) /\ Len(clicks') = Len(clicks) + 1
        /\ DOMAIN clicks' = 1..(Len(clicks) + 1) /\ clicks' # <<>> /\ DOMAIN clicks = 1..Len(clicks)
        /\ \A i \in DOMAIN clicks : clicks'[i] = clicks[i]
        /\ clicks'[Len(clicks) + 1] = c
    BY <1>1, <1>2, <2>1
  <2> QED BY <1>4, <1>6, <2>2
<1> QED BY <1>5, <1>6

(* A press marks its button; the timer starts again on a single switch,     *)
(* only for the first mark on a double one.                                 *)
LEMMA PressIInv ==
  ASSUME SwitchesIInv, NEW b \in frame, b \notin held, frame' = frame \ {b}, Pressed(b),
         UNCHANGED <<kind, crowded>>
  PROVE  SwitchesIInv'
<1>1. SwitchesTypeOK /\ MarksHaveHandlers /\ PressesCounted /\ OneByOne /\ SoloStory
  BY DEF SwitchesIInv
<1>2. /\ Press \in Nat \ {0} /\ Left \subseteq Buttons /\ Buttons \subseteq AllButtons
      /\ kind = "single" => Buttons = {"LU", "LD"}
      /\ kind \in {"single", "duo", "simple"} /\ held \subseteq Buttons /\ frame \subseteq Buttons
      /\ heldFor \in [AllButtons -> 0..Press] /\ marked \subseteq Buttons
      /\ wait \in 0..Press /\ handlers \in Seq(Completion) /\ clicks \in Seq(Click)
      /\ pressed \in 0..MaxPresses /\ MaxPresses \in Nat
      /\ Len(handlers) \in Nat /\ Len(clicks) \in Nat /\ Pending \in Nat
      /\ Marks \in 0..2 /\ AnyMark \in 0..1 /\ (kind = "single" => (Marks = 0 <=> marked = {}))
      /\ b \in Buttons /\ b \in AllButtons
  BY <1>1, SwitchTypes
<1>3. /\ held' = held \cup {b} /\ heldFor' = [heldFor EXCEPT ![b] = 0]
      /\ pressed' = pressed + 1 /\ last' = b /\ clicks' = clicks /\ kind' = kind /\ crowded' = crowded
      /\ marked' = IF kind = "single" THEN marked \cup {b} ELSE (marked \ Side(b)) \cup {b}
      /\ IF StartsTimer THEN handlers' = Aborted /\ wait' = Press ELSE UNCHANGED <<handlers, wait>>
  BY DEF Pressed, Marked, StartTimer, UnchangedTimer
<1>4. /\ Cardinality(frame' \ held') = Cardinality(frame \ held) - 1
      /\ Cardinality(frame \ held) \in Nat
  BY <1>1, <1>3, PressesLeft
<1>5. /\ pressed' \in 0..MaxPresses /\ pressed' + Cardinality(frame' \ held') <= MaxPresses
      /\ marked' # {} /\ marked' \subseteq Buttons /\ AnyMark' = 1
      /\ pressed = 0 => held = {}
  <2>1. marked' # {} /\ marked' \subseteq Buttons
    BY <1>2, <1>3
  <2>2. pressed' \in 0..MaxPresses /\ pressed' + Cardinality(frame' \ held') <= MaxPresses
    <3> DEFINE c == Cardinality(frame \ held)
               d == Cardinality(frame' \ held')
    <3>1. pressed + c <= MaxPresses /\ d = c - 1 /\ c \in Nat
      BY <1>1, <1>4 DEF PressesCounted
    <3>2. d \in Nat
      <4>1. frame' \ held' \subseteq frame \ held /\ IsFiniteSet(frame \ held)
        BY <1>1, <1>3, PressesLeft
      <4> QED BY <4>1, FS_Subset, FS_CardinalityType
    <3> HIDE DEF c, d
    <3>3. pressed + 1 \in 0..MaxPresses /\ pressed + 1 + d <= MaxPresses
      BY <1>2, <3>1, <3>2
    <3> QED BY <1>3, <3>3 DEF d
  <2> QED BY <1>1, <2>1, <2>2 DEF PressesCounted, AnyMark
<1>6. Aborted \in Seq(Completion) /\ Len(Aborted) = Pending /\ (handlers = <<>> => Aborted # <<"ok">>)
  BY <1>1, AbortKeepsPending
<1>7. SwitchesTypeOK'
  <2>1. wait' \in 0..Press /\ handlers' \in Seq(Completion)
    BY <1>2, <1>3, <1>6
  <2>2. heldFor' \in [AllButtons -> 0..Press]
    BY <1>2, <1>3
  <2>3. held' \subseteq Buttons /\ frame' \subseteq Buttons /\ Buttons' = Buttons
    BY <1>2, <1>3 DEF Buttons
  <2>4. owed' \subseteq Buttons /\ newest' \subseteq Buttons /\ stale' \in BOOLEAN
    BY <1>1, <1>2 DEF Pressed, SwitchesTypeOK
  <2> QED BY <1>1, <1>2, <1>3, <1>5, <2>1, <2>2, <2>3, <2>4 DEF SwitchesTypeOK, Completion, Click
<1>8. \A h \in held : heldFor'[h] = heldFor[h]
  BY <1>2, <1>3
<1>9. ASSUME ~crowded
      PROVE  frame' = {} /\ handlers = <<>> /\ Len(handlers) = 0 /\ LongIsHeld'
  BY <1>1, <1>3, <1>9 DEF OneByOne, LongIsHeld
<1>10. ASSUME kind = "simple" PROVE MarksHaveHandlers' /\ PressesCounted' /\ OneByOne' /\ SoloStory'
  <2>1. UNCHANGED <<handlers, wait>> /\ Pending' = 0 /\ Pending = 0 /\ wait = 0 /\ Len(handlers) = 0
    BY <1>1, <1>2, <1>3, <1>10 DEF StartsTimer, MarksHaveHandlers, Pending
  <2>2. marked' \subseteq held'
    BY <1>1, <1>3, <1>10 DEF MarksHaveHandlers
  <2>3. Len(clicks) <= pressed /\ (pressed = 0 => marked = {} /\ Len(clicks) = 0)
    BY <1>1, <1>2, <1>10 DEF PressesCounted, AnyMark
  <2>4. MarksHaveHandlers' /\ PressesCounted'
    BY <1>2, <1>3, <1>5, <1>10, <2>1, <2>2, <2>3 DEF MarksHaveHandlers, PressesCounted
  <2>5. OneByOne'
    BY <1>3, <1>9, <1>10, <2>1 DEF OneByOne
  <2>6. SoloStory'
    BY <1>2, <1>3, <1>5, <1>10, <2>3 DEF SoloStory, SoloWaits
  <2> QED BY <2>4, <2>5, <2>6
<1>11. ASSUME kind = "duo" PROVE MarksHaveHandlers' /\ PressesCounted' /\ OneByOne' /\ SoloStory'
  <2>1. Pending = AnyMark /\ Len(clicks) + AnyMark <= pressed
    BY <1>1, <1>11 DEF MarksHaveHandlers, PressesCounted
  <2>2. CASE marked = {}
    <3>1. handlers' = Aborted /\ wait' = Press /\ Pending = 0 /\ Len(handlers') = 0
      BY <1>3, <1>6, <1>11, <2>1, <2>2 DEF StartsTimer, AnyMark
    <3>2. Pending' = 1 /\ handlers' = <<>>
      BY <1>2, <1>6, <3>1 DEF Pending
    <3>3. b \in held' /\ heldFor'[b] = 0
      BY <1>2, <1>3
    <3>4. MarksHaveHandlers' /\ PressesCounted'
      BY <1>2, <1>3, <1>5, <1>11, <2>1, <2>2, <3>1, <3>2, <3>3
         DEF MarksHaveHandlers, PressesCounted, AnyMark
    <3>5. OneByOne'
      BY <1>3, <1>9, <1>11, <3>1, <3>2 DEF OneByOne
    <3>6. SoloStory'
      BY <1>2, <1>3, <1>5, <1>11, <2>1, <2>2, <3>1, <3>2, <3>3 DEF SoloStory, SoloWaits
    <3> QED BY <3>4, <3>5, <3>6
  <2>3. CASE marked # {}
    <3>1. UNCHANGED <<handlers, wait>> /\ Pending' = Pending /\ Pending = 1
      BY <1>3, <1>11, <2>1, <2>3 DEF StartsTimer, AnyMark, Pending
    <3>2. wait > 0 => \E h \in held' : heldFor'[h] >= Press - wait
      BY <1>1, <1>3, <1>8 DEF MarksHaveHandlers
    <3>3. MarksHaveHandlers' /\ PressesCounted'
      BY <1>2, <1>3, <1>5, <1>11, <2>1, <2>3, <3>1, <3>2
         DEF MarksHaveHandlers, PressesCounted, AnyMark
    <3>4. OneByOne'
      BY <1>3, <1>9, <1>11, <3>1 DEF OneByOne
    <3>5. SoloStory'
      BY <1>2, <1>3, <2>1, <2>3, <3>1 DEF SoloStory
    <3> QED BY <3>3, <3>4, <3>5
  <2> QED BY <2>2, <2>3
<1>12. ASSUME kind = "single" PROVE MarksHaveHandlers' /\ PressesCounted' /\ OneByOne' /\ SoloStory'
  <2>1. /\ handlers' = Aborted /\ wait' = Press /\ marked' = marked \cup {b}
        /\ Marks <= Pending /\ Len(clicks) + Pending <= pressed
    BY <1>1, <1>3, <1>12 DEF StartsTimer, MarksHaveHandlers, PressesCounted
  <2>2. Pending' = Pending + 1 /\ b \in {"LU", "LD"}
    BY <1>2, <1>6, <1>12, <2>1 DEF Pending
  <2>3. Marks' \in 0..2 /\ Marks' <= Marks + 1 /\ (b \notin marked => Marks' = Marks + 1)
    BY <2>1, <2>2 DEF Marks
  <2>4. \A h \in held' : heldFor'[h] >= 0 /\ heldFor'[b] = 0
    BY <1>2, <1>3
  <2>5. MarksHaveHandlers' /\ PressesCounted'
    <3>1. MarksHaveHandlers'
      <4>1. wait' > 0 /\ Press - wait' = 0 /\ b \in held'
        BY <1>2, <1>3, <2>1
      <4>2. Marks' <= Pending'
        BY <1>2, <2>1, <2>2, <2>3
      <4> QED BY <1>3, <1>12, <2>4, <4>1, <4>2 DEF MarksHaveHandlers
    <3>2. PressesCounted'
      BY <1>2, <1>3, <1>5, <1>12, <2>1, <2>2 DEF PressesCounted
    <3> QED BY <3>1, <3>2
  <2>6. ASSUME ~crowded PROVE b \notin marked /\ marked' \subseteq held'
    <3>1. CASE wait > 0
      BY <1>1, <1>3, <1>12, <2>1, <2>6, <3>1 DEF OneByOne
    <3>2. CASE wait = 0
      <4>1. Pending = 0
        BY <1>9, <2>6, <3>2 DEF Pending
      <4>2. marked = {}
        BY <1>2, <1>12, <2>1, <4>1
      <4> QED BY <1>3, <2>1, <4>2
    <3> QED BY <1>2, <3>1, <3>2
  <2>7. OneByOne'
    <3>1. SUFFICES ASSUME ~crowded PROVE OneByOne'
      BY <1>3 DEF OneByOne
    <3>2. Len(handlers') <= 1 /\ handlers' # <<"ok">>
      <4>1. Pending <= 1
        BY <1>2, <1>9, <3>1 DEF Pending
      <4> QED BY <1>6, <1>9, <2>1, <3>1, <4>1
    <3>3. Marks' = Pending' /\ Len(clicks') + Pending' = pressed'
      BY <1>1, <1>2, <1>3, <1>12, <2>2, <2>3, <2>6, <3>1 DEF OneByOne
    <3> QED BY <1>9, <2>6, <3>1, <3>2, <3>3 DEF OneByOne
  <2>8. SoloStory'
    <3>1. SUFFICES ASSUME pressed = 0 PROVE held' \subseteq {last'} /\ SoloWaits'
      BY <1>2, <1>3 DEF SoloStory
    <3>2. Pending = 0 /\ Len(clicks) = 0 /\ marked = {}
      BY <1>2, <1>12, <2>1, <3>1
    <3>3. handlers' = <<>> /\ clicks = <<>>
      BY <1>2, <1>6, <2>1, <3>2
    <3> QED BY <1>2, <1>3, <1>5, <1>12, <2>1, <2>4, <3>1, <3>2, <3>3 DEF SoloWaits
  <2> QED BY <2>5, <2>7, <2>8
<1> QED BY <1>2, <1>7, <1>10, <1>11, <1>12 DEF SwitchesIInv

(* A release of a switch without timer clicks its marks, else it cancels.   *)
LEMMA ReleaseIInv ==
  ASSUME SwitchesIInv, NEW b \in frame, b \in held, frame' = frame \ {b}, Released(b),
         held' = held \ {b}, UNCHANGED <<heldFor, pressed, last, kind, crowded>>
  PROVE  SwitchesIInv'
<1>1. SwitchesTypeOK /\ MarksHaveHandlers /\ PressesCounted /\ OneByOne /\ SoloStory
  BY DEF SwitchesIInv
<1>2. /\ Press \in Nat \ {0} /\ Buttons \subseteq AllButtons
      /\ kind \in {"single", "duo", "simple"} /\ held \subseteq Buttons /\ frame \subseteq Buttons
      /\ heldFor \in [AllButtons -> 0..Press] /\ marked \subseteq Buttons
      /\ wait \in 0..Press /\ handlers \in Seq(Completion) /\ clicks \in Seq(Click)
      /\ pressed \in 0..MaxPresses /\ MaxPresses \in Nat /\ last \in AllButtons
      /\ Len(handlers) \in Nat /\ Len(clicks) \in Nat /\ Pending \in Nat
      /\ Marks \in 0..2 /\ AnyMark \in 0..1
  BY <1>1, SwitchTypes
<1>3. frame' \ held' = frame \ held /\ frame' \subseteq Buttons /\ held' \subseteq Buttons
      /\ pressed' + Cardinality(frame' \ held') <= MaxPresses
  BY <1>1, <1>2, PressesLeft DEF PressesCounted
<1>4. ASSUME ~crowded PROVE frame' = {} /\ handlers = <<>>
  BY <1>1, <1>4 DEF OneByOne
<1>5. pressed = 1 => b = last /\ held' = {}
  BY <1>1 DEF SoloStory
<1>6. held # {} => pressed # 0
  BY <1>1 DEF PressesCounted
<1>7. CASE kind = "simple"
  <2>1. /\ Raise(marked, FALSE) /\ marked' = {} /\ UNCHANGED <<handlers, wait>>
        /\ Pending = 0 /\ Pending' = 0 /\ wait = 0 /\ Len(handlers) = 0
    <3>1. Raise(marked, FALSE) /\ marked' = {} /\ UNCHANGED <<handlers, wait>>
      BY <1>7 DEF Released, UnchangedTimer
    <3>2. Pending = 0 /\ wait = 0 /\ Len(handlers) = 0
      BY <1>1, <1>2, <1>7 DEF MarksHaveHandlers, Pending
    <3> QED BY <3>1, <3>2 DEF Pending
  <2>2. /\ clicks' \in Seq(Click) /\ (marked = {} => clicks' = clicks)
        /\ marked # {} =>
             /\ Len(clicks') = Len(clicks) + 1 /\ DOMAIN clicks' = 1..(Len(clicks) + 1)
             /\ DOMAIN clicks = 1..Len(clicks) /\ clicks' # <<>>
             /\ \A i \in DOMAIN clicks : clicks'[i] = clicks[i]
             /\ clicks'[Len(clicks) + 1].what = marked /\ clicks'[Len(clicks) + 1].long = FALSE
    BY <1>1, <1>2, <2>1, RaiseAppends
  <2>3. SwitchesTypeOK'
    <3>1. Buttons' = Buttons
      BY DEF Buttons
    <3>2. owed' \subseteq Buttons /\ newest' \subseteq Buttons /\ stale' \in BOOLEAN
      BY <1>1, <2>1 DEF Raise, SwitchesTypeOK
    <3> QED BY <1>1, <1>3, <2>1, <2>2, <3>1, <3>2 DEF SwitchesTypeOK, Click
  <2>4. MarksHaveHandlers' /\ PressesCounted'
    <3>1. Len(clicks') + 0 <= pressed
      BY <1>1, <1>2, <1>7, <2>2 DEF PressesCounted, AnyMark
    <3>2. clicks' # <<>>
      BY <1>1, <1>2, <1>6, <2>2 DEF PressesCounted
    <3>3. AnyMark' = 0
      BY <2>1 DEF AnyMark
    <3> QED BY <1>2, <1>3, <1>6, <1>7, <2>1, <3>1, <3>2, <3>3 DEF MarksHaveHandlers, PressesCounted
  <2>5. OneByOne'
    <3>1. SUFFICES ASSUME ~crowded PROVE LongIsHeld'
      BY <1>4, <1>7, <2>1 DEF OneByOne
    <3>2. \A i \in DOMAIN clicks' : clicks'[i].long => i \in DOMAIN clicks /\ clicks'[i] = clicks[i]
      BY <1>2, <2>2
    <3> QED BY <1>1, <3>1, <3>2 DEF OneByOne, LongIsHeld
  <2>6. SoloStory'
    <3>1. SUFFICES ASSUME pressed = 1 PROVE SoloClicked'
      BY <1>5 DEF SoloStory
    <3>2. CASE SoloWaits
      <4>1. marked = {last} /\ Len(clicks) = 0
        BY <3>2 DEF SoloWaits
      <4>2. Len(clicks') = 1 /\ clicks'[1].what = {last} /\ clicks'[1].long = FALSE
        BY <2>2, <4>1
      <4> QED BY <1>7, <2>1, <4>2 DEF SoloClicked
    <3>3. CASE SoloClicked
      BY <1>7, <2>1, <2>2, <3>3 DEF SoloClicked
    <3> QED BY <1>1, <3>1, <3>2, <3>3 DEF SoloStory
  <2> QED BY <2>3, <2>4, <2>5, <2>6 DEF SwitchesIInv
<1>8. CASE kind # "simple"
  <2>1. handlers' = Aborted /\ wait' = 0 /\ UNCHANGED <<marked, clicks, owed, newest, stale>>
    BY <1>8 DEF Released, Cancel
  <2>2. /\ Aborted \in Seq(Completion) /\ Len(Aborted) = Pending
        /\ wait = 0 => Aborted = handlers
        /\ wait > 0 /\ handlers = <<>> => Aborted = <<"aborted">>
        /\ handlers = <<>> => Aborted # <<"ok">>
    BY <1>1, AbortKeepsPending
  <2>3. SwitchesTypeOK'
    <3>1. Buttons' = Buttons /\ wait' \in 0..Press
      BY <1>2, <2>1 DEF Buttons
    <3> QED BY <1>1, <1>3, <2>1, <2>2, <3>1 DEF SwitchesTypeOK, Completion
  <2>4. Pending' = Pending /\ Marks' = Marks /\ AnyMark' = AnyMark
    BY <2>1, <2>2 DEF Pending, Marks, AnyMark
  <2>5. MarksHaveHandlers' /\ PressesCounted'
    <3>1. MarksHaveHandlers'
      BY <1>1, <1>8, <2>1, <2>4 DEF MarksHaveHandlers
    <3> QED BY <1>1, <1>3, <1>6, <2>1, <2>4, <3>1 DEF PressesCounted
  <2>6. OneByOne'
    <3>1. SUFFICES ASSUME ~crowded PROVE OneByOne'
      BY DEF OneByOne
    <3>2. Len(handlers') <= 1 /\ handlers' # <<"ok">>
      <4>1. Pending <= 1 /\ handlers = <<>>
        BY <1>2, <1>4, <3>1 DEF Pending
      <4> QED BY <2>1, <2>2, <4>1
    <3> QED BY <1>1, <1>4, <2>1, <2>4, <3>1, <3>2 DEF OneByOne, LongIsHeld
  <2>7. SoloStory'
    <3>1. SUFFICES ASSUME pressed = 1 PROVE SoloWaits' \/ SoloClicked'
      BY <1>5 DEF SoloStory
    <3>2. last \in held /\ last \notin held'
      BY <1>5, <3>1
    <3>3. CASE SoloWaits
      <4>1. \/ wait > 0 /\ handlers = <<>> /\ heldFor[last] = Press - wait
            \/ wait = 0 /\ handlers = <<"ok">> /\ heldFor[last] = Press
        BY <1>8, <3>2, <3>3 DEF SoloWaits
      <4>2. \/ handlers' = <<"aborted">> /\ heldFor[last] < Press
            \/ handlers' = <<"ok">> /\ heldFor[last] = Press
        <5>1. wait > 0 => handlers' = <<"aborted">> /\ heldFor[last] < Press
          <6>1. SUFFICES ASSUME wait > 0 PROVE handlers' = <<"aborted">> /\ heldFor[last] < Press
            OBVIOUS
          <6>2. handlers = <<>> /\ heldFor[last] = Press - wait
            BY <1>2, <4>1, <6>1
          <6>3. handlers' = <<"aborted">>
            BY <2>1, <2>2, <6>1, <6>2
          <6>4. Press \in Nat /\ wait \in Nat
            BY <1>2
          <6> QED BY <6>1, <6>2, <6>3, <6>4
        <5>2. wait = 0 => handlers' = <<"ok">> /\ heldFor[last] = Press
          <6>1. SUFFICES ASSUME wait = 0 PROVE handlers' = <<"ok">> /\ heldFor[last] = Press
            OBVIOUS
          <6>2. ~(wait > 0)
            BY <6>1
          <6>3. handlers = <<"ok">> /\ heldFor[last] = Press
            BY <4>1, <6>2
          <6>4. handlers' = handlers
            BY <2>1, <2>2, <6>1
          <6> QED BY <6>3, <6>4
        <5> QED BY <1>2, <5>1, <5>2
      <4> QED BY <1>8, <2>1, <3>2, <3>3, <4>2 DEF SoloWaits
    <3>4. CASE SoloClicked
      BY <1>8, <2>1, <2>4, <3>2, <3>4 DEF SoloClicked
    <3> QED BY <1>1, <3>1, <3>3, <3>4 DEF SoloStory
  <2> QED BY <2>3, <2>5, <2>6, <2>7 DEF SwitchesIInv
<1> QED BY <1>7, <1>8

(* A handler clicks what is marked, one button of a single switch, all of a *)
(* double one.                                                              *)
LEMMA OnTimerIInv == SwitchesIInv /\ OnTimer => SwitchesIInv'
<1> SUFFICES ASSUME SwitchesIInv, OnTimer PROVE SwitchesIInv'
  OBVIOUS
<1>1. SwitchesTypeOK /\ MarksHaveHandlers /\ PressesCounted /\ OneByOne /\ SoloStory
  BY DEF SwitchesIInv
<1>2. /\ Press \in Nat \ {0} /\ Buttons \subseteq AllButtons
      /\ kind = "single" => Buttons = {"LU", "LD"}
      /\ kind \in {"single", "duo", "simple"} /\ held \subseteq Buttons
      /\ heldFor \in [AllButtons -> 0..Press] /\ marked \subseteq Buttons
      /\ wait \in 0..Press /\ handlers \in Seq(Completion) /\ clicks \in Seq(Click)
      /\ pressed \in 0..MaxPresses /\ MaxPresses \in Nat /\ last \in AllButtons
      /\ Len(handlers) \in Nat /\ Len(clicks) \in Nat /\ Pending \in Nat
      /\ Marks \in 0..2 /\ AnyMark \in 0..1 /\ (kind = "single" => (Marks = 0 <=> marked = {}))
  BY <1>1, SwitchTypes
<1> DEFINE long == Head(handlers) = "ok"
<1>3. /\ frame = {} /\ handlers # <<>> /\ handlers' = Tail(handlers) /\ Raise(Consumed, long)
      /\ marked' = marked \ Consumed
      /\ UNCHANGED <<kind, held, heldFor, wait, frame, pressed, last, crowded>>
  BY DEF OnTimer
<1>4. /\ Len(handlers) >= 1 /\ Len(handlers') = Len(handlers) - 1 /\ handlers' \in Seq(Completion)
      /\ Pending' = Pending - 1 /\ Pending >= 1
      /\ Len(handlers) = 1 => handlers' = <<>> /\ (long => handlers = <<"ok">>)
  <2>1. /\ Len(handlers) >= 1 /\ Len(handlers') = Len(handlers) - 1 /\ handlers' \in Seq(Completion)
    BY <1>2, <1>3
  <2>2. Pending' = Pending - 1 /\ Pending >= 1
    BY <1>2, <1>3, <2>1 DEF Pending
  <2>3. Len(handlers) = 1 => handlers' = <<>> /\ (long => handlers = <<"ok">>)
    BY <1>2, <1>3, <2>1
  <2> QED BY <2>1, <2>2, <2>3
<1> HIDE DEF long
<1>5. kind # "simple"
  BY <1>1, <1>4 DEF MarksHaveHandlers
<1>6. /\ Consumed \subseteq marked /\ (Consumed = {} <=> marked = {})
      /\ kind = "duo" => Consumed = marked
      /\ kind = "single" /\ marked # {} => \E c \in {"LU", "LD"} : Consumed = {c} /\ Marks' = Marks - 1
  <2>1. CASE kind = "duo"
    BY <2>1 DEF Consumed
  <2>2. CASE kind = "single"
    <3>1. marked \subseteq {"LU", "LD"}
      BY <1>2, <2>2
    <3>2. CASE marked = {}
      BY <3>2 DEF Consumed
    <3>3. CASE marked # {}
      <4> DEFINE c == CHOOSE b \in marked : "LU" \in marked => b = "LU"
      <4>1. \E b \in marked : "LU" \in marked => b = "LU"
        BY <3>3
      <4>2. c \in marked
        BY <4>1
      <4>3. Consumed = {c}
        BY <2>2, <3>3 DEF Consumed
      <4> HIDE DEF c
      <4>4. marked' = marked \ {c} /\ c \in {"LU", "LD"}
        BY <1>3, <3>1, <4>2, <4>3
      <4>5. Marks' = Marks - 1
        BY <4>2, <4>4 DEF Marks
      <4> QED BY <2>2, <3>3, <4>2, <4>3, <4>4, <4>5
    <3> QED BY <3>2, <3>3
  <2> QED BY <1>2, <1>5, <2>1, <2>2
<1>7. /\ clicks' \in Seq(Click)
      /\ Consumed = {} => clicks' = clicks
      /\ Consumed # {} =>
           /\ Len(clicks') = Len(clicks) + 1 /\ DOMAIN clicks' = 1..(Len(clicks) + 1)
           /\ clicks' # <<>>
           /\ \A i \in DOMAIN clicks : clicks'[i] = clicks[i]
           /\ DOMAIN clicks = 1..Len(clicks)
           /\ clicks'[Len(clicks) + 1].what = Consumed /\ clicks'[Len(clicks) + 1].long = long
           /\ clicks'[Len(clicks) + 1].lasting =
                \E b \in (IF kind = "single" THEN {} ELSE held) \cup Consumed : heldFor[b] >= Press
  <2>1. Consumed \in SUBSET Buttons /\ long \in BOOLEAN
    BY <1>2, <1>6 DEF long
  <2> QED BY <1>1, <1>3, <2>1, RaiseAppends
<1>8. SwitchesTypeOK'
  <2>1. Buttons' = Buttons /\ marked' \subseteq Buttons
    BY <1>2, <1>3 DEF Buttons
  <2>2. owed' \subseteq Buttons /\ newest' \subseteq Buttons /\ stale' \in BOOLEAN
    BY <1>1, <1>3 DEF Raise, SwitchesTypeOK
  <2> QED BY <1>1, <1>3, <1>4, <1>7, <2>1, <2>2 DEF SwitchesTypeOK, Click, Completion
<1>9. kind = "duo" => Pending = 1 /\ marked # {} /\ Consumed = marked /\ marked' = {}
                      /\ Len(handlers) = 1 /\ wait = 0
  BY <1>1, <1>2, <1>3, <1>4, <1>6 DEF MarksHaveHandlers, AnyMark, Pending
<1>10. kind = "single" /\ marked = {} => clicks' = clicks /\ marked' = {} /\ Marks' = Marks
  BY <1>3, <1>6, <1>7 DEF Marks
<1>11. MarksHaveHandlers'
  <2>1. CASE kind = "duo"
    <3>1. Pending' = 0 /\ AnyMark' = 0
      BY <1>4, <1>9, <2>1 DEF AnyMark
    <3> QED BY <1>1, <1>3, <2>1, <3>1 DEF MarksHaveHandlers
  <2>2. CASE kind = "single"
    <3>1. Marks' <= Pending'
      BY <1>1, <1>2, <1>4, <1>6, <1>10, <2>2 DEF MarksHaveHandlers
    <3> QED BY <1>1, <1>3, <2>2, <3>1 DEF MarksHaveHandlers
  <2> QED BY <1>2, <1>5, <2>1, <2>2
<1>12. PressesCounted'
  <2>1. CASE kind = "duo"
    <3>1. Len(clicks) + 1 <= pressed /\ Len(clicks') = Len(clicks) + 1 /\ clicks' # <<>>
      BY <1>1, <1>7, <1>9, <2>1 DEF PressesCounted, AnyMark
    <3>2. AnyMark' = 0
      BY <1>9, <2>1 DEF AnyMark
    <3> QED BY <1>1, <1>2, <1>3, <2>1, <3>1, <3>2 DEF PressesCounted
  <2>2. CASE kind = "single"
    <3>1. Len(clicks') + Pending' <= pressed
      <4>1. Len(clicks) + Pending <= pressed
        BY <1>1, <2>2 DEF PressesCounted
      <4>2. Len(clicks') = Len(clicks) \/ Len(clicks') = Len(clicks) + 1
        BY <1>7
      <4> QED BY <1>2, <1>4, <4>1, <4>2
    <3>2. clicks' # <<>> \/ (clicks' = clicks /\ marked' = marked)
      BY <1>6, <1>7, <1>10, <2>2
    <3> QED BY <1>1, <1>3, <2>2, <3>1, <3>2 DEF PressesCounted
  <2> QED BY <1>2, <1>5, <2>1, <2>2
<1>13. OneByOne'
  <2>1. SUFFICES ASSUME ~crowded PROVE OneByOne'
    BY <1>3 DEF OneByOne
  <2>2. Len(handlers) = 1 /\ handlers' = <<>> /\ Len(handlers') = 0
    BY <1>1, <1>2, <1>4, <2>1 DEF OneByOne
  <2>3. ASSUME kind = "single"
        PROVE  Marks' = Pending' /\ Len(clicks') + Pending' = pressed /\ (wait > 0 => marked' \subseteq held)
    <3>1. marked # {}
      BY <1>1, <1>2, <1>4, <2>1, <2>3 DEF OneByOne
    <3>2. Marks = Pending /\ Len(clicks) + Pending = pressed /\ (wait > 0 => marked \subseteq held)
      BY <1>1, <2>1, <2>3 DEF OneByOne
    <3>3. Len(clicks') = Len(clicks) + 1 /\ Marks' = Marks - 1
      BY <1>6, <1>7, <2>3, <3>1
    <3> QED BY <1>2, <1>3, <1>4, <3>2, <3>3
  <2>4. LongIsHeld'
    <3>1. SUFFICES ASSUME NEW i \in DOMAIN clicks', clicks'[i].long PROVE clicks'[i].lasting
      BY DEF LongIsHeld
    <3>2. CASE i \in DOMAIN clicks /\ clicks'[i] = clicks[i]
      BY <1>1, <2>1, <3>1, <3>2 DEF OneByOne, LongIsHeld
    <3>3. CASE Consumed # {} /\ i = Len(clicks) + 1
      <4>1. handlers = <<"ok">>
        BY <1>4, <1>7, <2>2, <3>1, <3>3
      <4>2. IF kind = "single" THEN \A b \in marked : heldFor[b] >= Press
                               ELSE \E b \in held : heldFor[b] >= Press
        BY <1>1, <2>1, <4>1 DEF OneByOne
      <4>3. \E b \in (IF kind = "single" THEN {} ELSE held) \cup Consumed : heldFor[b] >= Press
        BY <1>6, <3>3, <4>2
      <4> QED BY <1>7, <3>3, <4>3
    <3>4. CASE Consumed = {}
      BY <1>7, <3>1, <3>2, <3>4
    <3>5. CASE Consumed # {}
      <4>1. i \in 1..(Len(clicks) + 1) /\ DOMAIN clicks = 1..Len(clicks)
        BY <1>7, <3>1, <3>5
      <4>2. i \in DOMAIN clicks \/ i = Len(clicks) + 1
        BY <1>2, <4>1
      <4> QED BY <1>7, <3>2, <3>3, <3>5, <4>2
    <3> QED BY <3>4, <3>5
  <2> QED BY <1>3, <2>1, <2>2, <2>3, <2>4 DEF OneByOne
<1>14. SoloStory'
  <2>1. SUFFICES ASSUME pressed = 1 PROVE SoloClicked'
    BY <1>1, <1>3 DEF SoloStory
  <2>2. SoloWaits
    <3>1. ~SoloClicked
      BY <1>4 DEF SoloClicked
    <3> QED BY <1>1, <2>1, <3>1 DEF SoloStory
  <2>3. /\ Len(clicks) = 0 /\ marked = {last} /\ wait = 0
        /\ \/ handlers = <<"ok">> /\ heldFor[last] = Press
           \/ handlers = <<"aborted">> /\ last \notin held /\ heldFor[last] < Press
    BY <1>3, <1>5, <2>2 DEF SoloWaits
  <2>4. Consumed = {last} /\ marked' = {}
    BY <1>3, <1>6, <2>3
  <2>5. long = (heldFor[last] >= Press)
    <3>1. CASE handlers = <<"ok">> /\ heldFor[last] = Press
      BY <1>2, <3>1 DEF long
    <3>2. CASE handlers = <<"aborted">> /\ last \notin held /\ heldFor[last] < Press
      BY <1>2, <3>2 DEF long
    <3> QED BY <2>3, <3>1, <3>2
  <2>6. Pending' = 0
    <3>1. Pending = 1
      BY <2>3 DEF Pending
    <3> QED BY <1>4, <3>1
  <2>7. Len(clicks') = 1 /\ clicks'[1].what = {last} /\ clicks'[1].long = long
    BY <1>7, <2>3, <2>4
  <2>8. heldFor[last] < Press => last \notin held
    BY <1>2, <2>3
  <2> QED BY <1>3, <1>5, <2>4, <2>5, <2>6, <2>7, <2>8 DEF SoloClicked
<1> QED BY <1>8, <1>11, <1>12, <1>13, <1>14 DEF SwitchesIInv

(* Buttons are held for as long as the timer runs.                          *)
LEMMA SwTickIInv == SwitchesIInv /\ SwTick => SwitchesIInv'
<1> SUFFICES ASSUME SwitchesIInv, SwTick PROVE SwitchesIInv'
  OBVIOUS
<1>1. SwitchesTypeOK /\ MarksHaveHandlers /\ PressesCounted /\ OneByOne /\ SoloStory
  BY DEF SwitchesIInv
<1>2. /\ Press \in Nat \ {0} /\ Buttons \subseteq AllButtons
      /\ kind \in {"single", "duo", "simple"} /\ held \subseteq Buttons
      /\ heldFor \in [AllButtons -> 0..Press] /\ marked \subseteq Buttons
      /\ wait \in 0..Press /\ last \in AllButtons
      /\ Len(handlers) \in Nat /\ Pending \in Nat
  BY <1>1, SwitchTypes
<1>3. /\ frame = {} /\ handlers = <<>> /\ wait' = (IF wait > 0 THEN wait - 1 ELSE 0)
      /\ handlers' = (IF wait = 1 THEN <<"ok">> ELSE <<>>)
      /\ heldFor' = [b \in AllButtons |-> IF b \in held /\ heldFor[b] < Press
                                            THEN heldFor[b] + 1 ELSE heldFor[b]]
      /\ UNCHANGED <<kind, held, marked, frame, pressed, last, clicks, crowded>>
      /\ UNCHANGED <<owed, newest, stale>>
  BY DEF SwTick
<1>4. /\ wait' \in 0..Press /\ heldFor' \in [AllButtons -> 0..Press]
      /\ \A b \in held : heldFor'[b] >= heldFor[b]
                         /\ (heldFor[b] >= Press - wait /\ wait > 0 => heldFor'[b] >= Press - wait')
      /\ \A b \in AllButtons : /\ heldFor[b] = Press => heldFor'[b] = Press
                               /\ heldFor[b] >= Press => heldFor'[b] >= Press
                               /\ b \notin held => heldFor'[b] = heldFor[b]
  <2>1. wait' \in 0..Press
    BY <1>2, <1>3
  <2>2. ASSUME NEW b \in AllButtons
        PROVE  /\ heldFor[b] \in 0..Press /\ heldFor'[b] \in 0..Press
               /\ heldFor'[b] = IF b \in held /\ heldFor[b] < Press THEN heldFor[b] + 1 ELSE heldFor[b]
    BY <1>2, <1>3
  <2>3. heldFor' \in [AllButtons -> 0..Press]
    BY <1>2, <1>3, <2>2
  <2>4. ASSUME NEW b \in held
        PROVE  heldFor'[b] >= heldFor[b]
               /\ (heldFor[b] >= Press - wait /\ wait > 0 => heldFor'[b] >= Press - wait')
    <3>1. b \in AllButtons
      BY <1>2
    <3> QED BY <1>2, <1>3, <2>2, <3>1
  <2> QED BY <1>2, <2>1, <2>2, <2>3, <2>4
<1>5. Pending' = Pending /\ Marks' = Marks /\ AnyMark' = AnyMark
  <2>1. CASE wait = 0
    BY <1>3, <2>1 DEF Pending, Marks, AnyMark
  <2>2. CASE wait = 1
    BY <1>3, <2>2 DEF Pending, Marks, AnyMark
  <2>3. CASE wait > 1
    BY <1>2, <1>3, <2>3 DEF Pending, Marks, AnyMark
  <2> QED BY <1>2, <2>1, <2>2, <2>3
<1>6. SwitchesTypeOK'
  <2>1. Buttons' = Buttons
    BY <1>3 DEF Buttons
  <2>2. handlers' \in Seq(Completion)
    <3>1. <<"ok">> \in Seq(Completion) /\ <<>> \in Seq(Completion)
      BY DEF Completion
    <3> QED BY <1>3, <3>1
  <2> QED BY <1>1, <1>3, <1>4, <2>1, <2>2 DEF SwitchesTypeOK, Completion
<1>7. MarksHaveHandlers'
  <2>1. wait' > 0 => wait > 0
    BY <1>2, <1>3
  <2> QED BY <1>1, <1>3, <1>4, <1>5, <2>1 DEF MarksHaveHandlers
<1>8. PressesCounted'
  BY <1>1, <1>3, <1>5 DEF PressesCounted
<1>9. OneByOne'
  <2>1. SUFFICES ASSUME ~crowded PROVE OneByOne'
    BY <1>3 DEF OneByOne
  <2>2. Len(handlers') <= 1
    BY <1>3
  <2>3. ASSUME handlers' = <<"ok">>
        PROVE  IF kind = "single" THEN \A b \in marked : heldFor'[b] >= Press
                                  ELSE \E b \in held : heldFor'[b] >= Press
    <3>1. wait = 1 /\ wait' = 0
      BY <1>3, <2>3
    <3>2. \A b \in held : heldFor[b] >= Press - wait => heldFor'[b] >= Press
      BY <1>2, <1>4, <3>1
    <3>3. kind = "single" => marked \subseteq held /\ \A b \in held : heldFor[b] >= Press - wait
      BY <1>1, <2>1, <3>1 DEF OneByOne, MarksHaveHandlers
    <3>4. \E b \in held : heldFor[b] >= Press - wait
      BY <1>1, <3>1 DEF MarksHaveHandlers
    <3> QED BY <3>2, <3>3, <3>4
  <2>4. wait' > 0 => wait > 0
    BY <1>2, <1>3
  <2> QED BY <1>1, <1>3, <1>5, <2>1, <2>2, <2>3, <2>4 DEF OneByOne, LongIsHeld
<1>10. SoloStory'
  <2>1. SUFFICES ASSUME pressed = 1 PROVE SoloWaits' \/ SoloClicked'
    BY <1>1, <1>3 DEF SoloStory
  <2>2. CASE SoloWaits
    <3>1. CASE kind = "simple"
      BY <1>3, <2>2, <3>1 DEF SoloWaits
    <3>2. CASE kind # "simple"
      <4>1. wait > 0 /\ last \in held /\ heldFor[last] = Press - wait
        BY <1>3, <2>2, <3>2 DEF SoloWaits
      <4>2. heldFor'[last] = Press - wait' /\ wait' = wait - 1
        BY <1>2, <1>3, <4>1
      <4>3. CASE wait = 1
        <5>1. wait' = 0 /\ handlers' = <<"ok">> /\ heldFor'[last] = Press
          BY <1>2, <1>3, <4>2, <4>3
        <5> QED BY <1>3, <2>2, <3>2, <5>1 DEF SoloWaits
      <4>4. CASE wait # 1
        <5>1. wait' > 0 /\ handlers' = <<>>
          BY <1>2, <1>3, <4>1, <4>4
        <5> QED BY <1>3, <2>2, <3>2, <4>1, <4>2, <5>1 DEF SoloWaits
      <4> QED BY <4>3, <4>4
    <3> QED BY <3>1, <3>2
  <2>3. CASE SoloClicked
    <3>1. kind # "simple" => (heldFor'[last] >= Press <=> heldFor[last] >= Press)
                             /\ (heldFor'[last] < Press => last \notin held)
      <4>1. heldFor[last] \in 0..Press /\ heldFor'[last] \in 0..Press
        BY <1>2, <1>4
      <4>2. CASE heldFor[last] >= Press
        BY <1>2, <1>4, <4>1, <4>2
      <4>3. CASE heldFor[last] < Press
        BY <1>2, <1>4, <2>3, <4>1, <4>3 DEF SoloClicked
      <4> QED BY <1>2, <4>1, <4>2, <4>3
    <3> QED BY <1>3, <1>5, <2>3, <3>1 DEF SoloClicked
  <2> QED BY <1>1, <2>1, <2>2, <2>3 DEF SoloStory
<1> QED BY <1>6, <1>7, <1>8, <1>9, <1>10 DEF SwitchesIInv

(* A frame from rest begins an episode.                                     *)
LEMMA NodeFrameIInv ==
  ASSUME SwitchesIInv, NEW changes \in SUBSET Buttons, NodeFrame(changes)
  PROVE  SwitchesIInv'
<1>1. SwitchesTypeOK /\ MarksHaveHandlers /\ PressesCounted /\ OneByOne /\ SoloStory
  BY DEF SwitchesIInv
<1>2. /\ Press \in Nat \ {0} /\ kind \in {"single", "duo", "simple"} /\ wait \in 0..Press
      /\ pressed \in 0..MaxPresses /\ MaxPresses \in Nat /\ clicks \in Seq(Click)
      /\ marked \subseteq Buttons /\ crowded \in BOOLEAN /\ Len(handlers) \in Nat /\ Marks \in 0..2
      /\ kind = "single" => (Marks = 0 <=> marked = {})
  BY <1>1, SwitchTypes
<1>3. /\ frame = {} /\ changes # {} /\ frame' = changes
      /\ (IF AtRest THEN 0 ELSE pressed) + Cardinality(changes \ held) <= MaxPresses
      /\ pressed' = (IF AtRest THEN 0 ELSE pressed) /\ clicks' = (IF AtRest THEN <<>> ELSE clicks)
      /\ crowded' = ((~AtRest /\ crowded) \/ handlers # <<>> \/ Cardinality(changes) > 1)
      /\ UNCHANGED <<kind, held, heldFor, marked, wait, handlers, last, owed>>
      /\ newest' = (IF AtRest THEN {} ELSE newest) /\ stale' = (~AtRest /\ stale)
  BY DEF NodeFrame
<1>4. Pending' = Pending /\ Marks' = Marks /\ AnyMark' = AnyMark
  BY <1>3 DEF Pending, Marks, AnyMark
<1>5. ASSUME AtRest PROVE held = {} /\ handlers = <<>> /\ wait = 0 /\ Pending = 0 /\ marked = {}
  <2>1. held = {} /\ handlers = <<>>
    BY <1>5 DEF AtRest
  <2>2. wait = 0
    BY <1>1, <1>2, <2>1 DEF MarksHaveHandlers
  <2>3. Pending = 0
    BY <2>1, <2>2 DEF Pending
  <2>4. marked = {}
    BY <1>1, <1>2, <2>1, <2>3 DEF MarksHaveHandlers, AnyMark
  <2> QED BY <2>1, <2>2, <2>3, <2>4
<1>6. SwitchesTypeOK'
  <2>1. Buttons' = Buttons /\ pressed' \in 0..MaxPresses /\ crowded' \in BOOLEAN
    BY <1>2, <1>3 DEF Buttons
  <2>2. clicks' \in Seq(Click)
    BY <1>2, <1>3
  <2>3. owed' \subseteq Buttons /\ newest' \subseteq Buttons /\ stale' \in BOOLEAN
    BY <1>1, <1>3, <2>1 DEF SwitchesTypeOK
  <2> QED BY <1>1, <1>3, <2>1, <2>2, <2>3 DEF SwitchesTypeOK, Click
<1>7. MarksHaveHandlers'
  BY <1>1, <1>3, <1>4 DEF MarksHaveHandlers
<1>8. PressesCounted'
  <2>1. pressed' + Cardinality(frame' \ held') <= MaxPresses
    BY <1>3
  <2>2. CASE AtRest
    <3>1. Len(clicks') = 0 /\ pressed' = 0 /\ AnyMark' = 0 /\ Pending' = 0 /\ held' = {}
      BY <1>3, <1>4, <1>5, <2>2 DEF AnyMark
    <3> QED BY <2>1, <3>1 DEF PressesCounted
  <2>3. CASE ~AtRest
    BY <1>1, <1>3, <1>4, <2>1, <2>3 DEF PressesCounted
  <2> QED BY <2>2, <2>3
<1>9. OneByOne'
  <2>1. SUFFICES ASSUME ~crowded' PROVE OneByOne'
    BY DEF OneByOne
  <2>2. handlers = <<>> /\ handlers' = <<>> /\ Len(handlers') = 0
    BY <1>3, <2>1
  <2>3. \E b \in Buttons : frame' = {b}
    <3>1. IsFiniteSet(changes) /\ Cardinality(changes) \in Nat
      BY <1>1, ChangesFinite
    <3>2. Cardinality(changes) # 0
      BY <1>3, <3>1, FS_EmptySet
    <3>3. Cardinality(changes) = 1
      <4>1. ~(Cardinality(changes) > 1)
        BY <1>3, <2>1, Zenon
      <4> QED BY <3>1, <3>2, <4>1
    <3>4. \E b \in changes : changes = {b}
      BY <3>1, <3>3, FS_Singleton
    <3> QED BY <1>3, <3>4
  <2>4. Buttons' = Buttons
    BY <1>3 DEF Buttons
  <2>5. CASE AtRest
    <3>1. /\ Len(clicks') = 0 /\ pressed' = 0 /\ Pending' = 0 /\ Marks' = 0 /\ wait' = 0
          /\ DOMAIN clicks' = {}
      BY <1>3, <1>4, <1>5, <2>5 DEF Marks
    <3> QED BY <2>2, <2>3, <2>4, <3>1 DEF OneByOne, LongIsHeld
  <2>6. CASE ~AtRest
    <3>1. ~crowded
      BY <1>2, <1>3, <2>1, <2>6
    <3> QED BY <1>1, <1>3, <1>4, <2>2, <2>3, <2>4, <2>6, <3>1 DEF OneByOne, LongIsHeld
  <2> QED BY <2>5, <2>6
<1>10. SoloStory'
  BY <1>1, <1>3, <1>4 DEF SoloStory, SoloWaits, SoloClicked
<1> QED BY <1>6, <1>7, <1>8, <1>9, <1>10 DEF SwitchesIInv

(* At first the switch is at rest.                                          *)
LEMMA SwitchesInitIInv == SwitchesInit => SwitchesIInv
<1> SUFFICES ASSUME SwitchesInit PROVE SwitchesIInv
  OBVIOUS
<1> USE SwitchesAssumption
<1>1. /\ kind \in {"single", "duo", "simple"} /\ held = {} /\ heldFor = [b \in AllButtons |-> 0]
      /\ marked = {} /\ wait = 0 /\ handlers = <<>> /\ frame = {}
      /\ pressed = 0 /\ last = "LU" /\ clicks = <<>> /\ crowded = FALSE
      /\ owed = {} /\ newest = {} /\ stale = FALSE
  BY DEF SwitchesInit
<1>2. SwitchesTypeOK
  <2>1. heldFor \in [AllButtons -> 0..Press] /\ wait \in 0..Press /\ pressed \in 0..MaxPresses
    BY <1>1
  <2>2. handlers \in Seq({"ok", "aborted"}) /\ clicks \in Seq([what : SUBSET Buttons, long : BOOLEAN, lasting : BOOLEAN])
    BY <1>1
  <2> QED BY <1>1, <2>1, <2>2 DEF SwitchesTypeOK
<1>3. Pending = 0 /\ Marks = 0 /\ AnyMark = 0 /\ Len(clicks) = 0 /\ Len(handlers) = 0
  BY <1>1 DEF Pending, Marks, AnyMark
<1>4. Cardinality(frame \ held) = 0
  <2>1. frame \ held = {}
    BY <1>1
  <2> QED BY <2>1, FS_EmptySet
<1>5. MarksHaveHandlers /\ PressesCounted /\ OneByOne /\ SoloStory
  BY <1>1, <1>3, <1>4 DEF MarksHaveHandlers, PressesCounted, OneByOne, SoloStory, LongIsHeld
<1> QED BY <1>2, <1>5 DEF SwitchesIInv

(* Every step keeps the invariant.                                          *)
LEMMA SwitchesNextIInv == SwitchesIInv /\ [SwitchesNext]_swVars => SwitchesIInv'
<1> SUFFICES ASSUME SwitchesIInv, [SwitchesNext]_swVars PROVE SwitchesIInv'
  OBVIOUS
<1>1. ASSUME NEW changes \in SUBSET Buttons, NodeFrame(changes) PROVE SwitchesIInv'
  BY <1>1, NodeFrameIInv
<1>2. ASSUME NEW b \in Buttons, Change(b) PROVE SwitchesIInv'
  <2>1. b \in frame /\ frame' = frame \ {b} /\ UNCHANGED <<kind, crowded>>
    BY <1>2 DEF Change
  <2>2. CASE b \in held
    <3>1. Released(b) /\ held' = held \ {b} /\ UNCHANGED <<heldFor, pressed, last>>
      BY <1>2, <2>2 DEF Change
    <3> QED BY <2>1, <2>2, <3>1, ReleaseIInv
  <2>3. CASE b \notin held
    <3>1. Pressed(b)
      BY <1>2, <2>3 DEF Change
    <3> QED BY <2>1, <2>3, <3>1, PressIInv
  <2> QED BY <2>2, <2>3
<1>3. CASE UNCHANGED swVars
  BY <1>3 DEF swVars, SwitchesIInv, SwitchesTypeOK, MarksHaveHandlers, PressesCounted, OneByOne,
              SoloStory, SoloWaits, SoloClicked, Pending, Marks, AnyMark, Buttons, LongIsHeld
<1> QED BY <1>1, <1>2, <1>3, OnTimerIInv, SwTickIInv DEF SwitchesNext

(* At rest no timer runs and no mark is left.                               *)
LEMMA NothingLeft ==
  ASSUME SwitchesIInv, AtRest
  PROVE  handlers = <<>> /\ held = {} /\ wait = 0 /\ Pending = 0 /\ marked = {}
<1>1. SwitchesTypeOK /\ MarksHaveHandlers
  BY DEF SwitchesIInv
<1>2. /\ kind \in {"single", "duo", "simple"} /\ wait \in 0..Press /\ Press \in Nat
      /\ kind = "single" => (Marks = 0 <=> marked = {})
      /\ Marks \in 0..2
  BY <1>1, SwitchTypes
<1>3. held = {} /\ handlers = <<>>
  BY DEF AtRest
<1>4. wait = 0
  BY <1>1, <1>2, <1>3 DEF MarksHaveHandlers
<1>5. Pending = 0
  BY <1>3, <1>4 DEF Pending
<1>6. marked = {}
  BY <1>1, <1>2, <1>3, <1>5 DEF MarksHaveHandlers, AnyMark
<1> QED BY <1>3, <1>4, <1>5, <1>6

(* Every step keeps the presses answered or marked.                         *)
LEMMA PressesAnsweredKept ==
  ASSUME SwitchesIInv, PressesAnswered, [SwitchesNext]_swVars
  PROVE  PressesAnswered'
<1>1. SwitchesTypeOK /\ MarksHaveHandlers
  BY DEF SwitchesIInv
<1>2. /\ Buttons \subseteq AllButtons /\ marked \subseteq Buttons /\ owed \subseteq Buttons
      /\ kind \in {"single", "duo", "simple"}
  BY <1>1, SwitchTypes DEF SwitchesTypeOK
<1>3. ASSUME NEW changes \in SUBSET Buttons, NodeFrame(changes) PROVE PressesAnswered'
  <2>1. AtRest => marked = {}
    BY NothingLeft
  <2>2. /\ UNCHANGED <<kind, marked, owed>>
        /\ newest' = (IF AtRest THEN {} ELSE newest) /\ stale' = (~AtRest /\ stale)
    BY <1>3 DEF NodeFrame
  <2> QED BY <2>1, <2>2 DEF PressesAnswered, Side
<1>4. ASSUME NEW b \in Buttons, Pressed(b), kind' = kind PROVE PressesAnswered'
  <2>1. /\ marked' = IF kind = "single" THEN marked \cup {b} ELSE (marked \ Side(b)) \cup {b}
        /\ owed' = owed \cup {b} /\ newest' = (newest \ Side(b)) \cup {b} /\ stale' = stale
    BY <1>4 DEF Pressed, Marked
  <2>2. CASE kind = "single"
    BY <1>4, <2>1, <2>2 DEF PressesAnswered
  <2>3. CASE kind # "single"
    <3>1. marked' \subseteq newest' /\ ~stale'
      BY <2>1, <2>3 DEF PressesAnswered
    <3>2. ASSUME NEW c \in owed' PROVE Side(c) \cap marked' # {}
      <4>1. b \in Side(b) /\ b \in marked'
        BY <1>2, <2>1 DEF Side
      <4>2. CASE Side(c) = Side(b)
        BY <4>1, <4>2
      <4>3. CASE Side(c) # Side(b)
        <5>1. c \in owed /\ Side(c) \cap Side(b) = {}
          BY <2>1, <3>2, <4>3 DEF Side
        <5>2. Side(c) \cap marked # {}
          BY <2>3, <5>1 DEF PressesAnswered
        <5> QED BY <2>1, <2>3, <5>1, <5>2
      <4> QED BY <4>2, <4>3
    <3>3. \A c \in owed' : Side(c)' \cap marked' # {}
      BY <3>2 DEF Side
    <3> QED BY <1>4, <2>3, <3>1, <3>3 DEF PressesAnswered
  <2> QED BY <2>2, <2>3
<1>5. ASSUME NEW what, NEW long, Raise(what, long), what \subseteq marked, marked' = marked \ what,
             kind # "single" => what = marked, kind' = kind
      PROVE  PressesAnswered'
  <2>1. /\ owed' = {b \in owed : ~Answers(what, b)} /\ newest' = newest
        /\ stale' = (stale \/ (kind # "single" /\ ~(what \subseteq newest)))
    BY <1>5 DEF Raise
  <2>2. CASE kind = "single"
    BY <1>5, <2>1, <2>2 DEF PressesAnswered, Answers
  <2>3. CASE kind # "single"
    <3>1. owed' = {} /\ marked' = {}
      BY <1>5, <2>1, <2>3 DEF PressesAnswered, Answers
    <3>2. ~stale'
      BY <1>5, <2>1, <2>3 DEF PressesAnswered
    <3> QED BY <1>5, <2>3, <3>1, <3>2 DEF PressesAnswered
  <2> QED BY <2>2, <2>3
<1>6. ASSUME NEW b \in Buttons, Change(b) PROVE PressesAnswered'
  <2>1. kind' = kind
    BY <1>6 DEF Change
  <2>2. CASE b \notin held
    BY <1>4, <1>6, <2>1, <2>2 DEF Change
  <2>3. CASE b \in held /\ kind = "simple"
    <3>1. Raise(marked, FALSE) /\ marked' = marked \ marked
      BY <1>6, <2>3 DEF Change, Released
    <3> QED BY <1>5, <2>1, <3>1
  <2>4. CASE b \in held /\ kind # "simple"
    <3>1. UNCHANGED <<marked, owed, newest, stale>>
      BY <1>6, <2>4 DEF Change, Released
    <3> QED BY <2>1, <3>1 DEF PressesAnswered, Side
  <2> QED BY <2>2, <2>3, <2>4
<1>7. CASE OnTimer
  <2>1. Raise(Consumed, Head(handlers) = "ok") /\ marked' = marked \ Consumed /\ kind' = kind
    BY <1>7 DEF OnTimer
  <2>2. Consumed \subseteq marked /\ (kind # "single" => Consumed = marked)
    <3>1. CASE kind # "single"
      BY <3>1 DEF Consumed
    <3>2. CASE marked = {}
      BY <3>2 DEF Consumed
    <3>3. CASE kind = "single" /\ marked # {}
      <4>1. \E c \in marked : "LU" \in marked => c = "LU"
        BY <3>3
      <4> QED BY <3>3, <4>1 DEF Consumed
    <3> QED BY <3>1, <3>2, <3>3
  <2> HIDE DEF Consumed
  <2> QED BY <1>5, <2>1, <2>2
<1>8. CASE SwTick \/ UNCHANGED swVars
  <2>1. UNCHANGED <<kind, marked, owed, newest, stale>>
    BY <1>8 DEF SwTick, swVars
  <2> QED BY <2>1 DEF PressesAnswered, Side
<1> QED BY <1>3, <1>6, <1>7, <1>8 DEF SwitchesNext

(* At rest every press has been answered, a lone one as itself, and no long *)
(* click was of a button let go early: for any buttons, time and number of  *)
(* presses.                                                                 *)
LEMMA SwitchesClickRight == SwitchesIInv /\ PressesAnswered => ClicksRight
<1> SUFFICES ASSUME SwitchesIInv, PressesAnswered PROVE ClicksRight
  OBVIOUS
<1>1. SwitchesTypeOK /\ MarksHaveHandlers /\ PressesCounted /\ OneByOne /\ SoloStory
  BY DEF SwitchesIInv
<1>2. /\ kind \in {"single", "duo", "simple"}
      /\ pressed \in 0..MaxPresses /\ MaxPresses \in Nat /\ clicks \in Seq(Click)
      /\ Len(clicks) \in Nat
  BY <1>1, SwitchTypes
<1>3. ASSUME AtRest PROVE handlers = <<>> /\ held = {} /\ wait = 0 /\ Pending = 0 /\ marked = {}
  BY <1>3, NothingLeft
<1>4. PressesClick
  <2>1. SUFFICES ASSUME AtRest PROVE PressesClick
    BY DEF PressesClick
  <2>2. Len(clicks) <= pressed
    BY <1>1, <1>2, <1>3, <2>1 DEF PressesCounted, AnyMark
  <2>3. pressed > 0 => Len(clicks) # 0
    <3>1. pressed > 0 => clicks # <<>>
      BY <1>1, <1>3, <2>1 DEF PressesCounted
    <3> QED BY <1>2, <3>1
  <2>4. kind = "single" /\ ~crowded => Len(clicks) = pressed
    BY <1>1, <1>2, <1>3, <2>1 DEF OneByOne
  <2>5. pressed > 0 => Len(clicks) \in 1..pressed
    BY <1>2, <2>2, <2>3
  <2>6. owed = {}
    BY <1>3, <2>1 DEF PressesAnswered
  <2>7. ~stale
    BY DEF PressesAnswered
  <2> QED BY <1>3, <2>1, <2>4, <2>5, <2>6, <2>7 DEF PressesClick
<1>5. SoloPress
  <2>1. SUFFICES ASSUME AtRest, pressed = 1 PROVE SoloClicked
    BY DEF SoloPress, SoloClicked
  <2>2. ~SoloWaits
    BY <1>3, <2>1 DEF SoloWaits
  <2> QED BY <1>1, <2>1, <2>2 DEF SoloStory
<1>6. LongIsHeld
  BY <1>1 DEF OneByOne, LongIsHeld
<1> QED BY <1>4, <1>5, <1>6 DEF ClicksRight

(* The inductive invariant of a switch, its timer and its handlers.         *)
THEOREM SwitchesInvariance == SwitchesSpec => []SwitchesIInv
<1> QED BY SwitchesInitIInv, SwitchesNextIInv, PTL DEF SwitchesSpec

(* Well-typedness for any buttons and time.                                 *)
THEOREM SwitchesTypeCorrect == SwitchesSpec => []SwitchesTypeOK
<1>1. SwitchesIInv => SwitchesTypeOK
  BY DEF SwitchesIInv
<1> QED BY <1>1, SwitchesInvariance, PTL

(* However changes share frames and overtake the timer's handlers: every    *)
(* press is answered by a click of its button, on a double switch of that   *)
(* button or the one of its side pressed since; a lone one is a click of    *)
(* its length, and no long click is of a button let go early (pressed,      *)
(* onTimer).                                                                *)
THEOREM SwitchesClick == SwitchesSpec => []ClicksRight
<1>1. SwitchesInit => PressesAnswered
  BY DEF SwitchesInit, PressesAnswered
<1>2. SwitchesIInv /\ PressesAnswered /\ [SwitchesNext]_swVars => PressesAnswered'
  BY PressesAnsweredKept
<1> QED BY <1>1, <1>2, SwitchesInvariance, SwitchesClickRight, PTL DEF SwitchesSpec

-----------------------------------------------------------------------------
(* The dimmable lights (Dimmer).                                            *)

(* Subscribers have a timer, and who has not arrived is one of them.        *)
Ticking == subscribed # {} => pending \/ completions > 0
OnTheWay == \A l \in Lights : cur[l] # target[l] => l \in subscribed

(* The brightness asked for last is the target or remembered.               *)
Remembers == \A l \in Lights : lastOn[l] = IF target[l] > 0 THEN target[l] ELSE lastTargetOn[l]

DimmerIInv == DimmerTypeOK /\ Ticking /\ OnTheWay /\ Remembers
-----------------------------------------------------------------------------
(* What a light can be asked for is a brightness, and off is one of them.   *)
LEMMA ValuesAreNat == Values \subseteq Nat /\ 0 \in Values
BY DimmerAssumption DEF Values

(* A step stays at or above zero, ...                                       *)
LEMMA AdjustedIsNat ==
  ASSUME DimmerTypeOK, NEW l \in Lights, NEW t \in Nat
  PROVE  Adjusted(l, t) \in Nat
<1> cur[l] \in Nat /\ adjStep[l] \in Nat \ {0}
  BY DimmerAssumption DEF DimmerTypeOK
<1> QED BY DEF Adjusted

(* ... and a light that is where it is to be stays there.                   *)
LEMMA AdjustedStays ==
  ASSUME DimmerTypeOK, NEW l \in Lights, NEW t \in Nat, cur[l] = t
  PROVE  Adjusted(l, t) = t
<1> cur[l] \in Nat /\ adjStep[l] \in Nat \ {0}
  BY DimmerAssumption DEF DimmerTypeOK
<1> QED BY DEF Adjusted

(* At first all lights are off.                                             *)
LEMMA DimmerInitIInv == DimmerInit => DimmerIInv
<1> SUFFICES ASSUME DimmerInit PROVE DimmerIInv
  OBVIOUS
<1>1. FirstOn \in Values \ {0} /\ 0 \in Values /\ MaxQueued \in Nat
  BY DimmerAssumption DEF Values
<1>2. DimmerTypeOK
  <2>1. cur \in [Lights -> Nat] /\ target \in [Lights -> Values]
    BY <1>1 DEF DimmerInit
  <2>2. lastTargetOn \in [Lights -> Values \ {0}] /\ lastOn \in [Lights -> Values \ {0}]
    BY <1>1 DEF DimmerInit
  <2>3. completions \in 0..MaxQueued
    BY <1>1 DEF DimmerInit
  <2> QED BY <2>1, <2>2, <2>3 DEF DimmerInit, DimmerTypeOK
<1>3. Ticking /\ OnTheWay /\ Remembers
  BY DEF DimmerInit, Ticking, OnTheWay, Remembers
<1> QED BY <1>2, <1>3 DEF DimmerIInv
-----------------------------------------------------------------------------
(* setTarget: a light that does not arrive at once subscribes, unless it    *)
(* has before, and the first subscriber starts the timer.                   *)
LEMMA SetTargetSteps ==
  ASSUME DimmerIInv, NEW l \in Lights, NEW t \in Values, SetTarget(l, t)
  PROVE  DimmerIInv'
<1> USE DEF DimmerIInv
<1>1. t \in Nat /\ Values \subseteq Nat /\ cur[l] \in Nat /\ completions \in 0..MaxQueued /\ MaxQueued \in Nat
  BY ValuesAreNat, DimmerAssumption DEF DimmerTypeOK
<1>2. /\ target' = [target EXCEPT ![l] = t]
      /\ lastTargetOn' = [lastTargetOn EXCEPT ![l] = Remembered(l)]
      /\ cur' = [cur EXCEPT ![l] = Adjusted(l, t)]
      /\ subscribed' = (subscribed \ {x \in {l} : Finishes(l, t)}) \cup {x \in {l} : Subscribes(l, t)}
      /\ lastOn' = IF t > 0 THEN [lastOn EXCEPT ![l] = t] ELSE lastOn
      /\ adjStep' = adjStep /\ completions < MaxQueued /\ t # target[l]
  BY DEF SetTarget
<1>3. Adjusted(l, t) \in Nat
  BY <1>1, AdjustedIsNat
<1>4. Remembered(l) \in Values \ {0}
  BY <1>1 DEF Remembered, DimmerTypeOK
<1>5. pending' \in BOOLEAN /\ completions' \in 0..MaxQueued
  <2>1. \/ pending' = TRUE /\ completions' \in {completions, completions + 1}
        \/ UNCHANGED <<pending, completions>>
    BY DEF SetTarget, Schedule
  <2>2. pending' \in BOOLEAN
    BY <2>1 DEF DimmerTypeOK
  <2>3. completions' \in 0..MaxQueued
    BY <1>1, <1>2, <2>1
  <2> QED BY <2>2, <2>3
<1>6. lastOn' \in [Lights -> Values \ {0}]
  BY <1>1, <1>2 DEF DimmerTypeOK
<1>7. DimmerTypeOK'
  <2>1. cur' \in [Lights -> Nat] /\ target' \in [Lights -> Values]
    BY <1>2, <1>3 DEF DimmerTypeOK
  <2>2. lastTargetOn' \in [Lights -> Values \ {0}] /\ adjStep' \in [Lights -> Steps]
    BY <1>2, <1>4 DEF DimmerTypeOK
  <2>3. subscribed' \subseteq Lights
    BY <1>2 DEF DimmerTypeOK
  <2> QED BY <1>5, <1>6, <2>1, <2>2, <2>3 DEF DimmerTypeOK
<1>8. Ticking'
  <2>1. CASE Subscribes(l, t) /\ subscribed = {}
    BY <2>1 DEF SetTarget, Schedule, Ticking
  <2>2. CASE ~(Subscribes(l, t) /\ subscribed = {})
    <3>1. UNCHANGED <<pending, completions>>
      BY <2>2 DEF SetTarget
    <3>2. subscribed' # {} => subscribed # {}
      BY <1>2, <2>2
    <3> QED BY <3>1, <3>2 DEF Ticking
  <2> QED BY <2>1, <2>2
<1>9. ASSUME NEW x \in Lights, cur'[x] # target'[x] PROVE x \in subscribed'
  <2>1. CASE x = l
    <3>1. Adjusted(l, t) # t
      BY <1>2, <1>9, <2>1 DEF DimmerTypeOK
    <3>2. ~Finishes(l, t) /\ (l \in subscribed \/ Subscribes(l, t))
      BY <3>1 DEF Finishes, Subscribes
    <3> QED BY <1>2, <2>1, <3>2
  <2>2. CASE x # l
    <3>1. cur[x] # target[x]
      BY <1>2, <1>9, <2>2 DEF DimmerTypeOK
    <3> QED BY <1>2, <2>2, <3>1 DEF OnTheWay
  <2> QED BY <2>1, <2>2
<1>10. ASSUME NEW x \in Lights
       PROVE  lastOn'[x] = IF target'[x] > 0 THEN target'[x] ELSE lastTargetOn'[x]
  <2>1. CASE x = l
    <3>1. target'[l] = t /\ lastTargetOn'[l] = Remembered(l) /\ lastOn'[l] = IF t > 0 THEN t ELSE lastOn[l]
      BY <1>2 DEF DimmerTypeOK
    <3>2. lastOn[l] = Remembered(l)
      BY DEF Remembers, Remembered
    <3> QED BY <1>1, <2>1, <3>1, <3>2
  <2>2. CASE x # l
    <3>1. target'[x] = target[x] /\ lastTargetOn'[x] = lastTargetOn[x] /\ lastOn'[x] = lastOn[x]
      BY <1>2, <2>2 DEF DimmerTypeOK
    <3> QED BY <3>1 DEF Remembers
  <2> QED BY <2>1, <2>2
<1> QED BY <1>7, <1>8, <1>9, <1>10 DEF OnTheWay, Remembers

(* A command is one or several targets, or all lights off.                  *)
LEMMA DimCommandSteps == DimmerIInv /\ DimCommand => DimmerIInv'
<1> SUFFICES ASSUME DimmerIInv, NEW l \in Lights,
                    \/ \E t \in Targets : SetTarget(l, t)
                    \/ \E on \in BOOLEAN : Switch(l, on)
                    \/ \E s \in Steps : SetRamp(l, s)
             PROVE  DimmerIInv'
  BY DEF DimCommand
<1>1. CASE \E t \in Targets : SetTarget(l, t)
  BY <1>1, SetTargetSteps DEF Values
<1>2. CASE \E on \in BOOLEAN : Switch(l, on)
  <2>1. lastTargetOn[l] \in Values /\ 0 \in Values
    BY ValuesAreNat DEF DimmerIInv, DimmerTypeOK
  <2> QED BY <1>2, <2>1, SetTargetSteps DEF Switch
<1>3. CASE \E s \in Steps : SetRamp(l, s)
  BY <1>3 DEF SetRamp, DimmerIInv, DimmerTypeOK, Ticking, OnTheWay, Remembers
<1> QED BY <1>1, <1>2, <1>3
-----------------------------------------------------------------------------
(* The wait is over: its handler is to run.                                 *)
LEMMA FireSteps == DimmerIInv /\ Fire => DimmerIInv'
<1> SUFFICES ASSUME DimmerIInv, Fire PROVE DimmerIInv'
  OBVIOUS
<1>1. MaxQueued \in Nat \ {0}
  BY DimmerAssumption
<1>2. DimmerTypeOK'
  <2>1. completions' \in 0..MaxQueued
    BY <1>1 DEF Fire
  <2>2. pending' \in BOOLEAN
    BY DEF Fire
  <2> QED BY <2>1, <2>2 DEF DimmerIInv, Fire, DimmerTypeOK
<1> QED BY <1>2 DEF DimmerIInv, Fire, Ticking, OnTheWay, Remembers

(* The handler: who has not arrived after its step is still subscribed,     *)
(* and for them the timer runs again.                                       *)
LEMMA OnDimTimerSteps == DimmerIInv /\ OnDimTimer => DimmerIInv'
<1> SUFFICES ASSUME DimmerIInv, OnDimTimer PROVE DimmerIInv'
  OBVIOUS
<1> USE DEF DimmerIInv
<1>1. /\ cur' = [l \in Lights |-> IF l \in subscribed THEN Adjusted(l, target[l]) ELSE cur[l]]
      /\ subscribed' = {l \in subscribed : ~Finishes(l, target[l])}
      /\ UNCHANGED <<target, lastTargetOn, adjStep, lastOn>>
      /\ completions > 0 /\ completions \in 0..MaxQueued /\ MaxQueued \in Nat
  BY DimmerAssumption DEF OnDimTimer, DimmerTypeOK
<1>2. \A l \in Lights : target[l] \in Nat /\ cur[l] \in Nat
  BY ValuesAreNat DEF DimmerTypeOK
<1>3. pending' \in BOOLEAN /\ completions' \in 0..MaxQueued
  <2>1. \/ pending' = TRUE /\ completions' \in {completions - 1, completions - 1 + 1}
        \/ UNCHANGED pending /\ completions' = completions - 1
    BY DEF OnDimTimer, Schedule
  <2>2. pending' \in BOOLEAN
    BY <2>1 DEF DimmerTypeOK
  <2>3. completions' \in 0..MaxQueued
    BY <1>1, <2>1
  <2> QED BY <2>2, <2>3
<1>4. DimmerTypeOK'
  <2>1. cur' \in [Lights -> Nat]
    BY <1>1, <1>2, AdjustedIsNat
  <2>2. subscribed' \subseteq Lights
    BY <1>1 DEF DimmerTypeOK
  <2> QED BY <1>1, <1>3, <2>1, <2>2 DEF DimmerTypeOK
<1>5. Ticking'
  BY <1>1 DEF OnDimTimer, Schedule, Ticking
<1>6. ASSUME NEW l \in Lights, cur'[l] # target'[l] PROVE l \in subscribed'
  <2>1. l \in subscribed
    BY <1>1, <1>6 DEF OnTheWay
  <2>2. Adjusted(l, target[l]) # target[l]
    BY <1>1, <1>6, <2>1
  <2> QED BY <1>1, <2>1, <2>2 DEF Finishes
<1>7. Remembers'
  BY <1>1 DEF Remembers
<1> QED BY <1>4, <1>5, <1>6, <1>7 DEF OnTheWay

(* Every step, by the three lemmas above.                                   *)
LEMMA DimmerNextIInv == DimmerIInv /\ [DimmerNext]_dimVars => DimmerIInv'
<1> SUFFICES ASSUME DimmerIInv, [DimmerNext]_dimVars PROVE DimmerIInv'
  OBVIOUS
<1>1. CASE UNCHANGED dimVars
  BY <1>1 DEF DimmerIInv, DimmerTypeOK, Ticking, OnTheWay, Remembers, dimVars
<1> QED BY <1>1, DimCommandSteps, FireSteps, OnDimTimerSteps DEF DimmerNext, DimmerStep

(* The inductive invariant of lights and timer.                             *)
THEOREM DimmerInvariance == DimmerSpec => []DimmerIInv
<1> QED BY DimmerInitIInv, DimmerNextIInv, PTL DEF DimmerSpec
-----------------------------------------------------------------------------
(* What is to be shown of ramps and of remembered brightness.               *)
LEMMA RampsAreKept == DimmerIInv => LightsRight
<1> SUFFICES ASSUME DimmerIInv PROVE LightsRight
  OBVIOUS
<1>1. RampGoesOn
  BY DEF DimmerIInv, Ticking, OnTheWay, RampGoesOn
<1>2. RestoresBrightness
  BY DEF DimmerIInv, Remembers, RestoresBrightness
<1> QED BY <1>1, <1>2 DEF LightsRight

(* Well-typedness for any lights; in particular no brightness is negative.  *)
THEOREM DimmerTypeCorrect == DimmerSpec => []DimmerTypeOK
<1> QED BY DimmerInvariance, PTL DEF DimmerIInv

(* However commands, switches and the timer's cut and expired waits         *)
(* alternate, a light short of its target is subscribed to a running timer, *)
(* and one that is off keeps the brightness asked for last (setTarget,      *)
(* adjust, schedul).                                                        *)
THEOREM LightsArriveAndRemember == DimmerSpec => []LightsRight
<1> QED BY DimmerInvariance, RampsAreKept, PTL

-----------------------------------------------------------------------------
(* The MQTT connection (MqttClient).                                        *)

AtWork == {"want", "flag", "wait"}

(* The flag is held by one of four: a wait to write, an aborted one, or a   *)
(* thread that has just set it.                                             *)
FlagHeld ==
  /\ mqFlag <=> wPending \/ wAborted \/ ioAt = "wait" \/ pubAt = "wait"
  /\ wPending => ~wAborted
  /\ ioAt = "wait" => ~wPending /\ ~wAborted
  /\ pubAt = "wait" => ~wPending /\ ~wAborted /\ ioAt # "wait"

(* The object goes with mosquitto's socket, except within the io thread's   *)
(* on_disconnect; the io thread has it wherever it uses it, the other       *)
(* thread unless it was dropped under it.                                   *)
ObjectKept ==
  /\ ioAt = "null" => mqSock = "none"
  /\ ioAt # "null" => (mqObj <=> mqSock # "none")
  /\ rPending \/ wPending \/ ioAt \in AtWork \cup {"read", "write"} => mqObj
  /\ pubAt # "idle" /\ ~mqObj => mqOverlap

(* A connection that is open got so by a write, so none is aborted, and     *)
(* somebody sees to its packets.                                            *)
PacketsSeenTo ==
  /\ ioAt = "write" => ~wAborted
  /\ mqSock = "open" => ~wAborted
  /\ mqSock = "open" /\ packets > 0 => \/ wPending \/ pubAt \in AtWork
                                       \/ ioAt \in AtWork \cup {"read", "write"}

MqttClientIInv ==
  /\ MqttClientTypeOK
  /\ died => mqOverlap /\ mqSock = "none"
  /\ ~died => FlagHeld /\ ObjectKept /\ PacketsSeenTo
-----------------------------------------------------------------------------
(* At first there is no connection, and nobody at work.                     *)
LEMMA MqttClientInitIInv == MqttClientInit => MqttClientIInv
<1> SUFFICES ASSUME MqttClientInit PROVE MqttClientIInv
  OBVIOUS
<1>1. packets \in 0..MaxPackets /\ countdown \in 0..Countdown
  BY MqttClientAssumption DEF MqttClientInit
<1>2. MqttClientTypeOK
  BY <1>1 DEF MqttClientInit, MqttClientTypeOK, SchedAt
<1>3. FlagHeld /\ ObjectKept /\ PacketsSeenTo
  BY DEF MqttClientInit, FlagHeld, ObjectKept, PacketsSeenTo, AtWork
<1> QED BY <1>2, <1>3 DEF MqttClientInit, MqttClientIInv
-----------------------------------------------------------------------------
(* A publish of the other thread, and its steps through                     *)
(* sched_write_mqtt_socket: it may find the object gone.                    *)
LEMMA PublisherSteps == MqttClientIInv /\ ~died /\ Publisher => MqttClientIInv'
<1> SUFFICES ASSUME MqttClientIInv, ~died, Publisher PROVE MqttClientIInv'
  OBVIOUS
<1> USE DEF UnchangedLink, sched, SchedAt, AtWork
<1>1. CASE pubAt = "idle" /\ Queue /\ pubAt' = "want" /\ UNCHANGED <<ioAt, sched, died>> /\ UnchangedLink
  <2>1. packets' \in 0..MaxPackets
    BY <1>1, MqttClientAssumption DEF Queue, MqttClientIInv, MqttClientTypeOK
  <2>2. MqttClientTypeOK'
    BY <1>1, <2>1 DEF MqttClientIInv, MqttClientTypeOK
  <2>3. mqSock # "none"
    BY <1>1 DEF Queue
  <2>4. FlagHeld' /\ ObjectKept' /\ PacketsSeenTo'
    BY <1>1, <2>3 DEF MqttClientIInv, FlagHeld, ObjectKept, PacketsSeenTo
  <2> QED BY <1>1, <2>2, <2>4 DEF MqttClientIInv
<1>2. CASE pubAt' \in SchedAt /\ Sched(pubAt, pubAt') /\ UNCHANGED <<packets, ioAt>> /\ UnchangedLink
  <2>1. CASE /\ pubAt = "want" /\ pubAt' = IF packets > 0 THEN "flag" ELSE "idle"
             /\ UNCHANGED <<sched, died>>
    <3>1. MqttClientTypeOK'
      BY <1>2, <2>1 DEF MqttClientIInv, MqttClientTypeOK
    <3>2. FlagHeld' /\ ObjectKept' /\ PacketsSeenTo'
      BY <1>2, <2>1 DEF MqttClientIInv, FlagHeld, ObjectKept, PacketsSeenTo
    <3> QED BY <2>1, <3>1, <3>2 DEF MqttClientIInv
  <2>2. CASE /\ pubAt = "flag" /\ mqFlag' = TRUE /\ pubAt' = IF mqFlag THEN "idle" ELSE "wait"
             /\ UNCHANGED <<wPending, wAborted, died>>
    <3>1. MqttClientTypeOK'
      BY <1>2, <2>2 DEF MqttClientIInv, MqttClientTypeOK
    <3>2. FlagHeld'
      BY <1>2, <2>2 DEF MqttClientIInv, FlagHeld
    <3>3. ObjectKept'
      BY <1>2, <2>2 DEF MqttClientIInv, ObjectKept
    <3>4. PacketsSeenTo'
      BY <1>2, <2>2 DEF MqttClientIInv, FlagHeld, PacketsSeenTo
    <3> QED BY <2>2, <3>1, <3>2, <3>3, <3>4 DEF MqttClientIInv
  <2>3. CASE /\ pubAt = "wait" /\ pubAt' = "idle" /\ UNCHANGED <<mqFlag, wAborted>>
             /\ mqObj /\ wPending' = TRUE /\ UNCHANGED died
    <3>1. MqttClientTypeOK'
      BY <1>2, <2>3 DEF MqttClientIInv, MqttClientTypeOK
    <3>2. FlagHeld' /\ ObjectKept' /\ PacketsSeenTo'
      BY <1>2, <2>3 DEF MqttClientIInv, FlagHeld, ObjectKept, PacketsSeenTo
    <3> QED BY <2>3, <3>1, <3>2 DEF MqttClientIInv
  <2>4. CASE /\ pubAt = "wait" /\ pubAt' = "idle" /\ UNCHANGED <<mqFlag, wAborted>>
             /\ ~mqObj /\ died' = TRUE /\ UNCHANGED wPending
    <3>1. MqttClientTypeOK'
      BY <1>2, <2>4 DEF MqttClientIInv, MqttClientTypeOK
    <3>2. mqOverlap /\ mqSock = "none"
      BY <2>4 DEF MqttClientIInv, ObjectKept
    <3> QED BY <1>2, <2>4, <3>1, <3>2 DEF MqttClientIInv
  <2> QED BY <1>2, <2>1, <2>2, <2>3, <2>4 DEF Sched
<1> QED BY <1>1, <1>2 DEF Publisher

(* The io thread's own way through it never finds the object gone.          *)
LEMMA IoSchedSteps ==
  ASSUME MqttClientIInv, ~died, ioAt' \in SchedAt, Sched(ioAt, ioAt'), UNCHANGED <<packets, pubAt>>, UnchangedLink
  PROVE  MqttClientIInv'
<1> USE DEF UnchangedLink, sched, SchedAt, AtWork
<1>1. CASE /\ ioAt = "want" /\ ioAt' = IF packets > 0 THEN "flag" ELSE "idle"
           /\ UNCHANGED <<sched, died>>
  <2>1. MqttClientTypeOK'
    BY <1>1 DEF MqttClientIInv, MqttClientTypeOK
  <2>2. FlagHeld' /\ ObjectKept' /\ PacketsSeenTo'
    BY <1>1 DEF MqttClientIInv, FlagHeld, ObjectKept, PacketsSeenTo
  <2> QED BY <1>1, <2>1, <2>2 DEF MqttClientIInv
<1>2. CASE /\ ioAt = "flag" /\ mqFlag' = TRUE /\ ioAt' = IF mqFlag THEN "idle" ELSE "wait"
           /\ UNCHANGED <<wPending, wAborted, died>>
  <2>1. MqttClientTypeOK'
    BY <1>2 DEF MqttClientIInv, MqttClientTypeOK
  <2>2. FlagHeld'
    BY <1>2 DEF MqttClientIInv, FlagHeld
  <2>3. ObjectKept'
    BY <1>2 DEF MqttClientIInv, ObjectKept
  <2>4. PacketsSeenTo'
    BY <1>2 DEF MqttClientIInv, FlagHeld, PacketsSeenTo
  <2> QED BY <1>2, <2>1, <2>2, <2>3, <2>4 DEF MqttClientIInv
<1>3. CASE /\ ioAt = "wait" /\ ioAt' = "idle" /\ UNCHANGED <<mqFlag, wAborted>>
           /\ mqObj /\ wPending' = TRUE /\ UNCHANGED died
  <2>1. MqttClientTypeOK'
    BY <1>3 DEF MqttClientIInv, MqttClientTypeOK
  <2>2. FlagHeld' /\ ObjectKept' /\ PacketsSeenTo'
    BY <1>3 DEF MqttClientIInv, FlagHeld, ObjectKept, PacketsSeenTo
  <2> QED BY <1>3, <2>1, <2>2 DEF MqttClientIInv
<1>4. ioAt = "wait" => mqObj
  BY DEF MqttClientIInv, ObjectKept
<1> QED BY <1>1, <1>2, <1>3, <1>4 DEF Sched
-----------------------------------------------------------------------------
(* The wait to write is over: the flag is given back.                       *)
LEMMA WriteReadySteps == MqttClientIInv /\ ~died /\ WriteReady => MqttClientIInv'
<1> SUFFICES ASSUME MqttClientIInv, ~died, WriteReady PROVE MqttClientIInv'
  OBVIOUS
<1> USE DEF UnchangedLink, sched, SchedAt, AtWork, WriteReady, Cleared
<1>1. MqttClientTypeOK'
  BY DEF MqttClientIInv, MqttClientTypeOK
<1>2. ~died' /\ FlagHeld'
  BY DEF MqttClientIInv, FlagHeld, ObjectKept
<1>3. ObjectKept'
  BY DEF MqttClientIInv, ObjectKept
<1>4. PacketsSeenTo'
  BY DEF MqttClientIInv, FlagHeld, PacketsSeenTo, MqttClientTypeOK
<1> QED BY <1>1, <1>2, <1>3, <1>4 DEF MqttClientIInv

(* An aborted one gives it back as well.                                    *)
LEMMA WriteAbortedSteps == MqttClientIInv /\ ~died /\ WriteAborted => MqttClientIInv'
<1> SUFFICES ASSUME MqttClientIInv, ~died, WriteAborted PROVE MqttClientIInv'
  OBVIOUS
<1> USE DEF UnchangedLink, sched, SchedAt, AtWork, WriteAborted, Cleared
<1>1. MqttClientTypeOK'
  BY DEF MqttClientIInv, MqttClientTypeOK
<1>2. ~died' /\ FlagHeld'
  BY DEF MqttClientIInv, FlagHeld, ObjectKept
<1>3. ObjectKept'
  BY DEF MqttClientIInv, ObjectKept
<1>4. PacketsSeenTo'
  BY DEF MqttClientIInv, FlagHeld, PacketsSeenTo, MqttClientTypeOK
<1> QED BY <1>1, <1>2, <1>3, <1>4 DEF MqttClientIInv

(* The wait to read is over, or aborted.                                    *)
LEMMA ReadReadySteps == MqttClientIInv /\ ~died /\ ReadReady => MqttClientIInv'
<1> SUFFICES ASSUME MqttClientIInv, ~died, ReadReady PROVE MqttClientIInv'
  OBVIOUS
<1> USE DEF UnchangedLink, sched, SchedAt, AtWork, ReadReady
<1>1. MqttClientTypeOK'
  BY DEF MqttClientIInv, MqttClientTypeOK
<1>2. ~died' /\ FlagHeld'
  BY DEF MqttClientIInv, FlagHeld, ObjectKept
<1>3. ObjectKept'
  BY DEF MqttClientIInv, ObjectKept
<1>4. PacketsSeenTo'
  BY DEF MqttClientIInv, FlagHeld, PacketsSeenTo, MqttClientTypeOK
<1> QED BY <1>1, <1>2, <1>3, <1>4 DEF MqttClientIInv

(* The object goes, with its waits; a thread in a publish has overlapped.   *)
LEMMA OnDisconnectSteps == MqttClientIInv /\ ~died /\ OnDisconnect => MqttClientIInv'
<1> SUFFICES ASSUME MqttClientIInv, ~died, OnDisconnect PROVE MqttClientIInv'
  OBVIOUS
<1> USE DEF UnchangedLink, sched, SchedAt, AtWork, OnDisconnect
<1>1. MqttClientTypeOK'
  BY DEF MqttClientIInv, MqttClientTypeOK
<1>2. ~died' /\ FlagHeld'
  BY DEF MqttClientIInv, FlagHeld, ObjectKept
<1>3. ObjectKept'
  BY DEF MqttClientIInv, ObjectKept
<1>4. PacketsSeenTo'
  <2>1. mqSock' = "none" /\ ioAt' = "idle"
    BY DEF MqttClientIInv, ObjectKept
  <2> QED BY <2>1 DEF PacketsSeenTo
<1> QED BY <1>1, <1>2, <1>3, <1>4 DEF MqttClientIInv

(* All packets are written, or the connection is found broken.              *)
LEMMA DoWriteSteps == MqttClientIInv /\ ~died /\ DoWrite => MqttClientIInv'
<1> SUFFICES ASSUME MqttClientIInv, ~died, DoWrite PROVE MqttClientIInv'
  OBVIOUS
<1> USE DEF UnchangedLink, sched, SchedAt, AtWork, DoWrite, Disconnected
<1>1. MqttClientTypeOK'
  <2>1. packets' \in 0..MaxPackets
    BY MqttClientAssumption DEF MqttClientIInv, MqttClientTypeOK
  <2>2. {broken', mqObj', mqFlag', rPending', wPending', wAborted', died', mqOverlap'} \subseteq BOOLEAN
    BY DEF MqttClientIInv, MqttClientTypeOK
  <2> QED BY <2>1, <2>2 DEF MqttClientIInv, MqttClientTypeOK
<1>2. ~died' /\ FlagHeld'
  BY DEF MqttClientIInv, FlagHeld, ObjectKept
<1>3. ObjectKept'
  BY DEF MqttClientIInv, ObjectKept
<1>4. PacketsSeenTo'
  BY DEF MqttClientIInv, FlagHeld, PacketsSeenTo, MqttClientTypeOK
<1> QED BY <1>1, <1>2, <1>3, <1>4 DEF MqttClientIInv

(* A packet is read, or the connection is found broken.                     *)
LEMMA DoReadSteps == MqttClientIInv /\ ~died /\ DoRead => MqttClientIInv'
<1> SUFFICES ASSUME MqttClientIInv, ~died, DoRead PROVE MqttClientIInv'
  OBVIOUS
<1> USE DEF UnchangedLink, sched, SchedAt, AtWork, DoRead, Disconnected
<1>1. MqttClientTypeOK'
  BY DEF MqttClientIInv, MqttClientTypeOK
<1>2. ~died' /\ FlagHeld'
  BY DEF MqttClientIInv, FlagHeld, ObjectKept
<1>3. ObjectKept'
  BY DEF MqttClientIInv, ObjectKept
<1>4. PacketsSeenTo'
  BY DEF MqttClientIInv, FlagHeld, PacketsSeenTo, MqttClientTypeOK
<1> QED BY <1>1, <1>2, <1>3, <1>4 DEF MqttClientIInv

(* The tick, and an attempt to connect.                                     *)
LEMMA MiscSteps == MqttClientIInv /\ ~died /\ Misc => MqttClientIInv'
<1> SUFFICES ASSUME MqttClientIInv, ~died, Misc PROVE MqttClientIInv'
  OBVIOUS
<1> USE DEF UnchangedLink, sched, SchedAt, AtWork, Misc, AfterMisc
<1>1. MqttClientTypeOK'
  BY MqttClientAssumption DEF MqttClientIInv, MqttClientTypeOK
<1>2. ~died' /\ FlagHeld'
  BY DEF MqttClientIInv, FlagHeld, ObjectKept
<1>3. ObjectKept'
  BY DEF MqttClientIInv, ObjectKept
<1>4. PacketsSeenTo'
  BY DEF MqttClientIInv, FlagHeld, PacketsSeenTo, MqttClientTypeOK
<1> QED BY <1>1, <1>2, <1>3, <1>4 DEF MqttClientIInv

(* An attempt fails, or makes a socket and the object upon it.              *)
LEMMA AttemptSteps == MqttClientIInv /\ ~died /\ (\E begun \in BOOLEAN : Attempt(begun)) => MqttClientIInv'
<1> SUFFICES ASSUME MqttClientIInv, ~died, (\E begun \in BOOLEAN : Attempt(begun)) PROVE MqttClientIInv'
  OBVIOUS
<1> USE DEF UnchangedLink, sched, SchedAt, AtWork, Attempt, Created
<1>1. MqttClientTypeOK'
  <2>1. packets' \in 0..MaxPackets /\ countdown' \in 0..Countdown
    BY MqttClientAssumption DEF MqttClientIInv, MqttClientTypeOK
  <2>2. mqObj' \in BOOLEAN /\ rPending' \in BOOLEAN
    BY DEF MqttClientIInv, MqttClientTypeOK
  <2>3. UNCHANGED <<broken, mqFlag, wPending, wAborted, pubAt, died, mqOverlap>>
    OBVIOUS
  <2>4. mqSock' \in {"none", "opening", "open"} /\ ioAt' \in SchedAt \cup {"read", "write", "null"}
    BY DEF MqttClientIInv, MqttClientTypeOK
  <2> QED BY <2>1, <2>2, <2>3, <2>4 DEF MqttClientIInv, MqttClientTypeOK
<1>2. ~died' /\ FlagHeld'
  BY DEF MqttClientIInv, FlagHeld, ObjectKept
<1>3. ObjectKept'
  BY DEF MqttClientIInv, ObjectKept
<1>4. PacketsSeenTo'
  BY DEF MqttClientIInv, FlagHeld, PacketsSeenTo, MqttClientTypeOK
<1> QED BY <1>1, <1>2, <1>3, <1>4 DEF MqttClientIInv

(* The keepalive is over: mosquitto drops the connection.                   *)
LEMMA KeepaliveOverSteps == MqttClientIInv /\ ~died /\ KeepaliveOver => MqttClientIInv'
<1> SUFFICES ASSUME MqttClientIInv, ~died, KeepaliveOver PROVE MqttClientIInv'
  OBVIOUS
<1> USE DEF UnchangedLink, sched, SchedAt, AtWork, KeepaliveOver, Disconnected
<1>1. MqttClientTypeOK'
  BY DEF MqttClientIInv, MqttClientTypeOK
<1>2. ~died' /\ FlagHeld'
  BY DEF MqttClientIInv, FlagHeld, ObjectKept
<1>3. ObjectKept'
  BY DEF MqttClientIInv, ObjectKept
<1>4. PacketsSeenTo'
  BY DEF MqttClientIInv, FlagHeld, PacketsSeenTo, MqttClientTypeOK
<1> QED BY <1>1, <1>2, <1>3, <1>4 DEF MqttClientIInv

(* The network breaks: the waits become ready.                              *)
LEMMA BreakSteps == MqttClientIInv /\ ~died /\ Break => MqttClientIInv'
<1> SUFFICES ASSUME MqttClientIInv, ~died, Break PROVE MqttClientIInv'
  OBVIOUS
<1> USE DEF UnchangedLink, sched, SchedAt, AtWork, Break
<1>1. MqttClientTypeOK'
  BY DEF MqttClientIInv, MqttClientTypeOK
<1>2. ~died' /\ FlagHeld'
  BY DEF MqttClientIInv, FlagHeld, ObjectKept
<1>3. ObjectKept'
  BY DEF MqttClientIInv, ObjectKept
<1>4. PacketsSeenTo'
  BY DEF MqttClientIInv, FlagHeld, PacketsSeenTo, MqttClientTypeOK
<1> QED BY <1>1, <1>2, <1>3, <1>4 DEF MqttClientIInv

(* A publish of the io thread itself.                                       *)
LEMMA IoPublishSteps == MqttClientIInv /\ ~died /\ IoPublish => MqttClientIInv'
<1> SUFFICES ASSUME MqttClientIInv, ~died, IoPublish PROVE MqttClientIInv'
  OBVIOUS
<1> USE DEF UnchangedLink, sched, SchedAt, AtWork, IoPublish, Queue
<1>1. MqttClientTypeOK'
  BY MqttClientAssumption DEF MqttClientIInv, MqttClientTypeOK
<1>2. ~died' /\ FlagHeld'
  BY DEF MqttClientIInv, FlagHeld, ObjectKept
<1>3. ObjectKept'
  BY DEF MqttClientIInv, ObjectKept
<1>4. PacketsSeenTo'
  BY DEF MqttClientIInv, FlagHeld, PacketsSeenTo, MqttClientTypeOK
<1> QED BY <1>1, <1>2, <1>3, <1>4 DEF MqttClientIInv

(* Every step of either thread, and of the network.                         *)
LEMMA MqttClientNextIInv == MqttClientIInv /\ [MqttClientNext]_mqVars => MqttClientIInv'
<1> SUFFICES ASSUME MqttClientIInv, [MqttClientNext]_mqVars PROVE MqttClientIInv'
  OBVIOUS
<1>1. CASE UNCHANGED mqVars
  BY <1>1 DEF MqttClientIInv, MqttClientTypeOK, FlagHeld, ObjectKept, PacketsSeenTo, mqVars
<1>2. CASE ~died /\ MqIo
  BY <1>2, IoPublishSteps, WriteReadySteps, WriteAbortedSteps, ReadReadySteps, OnDisconnectSteps,
     DoWriteSteps, DoReadSteps, IoSchedSteps DEF MqIo
<1>3. CASE ~died /\ (MqFault \/ Attempt(TRUE))
  BY <1>3, BreakSteps, AttemptSteps DEF MqFault
<1> QED BY <1>1, <1>2, <1>3, PublisherSteps, MiscSteps, KeepaliveOverSteps DEF MqttClientNext

(* The inductive invariant of the connection under both threads.            *)
THEOREM MqttClientInvariance == MqttClientSpec => []MqttClientIInv
<1> QED BY MqttClientInitIInv, MqttClientNextIInv, PTL DEF MqttClientSpec
-----------------------------------------------------------------------------
(* What is to be shown of the publishes.                                    *)
LEMMA SeenToIsRight == MqttClientIInv => ClientRight
<1> SUFFICES ASSUME MqttClientIInv PROVE ClientRight
  OBVIOUS
<1>1. DiesByOverlap
  BY DEF MqttClientIInv, DiesByOverlap
<1>2. NoneLeft
  BY DEF MqttClientIInv, PacketsSeenTo, NoneLeft, AtWork
<1> QED BY <1>1, <1>2 DEF ClientRight

(* Well-typedness for any number of packets and any countdown.              *)
THEOREM MqttClientTypeCorrect == MqttClientSpec => []MqttClientTypeOK
<1> QED BY MqttClientInvariance, PTL DEF MqttClientIInv

(* Across any breaks, attempts and publishes of both threads: the client    *)
(* gives the program up only if its object was dropped while the other      *)
(* thread was in a publish, and no packet of an open connection is left     *)
(* without a wait to write (sched_write_mqtt_socket, on_disconnect,         *)
(* do_misc).                                                                *)
THEOREM PublishesAreSafe == MqttClientSpec => []ClientRight
<1> QED BY MqttClientInvariance, SeenToIsRight, PTL

-----------------------------------------------------------------------------
(* Devices at the broker (Devices).                                         *)

(* The messages of the light: none, or the last one of them says v.         *)
NoneOf(topic, s) == \A i \in DOMAIN s : s[i].topic # topic
LastLight(s, v) ==
  \E i \in DOMAIN s : /\ s[i].topic = "light" /\ s[i].on = v
                      /\ \A j \in DOMAIN s : i < j => s[j].topic # "light"

(* Without connection nothing is on its way, and what is published is live; *)
(* the gate only ever reports that it has closed.                           *)
LinkCarries ==
  /\ ~linkUp => disturbed /\ toBroker = <<>> /\ fromBroker = <<>>
  /\ \A i \in DOMAIN toBroker : toBroker[i].live /\ (toBroker[i].topic = "gate" => ~toBroker[i].on)

(* The last word on its way to the light, or the light if there is none, is *)
(* what the last press made of it.                                          *)
PressIsLast ==
  ~disturbed =>
    \/ LastLight(toBroker, lightAsked)
    \/ NoneOf("light", toBroker) /\ LastLight(fromBroker, lightAsked)
    \/ NoneOf("light", toBroker) /\ NoneOf("light", fromBroker) /\ light = lightAsked

(* A command the gate has obeyed is retained only until its 0 arrives, ...  *)
TakenBack == retained["gate"] = TRUE /\ moved => gate \/ zeroLost \/ ZeroUnderway

(* ... so that what a subscription brings is a command the gate has not     *)
(* obeyed, unless its 0 was lost; nothing else moves it before that.        *)
BroughtIsNew ==
  \A i \in DOMAIN fromBroker : fromBroker[i].topic = "gate" /\ fromBroker[i].on /\ ~fromBroker[i].live =>
    /\ ~gate /\ (~moved \/ zeroLost) /\ NoneOf("gate", toBroker)
    /\ \A j \in DOMAIN fromBroker : j < i => fromBroker[j].topic = "light"

DevicesIInv == DevicesTypeOK /\ LinkCarries /\ PressIsLast /\ TakenBack /\ BroughtIsNew
-----------------------------------------------------------------------------
(* A message at the end, and the first one taken.                           *)
LEMMA MessageAppended ==
  ASSUME NEW s \in Seq(Message), NEW m \in Message, NEW topic, NEW v
  PROVE  /\ Append(s, m) \in Seq(Message)
         /\ NoneOf(topic, Append(s, m)) <=> NoneOf(topic, s) /\ m.topic # topic
         /\ m.topic = "light" /\ m.on = v => LastLight(Append(s, m), v)
         /\ m.topic # "light" => (LastLight(s, v) => LastLight(Append(s, m), v))
<1>1. /\ Append(s, m) \in Seq(Message) /\ Len(Append(s, m)) = Len(s) + 1 /\ Len(s) \in Nat
      /\ \A i \in 1..Len(s) : Append(s, m)[i] = s[i]
      /\ Append(s, m)[Len(s) + 1] = m
  OBVIOUS
<1>2. DOMAIN s = 1..Len(s) /\ DOMAIN Append(s, m) = 1..(Len(s) + 1)
  BY <1>1
<1>3. NoneOf(topic, Append(s, m)) <=> NoneOf(topic, s) /\ m.topic # topic
  BY <1>1, <1>2 DEF NoneOf
<1>4. ASSUME m.topic = "light", m.on = v PROVE LastLight(Append(s, m), v)
  <2>1. Len(s) + 1 \in DOMAIN Append(s, m) /\ \A j \in DOMAIN Append(s, m) : ~(Len(s) + 1 < j)
    BY <1>1, <1>2
  <2> QED BY <1>1, <1>4, <2>1 DEF LastLight
<1>5. ASSUME m.topic # "light", LastLight(s, v) PROVE LastLight(Append(s, m), v)
  <2>1. PICK i \in DOMAIN s : /\ s[i].topic = "light" /\ s[i].on = v
                              /\ \A j \in DOMAIN s : i < j => s[j].topic # "light"
    BY <1>5 DEF LastLight
  <2>2. i \in DOMAIN Append(s, m) /\ Append(s, m)[i] = s[i]
    BY <1>1, <1>2
  <2>3. \A j \in DOMAIN Append(s, m) : i < j => Append(s, m)[j].topic # "light"
    BY <1>1, <1>2, <1>5, <2>1
  <2> QED BY <2>1, <2>2, <2>3 DEF LastLight
<1> QED BY <1>1, <1>3, <1>4, <1>5

LEMMA MessageTaken ==
  ASSUME NEW s \in Seq(Message), s # <<>>, NEW topic, NEW v
  PROVE  /\ Head(s) \in Message /\ Tail(s) \in Seq(Message)
         /\ NoneOf(topic, s) <=> NoneOf(topic, Tail(s)) /\ Head(s).topic # topic
         /\ LastLight(s, v) => \/ LastLight(Tail(s), v)
                               \/ /\ Head(s).topic = "light" /\ Head(s).on = v
                                  /\ NoneOf("light", Tail(s))
<1>1. /\ Head(s) = s[1] /\ Head(s) \in Message /\ Tail(s) \in Seq(Message)
      /\ Len(s) \in Nat /\ Len(s) >= 1 /\ Len(Tail(s)) = Len(s) - 1
      /\ \A i \in 1..(Len(s) - 1) : Tail(s)[i] = s[i + 1]
  <2>1. Len(s) \in Nat /\ Len(s) >= 1 /\ Head(s) = s[1]
    OBVIOUS
  <2> QED BY <2>1, HeadTailProperties
<1>2. DOMAIN s = 1..Len(s) /\ DOMAIN Tail(s) = 1..(Len(s) - 1)
  BY <1>1
<1>3. \A i \in DOMAIN s : i = 1 \/ (i - 1 \in DOMAIN Tail(s) /\ Tail(s)[i - 1] = s[i])
  BY <1>1, <1>2
<1>4. \A i \in DOMAIN Tail(s) : i + 1 \in DOMAIN s /\ Tail(s)[i] = s[i + 1]
  BY <1>1, <1>2
<1>5. NoneOf(topic, s) <=> NoneOf(topic, Tail(s)) /\ Head(s).topic # topic
  <2>1. 1 \in DOMAIN s
    BY <1>1, <1>2
  <2>2. ASSUME NoneOf(topic, s) PROVE NoneOf(topic, Tail(s)) /\ Head(s).topic # topic
    BY <1>1, <1>4, <2>1, <2>2 DEF NoneOf
  <2>3. ASSUME NoneOf(topic, Tail(s)), Head(s).topic # topic PROVE NoneOf(topic, s)
    BY <1>1, <1>3, <2>3 DEF NoneOf
  <2> QED BY <2>2, <2>3
<1>6. ASSUME LastLight(s, v), ~LastLight(Tail(s), v)
      PROVE  Head(s).topic = "light" /\ Head(s).on = v /\ NoneOf("light", Tail(s))
  <2>1. PICK i \in DOMAIN s : /\ s[i].topic = "light" /\ s[i].on = v
                              /\ \A j \in DOMAIN s : i < j => s[j].topic # "light"
    BY <1>6 DEF LastLight
  <2>2. i = 1
    <3> SUFFICES ASSUME i # 1 PROVE FALSE
      OBVIOUS
    <3>1. i - 1 \in DOMAIN Tail(s) /\ Tail(s)[i - 1] = s[i]
      BY <1>3
    <3>2. \A j \in DOMAIN Tail(s) : i - 1 < j => Tail(s)[j].topic # "light"
      BY <1>2, <1>4, <2>1
    <3> QED BY <1>6, <2>1, <3>1, <3>2 DEF LastLight
  <2>3. NoneOf("light", Tail(s))
    BY <1>2, <1>4, <2>1, <2>2 DEF NoneOf
  <2> QED BY <1>1, <2>1, <2>2, <2>3
<1> QED BY <1>1, <1>5, <1>6

(* At first nothing was asked and nothing is retained.                      *)
LEMMA DevicesInitIInv == DevicesInit => DevicesIInv
<1> SUFFICES ASSUME DevicesInit PROVE DevicesIInv
  OBVIOUS
<1> USE DevicesAssumption
<1>1. DevicesTypeOK
  <2>1. retained \in [Topics -> BOOLEAN \cup {NotRetained}] /\ toBroker \in Seq(Message)
        /\ fromBroker \in Seq(Message)
    BY DEF DevicesInit, Topics
  <2> QED BY <2>1 DEF DevicesInit, DevicesTypeOK
<1>2. LinkCarries /\ PressIsLast /\ BroughtIsNew
  BY DEF DevicesInit, LinkCarries, PressIsLast, BroughtIsNew
<1>3. TakenBack
  BY DEF DevicesInit, TakenBack
<1> QED BY <1>1, <1>2, <1>3 DEF DevicesIInv

(* What is brought stays new while the gate rests and only live messages    *)
(* follow.                                                                  *)
LEMMA BroughtFollowed ==
  ASSUME DevicesTypeOK, BroughtIsNew, NEW m \in Message, m.live, fromBroker' = Append(fromBroker, m),
         gate' = gate, NoneOf("gate", toBroker) => NoneOf("gate", toBroker)',
         ~moved \/ zeroLost => (~moved \/ zeroLost)' \/ ~NoneOf("gate", toBroker)
  PROVE  BroughtIsNew'
<1>1. /\ Len(fromBroker) \in Nat /\ DOMAIN fromBroker = 1..Len(fromBroker)
      /\ DOMAIN fromBroker' = 1..(Len(fromBroker) + 1)
      /\ \A i \in 1..Len(fromBroker) : fromBroker'[i] = fromBroker[i]
      /\ fromBroker'[Len(fromBroker) + 1] = m
  BY DEF DevicesTypeOK
<1> SUFFICES ASSUME NEW i \in DOMAIN fromBroker',
                    fromBroker'[i].topic = "gate", fromBroker'[i].on, ~fromBroker'[i].live
             PROVE  /\ ~gate' /\ (~moved \/ zeroLost)' /\ NoneOf("gate", toBroker)'
                    /\ \A j \in DOMAIN fromBroker' : j < i => fromBroker'[j].topic = "light"
  BY DEF BroughtIsNew
<1>2. i \in DOMAIN fromBroker /\ fromBroker[i].topic = "gate" /\ fromBroker[i].on /\ ~fromBroker[i].live
  BY <1>1
<1>3. /\ ~gate /\ (~moved \/ zeroLost) /\ NoneOf("gate", toBroker)
      /\ \A j \in DOMAIN fromBroker : j < i => fromBroker[j].topic = "light"
  BY <1>2 DEF BroughtIsNew
<1> QED BY <1>1, <1>2, <1>3

LEMMA BroughtAwaits ==
  ASSUME BroughtIsNew, UNCHANGED <<fromBroker, gate>>,
         NoneOf("gate", toBroker) /\ ~gate => NoneOf("gate", toBroker)',
         ~moved \/ zeroLost => (~moved \/ zeroLost)' \/ ~NoneOf("gate", toBroker) \/ gate
  PROVE  BroughtIsNew'
  BY DEF BroughtIsNew

(* A press is the light's last word, if there is a link.                    *)
LEMMA PressSteps ==
  ASSUME DevicesIInv, NEW on \in BOOLEAN, PressLight(on), Publish("light", on)
  PROVE  DevicesIInv'
<1> DEFINE m == Msg("light", on, TRUE)
<1>1. m \in Message /\ m.topic = "light" /\ m.on = on /\ m.live
  BY DEF Msg, Message, Topics
<1>2. /\ light' = on /\ lightAsked' = on /\ disturbed' = ~linkUp
      /\ UNCHANGED <<gate, linkUp, fromBroker, retained, unkept, moved, zeroLost>>
      /\ toBroker' = IF linkUp THEN Append(toBroker, m) ELSE toBroker
  BY DEF PressLight, Publish
<1>3. toBroker \in Seq(Message) /\ linkUp \in BOOLEAN
  BY DEF DevicesIInv, DevicesTypeOK
<1> HIDE DEF m
<1>4. toBroker' \in Seq(Message) /\ (linkUp => LastLight(toBroker', on))
      /\ (NoneOf("gate", toBroker') <=> NoneOf("gate", toBroker))
  BY <1>1, <1>2, <1>3, MessageAppended
<1>5. DevicesTypeOK'
  <2>1. light' \in BOOLEAN /\ lightAsked' \in BOOLEAN /\ disturbed' \in BOOLEAN
    BY <1>2, <1>3
  <2> QED BY <1>2, <1>4, <2>1 DEF DevicesIInv, DevicesTypeOK
<1>6. LinkCarries'
  <2>1. ~linkUp => disturbed' /\ toBroker' = <<>> /\ fromBroker' = <<>>
    BY <1>2 DEF DevicesIInv, LinkCarries
  <2>2. \A i \in DOMAIN toBroker : toBroker[i].live /\ (toBroker[i].topic = "gate" => ~toBroker[i].on)
    BY DEF DevicesIInv, LinkCarries
  <2>3. \A i \in DOMAIN toBroker' : \/ i \in DOMAIN toBroker /\ toBroker'[i] = toBroker[i]
                                    \/ toBroker'[i] = m
    BY <1>1, <1>2, <1>3
  <2>4. \A i \in DOMAIN toBroker' : toBroker'[i].live /\ (toBroker'[i].topic = "gate" => ~toBroker'[i].on)
    BY <1>1, <2>2, <2>3
  <2> QED BY <1>2, <2>1, <2>4 DEF LinkCarries
<1>7. PressIsLast'
  BY <1>2, <1>4 DEF PressIsLast
<1>8. TakenBack'
  BY <1>2, <1>4 DEF DevicesIInv, TakenBack, ZeroUnderway, NoneOf
<1>9. BroughtIsNew'
  BY <1>2, <1>4, BroughtAwaits DEF DevicesIInv
<1> QED BY <1>5, <1>6, <1>7, <1>8, <1>9 DEF DevicesIInv

(* A message reaches the devices: an echo of the light is not published, a  *)
(* gate that is brought its old command moves only once for it.             *)
LEMMA OnMsgRecvSteps == DevicesIInv /\ OnMsgRecv => DevicesIInv'
<1> SUFFICES ASSUME DevicesIInv, OnMsgRecv PROVE DevicesIInv'
  OBVIOUS
<1> DEFINE m == Head(fromBroker)
<1>1. /\ fromBroker # <<>> /\ fromBroker' = Tail(fromBroker)
      /\ light' = IF m.topic = "light" THEN m.on ELSE light
      /\ gate' = (gate \/ (m.topic = "gate" /\ m.on))
      /\ UNCHANGED <<toBroker, linkUp, retained, lightAsked, disturbed, unkept, zeroLost>>
      /\ moved' = (moved \/ (gate' /\ ~gate))
  BY DEF OnMsgRecv, SetPublishes
<1>2. fromBroker \in Seq(Message)
  BY DEF DevicesIInv, DevicesTypeOK
<1>3. /\ m \in Message /\ fromBroker' \in Seq(Message)
      /\ NoneOf("light", fromBroker) => NoneOf("light", fromBroker') /\ m.topic # "light"
      /\ LastLight(fromBroker, lightAsked) =>
           \/ LastLight(fromBroker', lightAsked)
           \/ m.topic = "light" /\ m.on = lightAsked /\ NoneOf("light", fromBroker')
  BY <1>1, <1>2, MessageTaken
<1>4. /\ Len(fromBroker) \in Nat /\ DOMAIN fromBroker = 1..Len(fromBroker) /\ m = fromBroker[1]
      /\ DOMAIN fromBroker' = 1..(Len(fromBroker) - 1) /\ 1 \in DOMAIN fromBroker
      /\ \A i \in DOMAIN fromBroker' : fromBroker'[i] = fromBroker[i + 1]
  BY <1>1, <1>2, HeadTailProperties
<1> HIDE DEF m
<1>5. DevicesTypeOK'
  <2>1. light' \in BOOLEAN
    BY <1>1, <1>3 DEF DevicesIInv, DevicesTypeOK, Message
  <2>2. gate' \in BOOLEAN /\ moved' \in BOOLEAN
    BY <1>1 DEF DevicesIInv, DevicesTypeOK
  <2> QED BY <1>1, <1>3, <2>1, <2>2 DEF DevicesIInv, DevicesTypeOK
<1>6. LinkCarries'
  BY <1>1, <1>2 DEF DevicesIInv, LinkCarries
<1>7. PressIsLast'
  BY <1>1, <1>3 DEF DevicesIInv, PressIsLast
<1>8. TakenBack'
  BY <1>1 DEF DevicesIInv, TakenBack, ZeroUnderway
<1>9. BroughtIsNew'
  <2> SUFFICES ASSUME NEW i \in DOMAIN fromBroker',
                      fromBroker'[i].topic = "gate", fromBroker'[i].on, ~fromBroker'[i].live
               PROVE  /\ ~gate' /\ (~moved \/ zeroLost)' /\ NoneOf("gate", toBroker)'
                      /\ \A j \in DOMAIN fromBroker' : j < i => fromBroker'[j].topic = "light"
    BY DEF BroughtIsNew
  <2>1. i + 1 \in DOMAIN fromBroker /\ fromBroker[i + 1].topic = "gate" /\ fromBroker[i + 1].on
        /\ ~fromBroker[i + 1].live
    BY <1>4
  <2>2. /\ ~gate /\ (~moved \/ zeroLost) /\ NoneOf("gate", toBroker)
        /\ \A j \in DOMAIN fromBroker : j < i + 1 => fromBroker[j].topic = "light"
    BY <2>1 DEF DevicesIInv, BroughtIsNew
  <2>3. m.topic = "light"
    BY <1>4, <2>2
  <2>4. \A j \in DOMAIN fromBroker' : j < i => fromBroker'[j].topic = "light"
    BY <1>4, <2>2
  <2> QED BY <1>1, <2>2, <2>3, <2>4
<1> QED BY <1>5, <1>6, <1>7, <1>8, <1>9 DEF DevicesIInv

(* The gate has closed: its 0 is on its way, or lost.                       *)
LEMMA GateTimerSteps == DevicesIInv /\ GateTimer => DevicesIInv'
<1> SUFFICES ASSUME DevicesIInv, GateTimer PROVE DevicesIInv'
  OBVIOUS
<1> DEFINE m == Msg("gate", FALSE, TRUE)
<1>1. m \in Message /\ m.topic = "gate" /\ ~m.on /\ m.live
  BY DEF Msg, Message, Topics
<1>2. /\ gate /\ gate' = FALSE /\ zeroLost' = (zeroLost \/ ~linkUp)
      /\ UNCHANGED <<light, linkUp, fromBroker, retained, lightAsked, disturbed, unkept, moved>>
      /\ toBroker' = IF linkUp THEN Append(toBroker, m) ELSE toBroker
  BY DEF GateTimer, Reports, Publish
<1>3. toBroker \in Seq(Message) /\ linkUp \in BOOLEAN
  BY DEF DevicesIInv, DevicesTypeOK
<1> HIDE DEF m
<1>4. /\ toBroker' \in Seq(Message)
      /\ linkUp => ~NoneOf("gate", toBroker')
      /\ NoneOf("light", toBroker) => NoneOf("light", toBroker')
      /\ LastLight(toBroker, lightAsked) => LastLight(toBroker', lightAsked)
  BY <1>1, <1>2, <1>3, MessageAppended
<1>5. DevicesTypeOK'
  <2>1. zeroLost' \in BOOLEAN
    BY <1>2 DEF DevicesIInv, DevicesTypeOK
  <2> QED BY <1>2, <1>4, <2>1 DEF DevicesIInv, DevicesTypeOK
<1>6. LinkCarries'
  BY <1>1, <1>2, <1>3 DEF DevicesIInv, LinkCarries
<1>7. PressIsLast'
  BY <1>2, <1>4 DEF DevicesIInv, PressIsLast
<1>8. TakenBack'
  BY <1>2, <1>4 DEF DevicesIInv, TakenBack, ZeroUnderway, NoneOf
<1>9. BroughtIsNew'
  BY <1>2 DEF DevicesIInv, BroughtIsNew
<1> QED BY <1>5, <1>6, <1>7, <1>8, <1>9 DEF DevicesIInv

(* The broker keeps a message of the client and sends it back.              *)
LEMMA BrokerSteps == DevicesIInv /\ Broker => DevicesIInv'
<1> SUFFICES ASSUME DevicesIInv, Broker PROVE DevicesIInv'
  OBVIOUS
<1> DEFINE m == Head(toBroker)
<1>1. /\ toBroker # <<>> /\ toBroker' = Tail(toBroker)
      /\ retained' = [retained EXCEPT ![m.topic] = m.on]
      /\ fromBroker' = IF linkUp THEN Append(fromBroker, m) ELSE fromBroker
      /\ zeroLost' = (zeroLost /\ m.topic # "gate")
      /\ unkept' = (unkept /\ m.topic # "light")
      /\ UNCHANGED <<light, gate, linkUp, lightAsked, disturbed, moved>>
  BY DEF Broker, Deliver
<1>2. toBroker \in Seq(Message) /\ fromBroker \in Seq(Message) /\ linkUp
  BY <1>1 DEF DevicesIInv, DevicesTypeOK, LinkCarries
<1>3. /\ m \in Message /\ toBroker' \in Seq(Message)
      /\ NoneOf("gate", toBroker) <=> NoneOf("gate", toBroker') /\ m.topic # "gate"
      /\ NoneOf("light", toBroker) <=> NoneOf("light", toBroker') /\ m.topic # "light"
      /\ LastLight(toBroker, lightAsked) =>
           \/ LastLight(toBroker', lightAsked)
           \/ m.topic = "light" /\ m.on = lightAsked /\ NoneOf("light", toBroker')
  BY <1>1, <1>2, MessageTaken
<1>4. /\ m.live /\ (m.topic = "gate" => ~m.on)
      /\ \A i \in DOMAIN toBroker' : toBroker'[i].live /\ (toBroker'[i].topic = "gate" => ~toBroker'[i].on)
  <2>1. /\ 1 \in DOMAIN toBroker /\ m = toBroker[1]
        /\ \A i \in DOMAIN toBroker' : i + 1 \in DOMAIN toBroker /\ toBroker'[i] = toBroker[i + 1]
    BY <1>1, <1>2, HeadTailProperties
  <2> QED BY <2>1 DEF DevicesIInv, LinkCarries
<1> HIDE DEF m
<1>5. /\ fromBroker' = Append(fromBroker, m) /\ fromBroker' \in Seq(Message)
      /\ NoneOf("light", fromBroker') <=> NoneOf("light", fromBroker) /\ m.topic # "light"
      /\ m.topic = "light" /\ m.on = lightAsked => LastLight(fromBroker', lightAsked)
      /\ m.topic # "light" /\ LastLight(fromBroker, lightAsked) => LastLight(fromBroker', lightAsked)
  BY <1>1, <1>2, <1>3, MessageAppended
<1>6. DevicesTypeOK'
  <2>1. zeroLost' \in BOOLEAN /\ unkept' \in BOOLEAN
    BY <1>1 DEF DevicesIInv, DevicesTypeOK
  <2>2. retained' \in [Topics -> BOOLEAN \cup {NotRetained}]
    BY <1>1, <1>3 DEF DevicesIInv, DevicesTypeOK, Message
  <2> QED BY <1>1, <1>3, <1>5, <2>1, <2>2 DEF DevicesIInv, DevicesTypeOK
<1>7. LinkCarries'
  BY <1>1, <1>2, <1>4 DEF LinkCarries
<1>8. PressIsLast'
  BY <1>1, <1>3, <1>5 DEF DevicesIInv, PressIsLast
<1>9. TakenBack'
  <2>1. CASE m.topic = "gate"
    <3>1. retained'["gate"] = m.on /\ ~m.on
      BY <1>1, <1>4, <2>1 DEF DevicesIInv, DevicesTypeOK, Topics
    <3> QED BY <3>1 DEF TakenBack
  <2>2. CASE m.topic # "gate"
    <3>1. retained'["gate"] = retained["gate"]
      BY <1>1, <1>3, <2>2 DEF DevicesIInv, DevicesTypeOK, Topics, Message
    <3> QED BY <1>1, <1>3, <2>2, <3>1 DEF DevicesIInv, TakenBack, ZeroUnderway, NoneOf
  <2> QED BY <2>1, <2>2
<1>10. BroughtIsNew'
  BY <1>1, <1>3, <1>4, <1>5, BroughtFollowed DEF DevicesIInv
<1> QED BY <1>6, <1>7, <1>8, <1>9, <1>10 DEF DevicesIInv

(* A command of another client.                                             *)
LEMMA DevCommandSteps ==
  ASSUME DevicesIInv, NEW topic \in Topics, NEW on \in BOOLEAN, NEW retain \in BOOLEAN,
         Command(topic, on, retain)
  PROVE  DevicesIInv'
<1> DEFINE m == Msg(topic, on, TRUE)
<1>1. m \in Message /\ m.topic = topic /\ m.on = on /\ m.live
  BY DEF Msg, Message
<1>2. /\ fromBroker' = IF linkUp THEN Append(fromBroker, m) ELSE fromBroker
      /\ retained' = IF retain THEN [retained EXCEPT ![topic] = on] ELSE retained
      /\ disturbed' = (disturbed \/ topic = "light")
      /\ unkept' = IF topic = "light" THEN ~retain ELSE unkept
      /\ moved' = (moved /\ ~(topic = "gate" /\ on /\ retain))
      /\ zeroLost' = (zeroLost /\ ~(topic = "gate" /\ on /\ retain))
      /\ UNCHANGED <<light, gate, linkUp, toBroker, lightAsked>>
  BY DEF Command, Deliver
<1>3. fromBroker \in Seq(Message) /\ linkUp \in BOOLEAN
  BY DEF DevicesIInv, DevicesTypeOK
<1> HIDE DEF m
<1>4. /\ fromBroker' \in Seq(Message)
      /\ topic # "light" => /\ NoneOf("light", fromBroker) => NoneOf("light", fromBroker')
                            /\ LastLight(fromBroker, lightAsked) => LastLight(fromBroker', lightAsked)
  BY <1>1, <1>2, <1>3, MessageAppended
<1>5. DevicesTypeOK'
  <2>1. zeroLost' \in BOOLEAN /\ unkept' \in BOOLEAN /\ moved' \in BOOLEAN /\ disturbed' \in BOOLEAN
    BY <1>2 DEF DevicesIInv, DevicesTypeOK
  <2>2. retained' \in [Topics -> BOOLEAN \cup {NotRetained}]
    BY <1>2 DEF DevicesIInv, DevicesTypeOK
  <2> QED BY <1>2, <1>4, <2>1, <2>2 DEF DevicesIInv, DevicesTypeOK
<1>6. LinkCarries'
  BY <1>2 DEF DevicesIInv, LinkCarries
<1>7. PressIsLast'
  BY <1>2, <1>4 DEF DevicesIInv, PressIsLast
<1>8. TakenBack'
  <2>1. ASSUME retained'["gate"] = TRUE, moved' PROVE retained["gate"] = TRUE /\ moved /\ zeroLost' = zeroLost
    BY <1>2, <2>1 DEF DevicesIInv, DevicesTypeOK, Topics
  <2> QED BY <1>2, <2>1 DEF DevicesIInv, TakenBack, ZeroUnderway
<1>9. BroughtIsNew'
  <2>1. ~moved \/ zeroLost => ~moved' \/ zeroLost'
    BY <1>2
  <2>2. CASE linkUp
    BY <1>1, <1>2, <2>1, <2>2, BroughtFollowed DEF DevicesIInv
  <2>3. CASE ~linkUp
    BY <1>2, <2>1, <2>3, BroughtAwaits DEF DevicesIInv
  <2> QED BY <2>2, <2>3
<1> QED BY <1>5, <1>6, <1>7, <1>8, <1>9 DEF DevicesIInv

(* The link breaks or the daemon starts again: a 0 under way is lost.       *)
LEMMA LostSteps == DevicesIInv /\ (Disconnect \/ DaemonRestart) => DevicesIInv'
<1> SUFFICES ASSUME DevicesIInv, Disconnect \/ DaemonRestart PROVE DevicesIInv'
  OBVIOUS
<1>1. /\ linkUp' = FALSE /\ toBroker' = <<>> /\ fromBroker' = <<>> /\ disturbed' = TRUE
      /\ UNCHANGED <<retained, lightAsked, unkept, moved>>
      /\ \/ zeroLost' = (zeroLost \/ ZeroUnderway) /\ UNCHANGED <<light, gate>>
         \/ zeroLost' = (zeroLost \/ ZeroUnderway \/ gate) /\ light' = FALSE /\ gate' = FALSE
  BY DEF Disconnect, DaemonRestart, Lost
<1>2. DevicesTypeOK'
  <2>1. zeroLost' \in BOOLEAN
    BY <1>1
  <2>2. light' \in BOOLEAN /\ gate' \in BOOLEAN
    BY <1>1 DEF DevicesIInv, DevicesTypeOK
  <2>3. toBroker' \in Seq(Message) /\ fromBroker' \in Seq(Message)
    BY <1>1
  <2> QED BY <1>1, <2>1, <2>2, <2>3 DEF DevicesIInv, DevicesTypeOK
<1>3. LinkCarries' /\ PressIsLast' /\ BroughtIsNew'
  BY <1>1 DEF LinkCarries, PressIsLast, BroughtIsNew
<1>4. TakenBack'
  BY <1>1 DEF DevicesIInv, TakenBack
<1> QED BY <1>2, <1>3, <1>4 DEF DevicesIInv

(* A new subscription: what is retained for the gate is new to it.          *)
LEMMA ConnectSteps == DevicesIInv /\ Connect => DevicesIInv'
<1> SUFFICES ASSUME DevicesIInv, Connect PROVE DevicesIInv'
  OBVIOUS
<1> USE DevicesAssumption
<1>1. /\ ~linkUp /\ ~gate /\ linkUp' = TRUE
      /\ fromBroker' = Brought("light") \o Brought("gate")
      /\ unkept' = (unkept /\ retained["light"] = NotRetained)
      /\ UNCHANGED <<light, gate, toBroker, retained, lightAsked, disturbed, moved, zeroLost>>
  BY DEF Connect
<1>2. toBroker = <<>> /\ disturbed /\ retained \in [Topics -> BOOLEAN \cup {NotRetained}]
  BY <1>1 DEF DevicesIInv, DevicesTypeOK, LinkCarries
<1> DEFINE l == Msg("light", retained["light"], FALSE)
           g == Msg("gate", retained["gate"], FALSE)
<1>3. \/ fromBroker' = <<>>
      \/ fromBroker' = <<l>> /\ retained["light"] \in BOOLEAN
      \/ fromBroker' = <<g>> /\ retained["gate"] \in BOOLEAN
      \/ fromBroker' = <<l, g>> /\ retained["light"] \in BOOLEAN /\ retained["gate"] \in BOOLEAN
  <2>1. Brought("light") = <<>> \/ (Brought("light") = <<l>> /\ retained["light"] \in BOOLEAN)
    BY <1>2 DEF Brought, Topics
  <2>2. Brought("gate") = <<>> \/ (Brought("gate") = <<g>> /\ retained["gate"] \in BOOLEAN)
    BY <1>2 DEF Brought, Topics
  <2> HIDE DEF l, g
  <2>3. <<l>> \o <<g>> = <<l, g>> /\ <<l>> \o <<>> = <<l>> /\ <<>> \o <<g>> = <<g>> /\ <<>> \o <<>> = <<>>
    <3>1. <<l>> \in Seq({l}) /\ <<g>> \in Seq({g}) /\ <<>> \in Seq({l})
      OBVIOUS
    <3>2. <<l>> \o <<g>> = <<l, g>>
      <4>1. <<l>> \in Seq({l, g}) /\ <<g>> \in Seq({l, g}) /\ <<l, g>> \in Seq({l, g})
        OBVIOUS
      <4>2. <<l>> \o <<g>> \in Seq({l, g}) /\ Len(<<l>> \o <<g>>) = 2
        BY <4>1, ConcatProperties
      <4>3. (<<l>> \o <<g>>)[1] = l /\ (<<l>> \o <<g>>)[2] = g
        BY <4>1, ConcatProperties
      <4>4. Len(<<l, g>>) = 2 /\ <<l, g>>[1] = l /\ <<l, g>>[2] = g
        OBVIOUS
      <4>5. \A i \in 1..2 : (<<l>> \o <<g>>)[i] = <<l, g>>[i]
        <5>1. \A i \in 1..2 : i = 1 \/ i = 2
          OBVIOUS
        <5> QED BY <4>3, <4>4, <5>1
      <4> QED BY <4>1, <4>2, <4>4, <4>5, SeqEqual
    <3>3. <<l>> \o <<>> = <<l>> /\ <<>> \o <<g>> = <<g>> /\ <<>> \o <<>> = <<>>
      BY <3>1, ConcatEmptySeq
    <3> QED BY <3>2, <3>3
  <2> QED BY <1>1, <2>1, <2>2, <2>3
<1>4. /\ l.topic = "light" /\ g.topic = "gate" /\ ~l.live /\ ~g.live /\ g.on = retained["gate"]
      /\ retained["light"] \in BOOLEAN => l \in Message
      /\ retained["gate"] \in BOOLEAN => g \in Message
  BY DEF Msg, Message, Topics
<1> HIDE DEF l, g
<1>5. DevicesTypeOK'
  <2>1. fromBroker' \in Seq(Message)
    <3>1. CASE fromBroker' = <<>>
      BY <3>1
    <3>2. CASE fromBroker' = <<l>> /\ retained["light"] \in BOOLEAN
      BY <3>2, <1>4
    <3>3. CASE fromBroker' = <<g>> /\ retained["gate"] \in BOOLEAN
      BY <3>3, <1>4
    <3>4. CASE fromBroker' = <<l, g>> /\ retained["light"] \in BOOLEAN /\ retained["gate"] \in BOOLEAN
      BY <3>4, <1>4
    <3> QED BY <1>3, <3>1, <3>2, <3>3, <3>4
  <2>2. unkept' \in BOOLEAN
    BY <1>1 DEF DevicesIInv, DevicesTypeOK
  <2> QED BY <1>1, <2>1, <2>2 DEF DevicesIInv, DevicesTypeOK
<1>6. LinkCarries' /\ PressIsLast'
  BY <1>1, <1>2 DEF LinkCarries, PressIsLast
<1>7. TakenBack'
  BY <1>1 DEF DevicesIInv, TakenBack, ZeroUnderway
<1>8. BroughtIsNew'
  <2> SUFFICES ASSUME NEW i \in DOMAIN fromBroker',
                      fromBroker'[i].topic = "gate", fromBroker'[i].on, ~fromBroker'[i].live
               PROVE  /\ ~gate' /\ (~moved \/ zeroLost)' /\ NoneOf("gate", toBroker)'
                      /\ \A j \in DOMAIN fromBroker' : j < i => fromBroker'[j].topic = "light"
    BY DEF BroughtIsNew
  <2>1. /\ fromBroker'[i] = g /\ retained["gate"] \in BOOLEAN
        /\ \A j \in DOMAIN fromBroker' : j < i => fromBroker'[j].topic = "light"
    <3>1. CASE fromBroker' = <<>>
      BY <3>1
    <3>2. CASE fromBroker' = <<l>> /\ retained["light"] \in BOOLEAN
      BY <3>2, <1>4
    <3>3. CASE fromBroker' = <<g>> /\ retained["gate"] \in BOOLEAN
      BY <3>3, <1>4
    <3>4. CASE fromBroker' = <<l, g>> /\ retained["light"] \in BOOLEAN /\ retained["gate"] \in BOOLEAN
      BY <3>4, <1>4
    <3> QED BY <1>3, <3>1, <3>2, <3>3, <3>4
  <2>2. retained["gate"] = TRUE
    BY <1>4, <2>1
  <2>3. NoneOf("gate", toBroker') /\ ~ZeroUnderway
    BY <1>1, <1>2 DEF ZeroUnderway, NoneOf
  <2> QED BY <1>1, <2>1, <2>2, <2>3 DEF DevicesIInv, TakenBack
<1> QED BY <1>5, <1>6, <1>7, <1>8 DEF DevicesIInv

(* Every step of devices, broker and clients.                               *)
LEMMA DevicesNextIInv == DevicesIInv /\ [DevicesNext]_devVars => DevicesIInv'
<1> SUFFICES ASSUME DevicesIInv, [DevicesNext]_devVars PROVE DevicesIInv'
  OBVIOUS
<1>1. CASE Toggle
  <2>1. light \in BOOLEAN
    BY DEF DevicesIInv, DevicesTypeOK
  <2>2. (~light) \in BOOLEAN
    BY <2>1
  <2>3. PressLight(~light) /\ Publish("light", ~light)
    BY <1>1 DEF Toggle
  <2> QED BY <2>2, <2>3, PressSteps
<1>2. CASE \E on \in BOOLEAN : LongPress(on)
  BY <1>2, PressSteps DEF LongPress, SetPublishes
<1>3. CASE \E t \in Topics, on, retain \in BOOLEAN : Command(t, on, retain)
  BY <1>3, DevCommandSteps
<1>4. CASE OnMsgRecv
  BY <1>4, OnMsgRecvSteps
<1>5. CASE Broker
  BY <1>5, BrokerSteps
<1>6. CASE GateTimer
  BY <1>6, GateTimerSteps
<1>7. CASE Connect
  BY <1>7, ConnectSteps
<1>8. CASE Disconnect \/ DaemonRestart
  BY <1>8, LostSteps
<1>9. CASE UNCHANGED devVars
  BY <1>9 DEF devVars, DevicesIInv, DevicesTypeOK, LinkCarries, PressIsLast, TakenBack, BroughtIsNew,
     LastLight, NoneOf, ZeroUnderway
<1> QED BY <1>1, <1>2, <1>3, <1>4, <1>5, <1>6, <1>7, <1>8, <1>9
        DEF DevicesNext, DevCommand, DevStep

(* With nothing on its way the light is as the last press left it.          *)
LEMMA DevicesPressHolds == DevicesIInv => PressHolds
  BY DEF DevicesIInv, PressIsLast, PressHolds, LastLight, NoneOf

(* Only a message moves the gate, and one that was brought is new to it.    *)
LEMMA DevicesGateObeys ==
  DevicesIInv /\ [DevicesNext]_devVars =>
    [~gate /\ gate' => Head(fromBroker).live \/ ~moved \/ zeroLost]_devVars
<1> SUFFICES ASSUME DevicesIInv, DevicesNext, ~gate, gate'
             PROVE  Head(fromBroker).live \/ ~moved \/ zeroLost
  OBVIOUS
<1>1. OnMsgRecv
  BY DEF DevicesNext, DevCommand, DevStep, Toggle, LongPress, PressLight, Command, Broker, GateTimer,
     Connect, Disconnect, DaemonRestart
<1>2. /\ fromBroker # <<>> /\ Head(fromBroker).topic = "gate" /\ Head(fromBroker).on
  BY <1>1 DEF OnMsgRecv
<1>3. 1 \in DOMAIN fromBroker /\ Head(fromBroker) = fromBroker[1]
  BY <1>2 DEF DevicesIInv, DevicesTypeOK
<1> QED BY <1>2, <1>3 DEF DevicesIInv, BroughtIsNew

(* The inductive invariant of devices, link and broker.                     *)
THEOREM DevicesInvariance == DevicesSpec => []DevicesIInv
<1> QED BY DevicesInitIInv, DevicesNextIInv, PTL DEF DevicesSpec

(* Well-typedness for messages queued without bound.                        *)
THEOREM DevicesTypeCorrect == DevicesSpec => []DevicesTypeOK
<1>1. DevicesIInv => DevicesTypeOK
  BY DEF DevicesIInv
<1> QED BY <1>1, DevicesInvariance, PTL

(* Across presses, commands, lost connections and restarts: echoes never    *)
(* undo the last press, and the gate never repeats a command that was taken *)
(* back (onMsgRecv, set, trigger).                                          *)
THEOREM DevicesObeyOnce == DevicesSpec => DevicesObey
<1>1. DevicesSpec => []PressHolds
  BY DevicesInvariance, DevicesPressHolds, PTL
<1>2. DevicesSpec => GateObeys
  BY DevicesInvariance, DevicesGateObeys, PTL DEF DevicesSpec, GateObeys
<1> QED BY <1>1, <1>2, PTL DEF DevicesObey

-----------------------------------------------------------------------------
(* The upload to a node (Bootloader).                                       *)

(* Of the page the tool is sending: chunks sent, and taken by the node.     *)
SentNr  == IF toolAt = "data" THEN chunkNr - 1 ELSE Chunks
TakenNr == IF mob13 = NoFrame THEN SentNr ELSE SentNr - 1
Spoilt  == \E i \in 1..pageIn : page[i] = Junk
Flashed(n) == \A q \in 1..n : flash[q] = Page(q)

(* A node that downloads is awake, and its page is not full.                *)
NodeAwake == downloading => ndSt = "boot" /\ hearing /\ pageIn < Chunks

(* What a downloading node has of the page are the last chunks it was sent, *)
(* or there is junk between them; only one that has taken them all may      *)
(* still answer with the right sum, and that one has obeyed no command      *)
(* since its earlier pages were flashed.                                    *)
PageInOrder ==
  toolAt \in {"data", "sent_data"} =>
    /\ mob13 \in {NoFrame, IF SentNr = 0 THEN Frame("d", 0) ELSE Frame("data", <<pageNr, SentNr>>)}
    /\ mob13 = Frame("d", 0) => Flashed(pageNr - 1)
    /\ mob13 # Frame("d", 0) /\ downloading /\ ~Spoilt =>
         /\ pageIn <= TakenNr
         /\ \A i \in 1..pageIn : page[i] = <<pageNr, TakenNr - pageIn + i>>
         /\ pageIn = TakenNr => Flashed(pageNr - 1)
    /\ toolAt = "sent_data" /\ (\E i \in DOMAIN replies : replies[i].own /\ Accepted(replies[i])) =>
         page = Page(pageNr) /\ ~downloading /\ mob13 = NoFrame /\ Flashed(pageNr - 1)

(* A page that passed the sum is flashed by the command that follows.       *)
PageFlashed ==
  /\ toolAt = "d" /\ pageNr > 1 => mob13 = NoFrame /\ Flashed(pageNr - 1)
  /\ toolAt \in {"f", "sent_f"} =>
       /\ page = Page(pageNr) /\ ~downloading /\ Flashed(pageNr - 1)
       /\ mob13 \in {NoFrame, Frame("f", pageNr)} /\ (toolAt = "f" => mob13 = NoFrame)
  /\ toolAt = "sent_f" /\ (\E i \in DOMAIN replies : replies[i].own /\ Confirmed(replies[i])) =>
       mob13 = NoFrame /\ Flashed(pageNr)
  /\ toolAt = "done" => mob13 = NoFrame /\ Flashed(Pages)

BootloaderIInv ==
  /\ BootloaderTypeOK /\ mob14 \in {NoFrame, Frame("other", 0), Frame("c", 0)} /\ NodeAwake
  /\ ~excused => PageInOrder /\ PageFlashed
-----------------------------------------------------------------------------
(* Frames differ by their names and arguments.                              *)
LEMMA FrameEquals ==
  ASSUME NEW n, NEW a, NEW m, NEW b
  PROVE  /\ Frame(n, a).name = n /\ Frame(n, a).arg = a
         /\ Frame(n, a) = Frame(m, b) <=> n = m /\ a = b
<1>1. Frame(n, a).name = n /\ Frame(n, a).arg = a /\ Frame(m, b).name = m /\ Frame(m, b).arg = b
  BY DEF Frame
<1>2. n = m /\ a = b => Frame(n, a) = Frame(m, b)
  OBVIOUS
<1> QED BY <1>1, <1>2

(* A frame is data or a command, and none is the sign of no frame.          *)
LEMMA FrameTypes ==
  /\ NoFrame \notin Frames
  /\ \A f \in Frames : \/ f \in Commands /\ f.name # "data"
                       \/ f.name = "data" /\ f.arg \in Data /\ f = Frame("data", f.arg)
  /\ \A c \in Commands : /\ c.name \in {"h", "c", "s", "d", "other", "f"}
                         /\ c.name = "f" => c.arg \in 1..Pages
                         /\ c.name # "f" => c = Frame(c.name, 0)
<1>1. \A f \in Frames : f \in Commands \/ \E d \in Data : f = Frame("data", d)
  BY DEF Frames
<1>2. \A c \in Commands : \/ \E n \in {"h", "c", "s", "d", "other"} : c = Frame(n, 0)
                          \/ \E p \in 1..Pages : c = Frame("f", p)
  BY DEF Commands
<1>3. \A c \in Commands : /\ c.name \in {"h", "c", "s", "d", "other", "f"}
                          /\ c.name = "f" => c.arg \in 1..Pages
                          /\ c.name # "f" => c = Frame(c.name, 0)
  BY <1>2, FrameEquals
<1>4. \A f \in Frames : \/ f \in Commands /\ f.name # "data"
                        \/ f.name = "data" /\ f.arg \in Data /\ f = Frame("data", f.arg)
  BY <1>1, <1>3, FrameEquals
<1> QED BY <1>3, <1>4, BootloaderAssumption

(* A page without junk whose sum is right has the chunks of the page.       *)
LEMMA SumHasNoJunk ==
  ASSUME NEW p \in 1..Pages, NEW x, NEW i \in 1..Chunks, Sum(x) = Sum(Page(p))
  PROVE  x[i] # Junk
<1>1. x[i] \in Sum(Page(p))
  BY DEF Sum
<1>2. PICK j \in 1..Chunks : x[i] = Page(p)[j]
  BY <1>1 DEF Sum
<1>3. x[i] \in Data
  BY <1>2 DEF Page, Data
<1> QED BY <1>3, BootloaderAssumption

(* What is said, and that no sum is empty.                                  *)
LEMMA AnswersSaid ==
  /\ \A n \in Names, a \in SUBSET (Data \cup {Junk}), o \in BOOLEAN : Said(n, a, o) \in Answer
  /\ \A n, a, o : Said(n, a, o).name = n /\ Said(n, a, o).arg = a /\ Said(n, a, o).own = o
  /\ \A p : Sum(p) # {}
<1>1. \A p : p[1] \in Sum(p)
  BY BootloaderAssumption DEF Sum
<1> QED BY <1>1 DEF Said, Answer

(* At first nothing is uploaded.                                            *)
LEMMA BootloaderInitIInv == BootloaderInit => BootloaderIInv
<1> SUFFICES ASSUME BootloaderInit PROVE BootloaderIInv
  OBVIOUS
<1> USE BootloaderAssumption
<1>1. BootloaderTypeOK
  <2>1. pageIn \in 0..Chunks /\ pageNr \in 1..Pages /\ chunkNr \in 1..Chunks /\ faults \in 0..MaxFaults
    BY DEF BootloaderInit
  <2>2. page \in [1..Chunks -> Data \cup {Junk}]
        /\ flash \in [1..Pages -> [1..Chunks -> Data \cup {Junk}]]
    BY DEF BootloaderInit
  <2>3. replies \in Seq(Answer)
    BY DEF BootloaderInit
  <2> QED BY <2>1, <2>2, <2>3 DEF BootloaderInit, BootloaderTypeOK
<1>2. PageInOrder /\ PageFlashed /\ NodeAwake /\ mob14 = NoFrame
  BY DEF BootloaderInit, PageInOrder, PageFlashed, NodeAwake
<1> QED BY <1>1, <1>2 DEF BootloaderIInv

(* An answer is added for the tool to read, or thrown away.                 *)
LEMMA ReplyAdds ==
  ASSUME replies \in Seq(Answer), NEW f \in Answer, Arrive(f)
  PROVE  /\ replies' \in Seq(Answer)
         /\ \A i \in DOMAIN replies' : \/ i \in DOMAIN replies /\ replies'[i] = replies[i]
                                       \/ replies'[i] = f
<1> HIDE DEF Answer
<1>2. CASE toolAt \in {"off", "done"}
  BY <1>2 DEF Arrive
<1>3. CASE toolAt \notin {"off", "done"}
  <2>1. replies' = Append(replies, f)
    BY <1>3 DEF Arrive
  <2> QED BY <2>1
<1> QED BY <1>2, <1>3

(* The node takes the next chunk of its page, from either kind of frame.    *)
LEMMA Downloads ==
  ASSUME BootloaderTypeOK, NodeAwake, downloading,
         NEW fr \in Frames, hearing', Download(fr)
  PROVE  /\ pageIn' = pageIn + 1 /\ pageIn' \in 0..Chunks /\ pageIn + 1 \in 1..Chunks
         /\ page' = [page EXCEPT ![pageIn + 1] = IF fr.name = "data" THEN fr.arg ELSE Junk]
         /\ page' \in [1..Chunks -> Data \cup {Junk}]
         /\ downloading' = (pageIn + 1 # Chunks) /\ UNCHANGED <<ndSt, flash>>
         /\ NodeAwake' /\ replies' \in Seq(Answer)
         /\ \A i \in DOMAIN replies' :
              \/ i \in DOMAIN replies /\ replies'[i] = replies[i]
              \/ replies'[i] = Said("d", Sum(page'), TRUE) /\ pageIn + 1 = Chunks
<1> USE BootloaderAssumption
<1>1. pageIn \in 0..Chunks /\ page \in [1..Chunks -> Data \cup {Junk}] /\ replies \in Seq(Answer)
      /\ pageIn < Chunks /\ ndSt = "boot"
  BY DEF BootloaderTypeOK, NodeAwake
<1>2. /\ page' = [page EXCEPT ![pageIn + 1] = IF fr.name = "data" THEN fr.arg ELSE Junk]
      /\ pageIn' = pageIn + 1 /\ UNCHANGED <<ndSt, flash>>
      /\ IF pageIn + 1 = Chunks THEN downloading' = FALSE /\ PageDone(Sum(page'))
                                ELSE UNCHANGED <<downloading, replies>>
  BY DEF Download, Silent
<1>3. pageIn + 1 \in 1..Chunks /\ pageIn' \in 0..Chunks
  BY <1>1, <1>2
<1>4. page' \in [1..Chunks -> Data \cup {Junk}]
  <2>1. fr.name = "data" => fr.arg \in Data
    BY FrameTypes
  <2> QED BY <1>1, <1>2, <1>3, <2>1
<1>5. downloading' = (pageIn + 1 # Chunks)
  BY <1>2
<1>6. NodeAwake'
  <2>1. ASSUME downloading' PROVE ndSt' = "boot" /\ pageIn' < Chunks
    <3>1. pageIn + 1 # Chunks
      BY <1>5, <2>1
    <3> QED BY <1>1, <1>2, <1>3, <3>1
  <2> QED BY <2>1 DEF NodeAwake
<1>7. /\ replies' \in Seq(Answer)
      /\ \A i \in DOMAIN replies' :
           \/ i \in DOMAIN replies /\ replies'[i] = replies[i]
           \/ replies'[i] = Said("d", Sum(page'), TRUE) /\ pageIn + 1 = Chunks
  <2>1. CASE pageIn + 1 = Chunks
    <3>1. Arrive(Said("d", Sum(page'), TRUE))
      BY <1>2, <2>1 DEF PageDone, Reply
    <3>2. Said("d", Sum(page'), TRUE) \in Answer
      <4>1. Sum(page') \in SUBSET (Data \cup {Junk}) /\ "d" \in Names
        BY <1>4 DEF Sum, Names
      <4> QED BY <4>1, AnswersSaid
    <3> QED BY <1>1, <2>1, <3>1, <3>2, ReplyAdds
  <2>2. CASE pageIn + 1 # Chunks
    BY <1>1, <1>2, <2>2
  <2> QED BY <2>1, <2>2
<1> QED BY <1>2, <1>3, <1>4, <1>5, <1>6, <1>7

(* The node obeys a command: only f writes the flash, only d starts a page, *)
(* and no answer to a command is the sum of a page.                         *)
LEMMA Obeys ==
  ASSUME BootloaderTypeOK, NEW cmd \in Commands, NEW broadcast \in BOOLEAN, hearing',
         Obey(cmd, broadcast)
  PROVE  /\ downloading' = (cmd.name = "d") /\ pageIn' \in 0..Chunks /\ page' = page
         /\ cmd.name = "d" => pageIn' = 0
         /\ cmd.name # "d" => pageIn' = pageIn
         /\ ndSt' \in {"boot", "app", "asleep"} /\ NodeAwake'
         /\ flash' = IF cmd.name = "f" THEN [flash EXCEPT ![cmd.arg] = page] ELSE flash
         /\ flash' \in [1..Pages -> [1..Chunks -> Data \cup {Junk}]]
         /\ replies' \in Seq(Answer)
         /\ \A i \in DOMAIN replies' :
              \/ i \in DOMAIN replies /\ replies'[i] = replies[i]
              \/ replies'[i].arg = {} /\ (replies'[i].name = "f" => cmd.name = "f")
<1> USE BootloaderAssumption
<1>1. /\ downloading' = (cmd.name = "d")
      /\ pageIn' = IF cmd.name = "d" THEN 0 ELSE pageIn
      /\ ndSt' = IF cmd.name = "h" THEN "asleep" ELSE IF cmd.name = "c" THEN "app" ELSE "boot"
      /\ flash' = IF cmd.name = "f" THEN [flash EXCEPT ![cmd.arg] = page] ELSE flash
      /\ page' = page
      /\ \/ replies' = replies
         \/ cmd.name \notin {"h", "d"} /\ Reply(IF cmd.name = "other" THEN "X" ELSE cmd.name, {})
  BY DEF Obey, Silent
<1>2. /\ pageIn \in 0..Chunks /\ page \in [1..Chunks -> Data \cup {Junk}] /\ replies \in Seq(Answer)
      /\ flash \in [1..Pages -> [1..Chunks -> Data \cup {Junk}]]
  BY DEF BootloaderTypeOK
<1>3. cmd.name \in {"h", "c", "s", "d", "other", "f"} /\ (cmd.name = "f" => cmd.arg \in 1..Pages)
  BY FrameTypes
<1>4. pageIn' \in 0..Chunks
  BY <1>1, <1>2
<1>5. flash' \in [1..Pages -> [1..Chunks -> Data \cup {Junk}]]
  BY <1>1, <1>2, <1>3
<1>6. NodeAwake'
  <2>1. CASE cmd.name = "d"
    <3>1. ndSt' = "boot" /\ pageIn' = 0
      BY <1>1, <2>1
    <3> QED BY <3>1 DEF NodeAwake
  <2>2. CASE cmd.name # "d"
    BY <1>1, <2>2 DEF NodeAwake
  <2> QED BY <2>1, <2>2
<1>7. /\ replies' \in Seq(Answer)
      /\ \A i \in DOMAIN replies' :
           \/ i \in DOMAIN replies /\ replies'[i] = replies[i]
           \/ replies'[i].arg = {} /\ (replies'[i].name = "f" => cmd.name = "f")
  <2>1. CASE replies' = replies
    BY <1>2, <2>1
  <2>2. CASE cmd.name \notin {"h", "d"} /\ Reply(IF cmd.name = "other" THEN "X" ELSE cmd.name, {})
    <3> DEFINE n == IF cmd.name = "other" THEN "X" ELSE cmd.name
    <3>1. n \in {"c", "s", "f", "X"} /\ (n = "f" => cmd.name = "f")
      BY <1>3, <2>2
    <3>2. Arrive(Said(n, {}, TRUE))
      BY <2>2 DEF Reply
    <3> HIDE DEF n
    <3>3. Said(n, {}, TRUE) \in Answer
      <4>1. n \in Names
        BY <3>1 DEF Names
      <4> QED BY <4>1, AnswersSaid
    <3>4. /\ replies' \in Seq(Answer)
          /\ \A i \in DOMAIN replies' : \/ i \in DOMAIN replies /\ replies'[i] = replies[i]
                                        \/ replies'[i] = Said(n, {}, TRUE)
      BY <1>2, <3>2, <3>3, ReplyAdds
    <3>5. Said(n, {}, TRUE).name = n /\ Said(n, {}, TRUE).arg = {}
      BY AnswersSaid
    <3> QED BY <3>1, <3>4, <3>5
  <2> QED BY <1>1, <2>1, <2>2
<1> QED BY <1>1, <1>4, <1>5, <1>6, <1>7

(* A turn of the node with a frame: asleep or in the application it ignores *)
(* it, else it is data or a command.                                        *)
LEMMA Serves ==
  ASSUME BootloaderTypeOK, NodeAwake, NEW fr \in Frames, NEW broadcast \in BOOLEAN,
         Serve(fr, broadcast)
  PROVE  /\ \/ ~downloading /\ UNCHANGED <<ndSt, downloading, pageIn, page, hearing, flash, replies>>
            \/ downloading /\ hearing' /\ Download(fr)
            \/ /\ ~downloading /\ hearing'
               /\ \E cmd \in Commands : (fr.name # "data" => cmd = fr) /\ Obey(cmd, broadcast)
         /\ ndSt' \in {"boot", "app", "asleep"} /\ downloading' \in BOOLEAN /\ hearing' \in BOOLEAN
         /\ pageIn' \in 0..Chunks /\ page' \in [1..Chunks -> Data \cup {Junk}]
         /\ flash' \in [1..Pages -> [1..Chunks -> Data \cup {Junk}]] /\ replies' \in Seq(Answer)
         /\ NodeAwake'
<1>1. CASE ndSt # "boot"
  <2>1. ~downloading /\ UNCHANGED <<ndSt, downloading, pageIn, page, hearing, flash, replies>>
    BY <1>1 DEF Serve, Silent, NodeAwake
  <2> QED BY <2>1 DEF BootloaderTypeOK, NodeAwake
<1>2. CASE ndSt = "boot" /\ downloading
  <2>1. hearing' = TRUE /\ Download(fr)
    BY <1>2 DEF Serve
  <2>2. /\ pageIn' \in 0..Chunks /\ page' \in [1..Chunks -> Data \cup {Junk}]
        /\ downloading' \in BOOLEAN /\ UNCHANGED <<ndSt, flash>> /\ NodeAwake' /\ replies' \in Seq(Answer)
    BY <1>2, <2>1, Downloads
  <2>3. /\ ndSt \in {"boot", "app", "asleep"}
        /\ flash \in [1..Pages -> [1..Chunks -> Data \cup {Junk}]]
    BY DEF BootloaderTypeOK
  <2> QED BY <1>2, <2>1, <2>2, <2>3
<1>3. CASE ndSt = "boot" /\ ~downloading
  <2>1. hearing' = TRUE
    BY <1>3 DEF Serve
  <2>2. PICK cmd \in Commands : (fr.name # "data" => cmd = fr) /\ Obey(cmd, broadcast)
    BY <1>3 DEF Serve
  <2>3. /\ downloading' \in BOOLEAN /\ pageIn' \in 0..Chunks /\ page' = page
        /\ ndSt' \in {"boot", "app", "asleep"} /\ NodeAwake'
        /\ flash' \in [1..Pages -> [1..Chunks -> Data \cup {Junk}]] /\ replies' \in Seq(Answer)
    BY <2>1, <2>2, Obeys
  <2>4. page \in [1..Chunks -> Data \cup {Junk}]
    BY DEF BootloaderTypeOK
  <2> QED BY <1>3, <2>1, <2>2, <2>3, <2>4
<1> QED BY <1>1, <1>2, <1>3

(* The node takes the tool's frame.                                         *)
LEMMA ReceiveKeepsOrder ==
  ASSUME BootloaderIInv, ~excused, mob13 # NoFrame, mob13' = NoFrame, Serve(mob13, FALSE),
         UNCHANGED toolVars
  PROVE  PageInOrder'
<1> USE BootloaderAssumption DEF toolVars
<1> SUFFICES ASSUME toolAt \in {"data", "sent_data"} PROVE PageInOrder'
  BY DEF PageInOrder
<1>1. /\ BootloaderTypeOK /\ NodeAwake /\ PageInOrder /\ mob13 \in Frames
      /\ pageIn \in 0..Chunks /\ page \in [1..Chunks -> Data \cup {Junk}]
      /\ pageNr \in 1..Pages /\ chunkNr \in 1..Chunks
  BY DEF BootloaderIInv, BootloaderTypeOK
<1>2. /\ SentNr \in 0..Chunks /\ SentNr' = SentNr /\ TakenNr' = SentNr /\ TakenNr = SentNr - 1
      /\ SentNr = Chunks => toolAt = "sent_data"
  BY <1>1 DEF SentNr, TakenNr
<1>3. mob13 = IF SentNr = 0 THEN Frame("d", 0) ELSE Frame("data", <<pageNr, SentNr>>)
  BY <1>1 DEF PageInOrder
<1>4. ~(toolAt = "sent_data" /\ \E i \in DOMAIN replies : replies[i].own /\ Accepted(replies[i]))
  BY <1>1 DEF PageInOrder
<1> SUFFICES
      /\ downloading' /\ ~Spoilt' =>
           /\ pageIn' <= SentNr
           /\ \A i \in 1..pageIn' : page'[i] = <<pageNr, SentNr - pageIn' + i>>
           /\ pageIn' = SentNr => Flashed(pageNr - 1)'
      /\ toolAt = "sent_data" /\ (\E i \in DOMAIN replies' : replies'[i].own /\ Accepted(replies'[i])) =>
           page' = Page(pageNr) /\ ~downloading' /\ Flashed(pageNr - 1)'
  <2>1. NoFrame # Frame("d", 0)
    <3>1. Frame("d", 0) \in Frames
      BY DEF Frames, Commands
    <3> QED BY <3>1, FrameTypes
  <2> QED BY <1>2, <2>1 DEF PageInOrder, Accepted
<1>6. CASE ~downloading /\ UNCHANGED <<ndSt, downloading, pageIn, page, hearing, flash, replies>>
  BY <1>4, <1>6 DEF Accepted
<1>7. CASE downloading /\ hearing' /\ Download(mob13)
  <2>1. /\ pageIn' = pageIn + 1 /\ pageIn + 1 \in 1..Chunks
        /\ page' = [page EXCEPT ![pageIn + 1] = IF mob13.name = "data" THEN mob13.arg ELSE Junk]
        /\ page' \in [1..Chunks -> Data \cup {Junk}]
        /\ downloading' = (pageIn + 1 # Chunks) /\ flash' = flash
        /\ \A i \in DOMAIN replies' :
             \/ i \in DOMAIN replies /\ replies'[i] = replies[i]
             \/ replies'[i] = Said("d", Sum(page'), TRUE) /\ pageIn + 1 = Chunks
    BY <1>1, <1>7, Downloads
  <2>2. \A i \in 1..pageIn : page'[i] = page[i]
    BY <1>1, <2>1
  <2>3. CASE SentNr = 0
    <3>1. page'[pageIn + 1] = Junk
      BY <1>1, <1>3, <2>1, <2>3, FrameEquals
    <3>2. Spoilt'
      BY <2>1, <3>1 DEF Spoilt
    <3>3. toolAt # "sent_data"
      BY <2>3 DEF SentNr
    <3> QED BY <3>2, <3>3
  <2>4. CASE SentNr # 0
    <3>1. page'[pageIn + 1] = <<pageNr, SentNr>>
      BY <1>1, <1>3, <2>1, <2>4, FrameEquals
    <3>2. mob13 # Frame("d", 0)
      BY <1>3, <2>4, FrameEquals
    <3>3. ASSUME ~Spoilt'
          PROVE  /\ pageIn' <= SentNr
                 /\ \A i \in 1..pageIn' : page'[i] = <<pageNr, SentNr - pageIn' + i>>
                 /\ pageIn' = SentNr => Flashed(pageNr - 1)'
      <4>1. ~Spoilt
        <5>1. SUFFICES ASSUME NEW i \in 1..pageIn PROVE page[i] # Junk
          BY DEF Spoilt
        <5>2. i \in 1..pageIn'
          BY <1>1, <2>1
        <5> QED BY <2>2, <3>3, <5>2 DEF Spoilt
      <4>2. /\ pageIn <= TakenNr
            /\ \A i \in 1..pageIn : page[i] = <<pageNr, TakenNr - pageIn + i>>
            /\ pageIn = TakenNr => Flashed(pageNr - 1)
        BY <1>1, <1>7, <3>2, <4>1 DEF PageInOrder
      <4>3. pageIn' <= SentNr /\ (pageIn' = SentNr => Flashed(pageNr - 1)')
        BY <1>1, <1>2, <2>1, <4>2 DEF Flashed
      <4>4. ASSUME NEW i \in 1..pageIn' PROVE page'[i] = <<pageNr, SentNr - pageIn' + i>>
        <5>1. CASE i = pageIn + 1
          BY <1>1, <1>2, <2>1, <3>1, <5>1
        <5>2. CASE i \in 1..pageIn
          <6>1. page'[i] = <<pageNr, TakenNr - pageIn + i>>
            BY <2>2, <4>2, <5>2
          <6>2. TakenNr - pageIn + i = SentNr - pageIn' + i
            BY <1>1, <1>2, <2>1, <5>2
          <6> QED BY <6>1, <6>2
        <5> QED BY <1>1, <2>1, <5>1, <5>2
      <4> QED BY <4>3, <4>4
    <3>4. ASSUME toolAt = "sent_data", NEW i \in DOMAIN replies',
                 replies'[i].own, Accepted(replies'[i])
          PROVE  page' = Page(pageNr) /\ ~downloading' /\ Flashed(pageNr - 1)'
      <4>1. replies'[i] = Said("d", Sum(page'), TRUE) /\ pageIn + 1 = Chunks
        BY <1>4, <2>1, <3>4
      <4>2. Sum(page') = Sum(Page(pageNr))
        <5>1. Said("d", Sum(page'), TRUE).arg = Sum(page')
          BY DEF Said
        <5> QED BY <3>4, <4>1, <5>1 DEF Accepted
      <4>3. ~Spoilt'
        <5>1. \A j \in 1..Chunks : page'[j] # Junk
          BY <1>1, <4>2, SumHasNoJunk
        <5>2. pageIn' = Chunks
          BY <2>1, <4>1
        <5> QED BY <5>1, <5>2 DEF Spoilt
      <4>4. SentNr = Chunks
        BY <3>4 DEF SentNr
      <4>5. \A j \in 1..Chunks : page'[j] = <<pageNr, j>>
        <5>1. pageIn' = Chunks /\ SentNr = Chunks
          BY <2>1, <4>1, <4>4
        <5>2. \A j \in 1..Chunks : SentNr - pageIn' + j = j
          BY <5>1
        <5> QED BY <3>3, <4>3, <5>1, <5>2
      <4>6. page' = Page(pageNr)
        BY <2>1, <4>5 DEF Page
      <4> QED BY <2>1, <3>3, <4>1, <4>3, <4>4, <4>6
    <3> QED BY <3>3, <3>4
  <2> QED BY <2>3, <2>4
<1>8. CASE /\ ~downloading /\ hearing'
           /\ \E cmd \in Commands : (mob13.name # "data" => cmd = mob13) /\ Obey(cmd, FALSE)
  <2>1. PICK cmd \in Commands : (mob13.name # "data" => cmd = mob13) /\ Obey(cmd, FALSE)
    BY <1>8
  <2>2. /\ downloading' = (cmd.name = "d") /\ (cmd.name = "d" => pageIn' = 0)
        /\ flash' = IF cmd.name = "f" THEN [flash EXCEPT ![cmd.arg] = page] ELSE flash
        /\ \A i \in DOMAIN replies' :
              \/ i \in DOMAIN replies /\ replies'[i] = replies[i]
              \/ replies'[i].arg = {}
    BY <1>1, <1>8, <2>1, Obeys
  <2>3. ~(toolAt = "sent_data" /\ \E i \in DOMAIN replies' : replies'[i].own /\ Accepted(replies'[i]))
    BY <1>4, <2>2, AnswersSaid DEF Accepted
  <2>4. ASSUME downloading'
        PROVE  /\ pageIn' <= SentNr /\ \A i \in 1..pageIn' : page'[i] = <<pageNr, SentNr - pageIn' + i>>
               /\ pageIn' = SentNr => Flashed(pageNr - 1)'
    <3>1. cmd.name = "d" /\ pageIn' = 0 /\ flash' = flash
      BY <2>2, <2>4
    <3>2. pageIn' <= SentNr /\ \A i \in 1..pageIn' : FALSE
      BY <1>2, <3>1
    <3>3. ASSUME SentNr = 0 PROVE Flashed(pageNr - 1)'
      BY <1>1, <1>3, <3>1, <3>3 DEF PageInOrder, Flashed
    <3> QED BY <3>1, <3>2, <3>3
  <2> QED BY <2>3, <2>4
<1> QED BY <1>1, <1>6, <1>7, <1>8, Serves

(* What the tool's commands have flashed stays flashed when its frame is    *)
(* taken: the one that matters is the one that flashes the page.            *)
LEMMA ReceiveFlashes ==
  ASSUME BootloaderIInv, ~excused, mob13 # NoFrame, mob13' = NoFrame, Serve(mob13, FALSE),
         UNCHANGED toolVars
  PROVE  PageFlashed'
<1> USE BootloaderAssumption DEF toolVars
<1>1. /\ BootloaderTypeOK /\ NodeAwake /\ PageFlashed /\ mob13 \in Frames
      /\ page \in [1..Chunks -> Data \cup {Junk}] /\ pageNr \in 1..Pages
      /\ flash \in [1..Pages -> [1..Chunks -> Data \cup {Junk}]]
  BY DEF BootloaderIInv, BootloaderTypeOK
<1>2. CASE toolAt # "sent_f"
  BY <1>1, <1>2 DEF PageFlashed
<1>3. CASE toolAt = "sent_f"
  <2>1. /\ mob13 = Frame("f", pageNr) /\ page = Page(pageNr) /\ ~downloading /\ Flashed(pageNr - 1)
        /\ \A i \in DOMAIN replies : ~(replies[i].own /\ Confirmed(replies[i]))
    BY <1>1, <1>3 DEF PageFlashed
  <2>2. CASE UNCHANGED <<ndSt, downloading, pageIn, page, hearing, flash, replies>>
    BY <1>3, <2>1, <2>2 DEF PageFlashed, Flashed
  <2>3. CASE /\ hearing'
             /\ \E cmd \in Commands : (mob13.name # "data" => cmd = mob13) /\ Obey(cmd, FALSE)
    <3>1. mob13 \in Commands /\ mob13.name = "f" /\ mob13.arg = pageNr /\ Obey(mob13, FALSE)
      <4>1. mob13.name = "f" /\ mob13.arg = pageNr
        BY <2>1, FrameEquals
      <4> QED BY <2>3, <4>1
    <3>2. downloading' = FALSE /\ page' = page /\ flash' = [flash EXCEPT ![pageNr] = page]
      BY <1>1, <2>3, <3>1, Obeys
    <3>3. Flashed(pageNr)'
      BY <1>1, <2>1, <3>2 DEF Flashed
    <3>4. Flashed(pageNr - 1)'
      BY <1>1, <3>3 DEF Flashed
    <3> QED BY <1>3, <2>1, <3>2, <3>3, <3>4 DEF PageFlashed
  <2> QED BY <1>1, <2>1, <2>2, <2>3, Serves
<1> QED BY <1>2, <1>3

(* A broadcast is junk to a node that downloads, and writes no flash.       *)
LEMMA BroadcastSpoils ==
  ASSUME BootloaderIInv, ~excused, mob13 = NoFrame, mob13' = NoFrame, mob14 # NoFrame,
         Serve(mob14, TRUE), UNCHANGED toolVars
  PROVE  PageInOrder' /\ PageFlashed'
<1> USE BootloaderAssumption DEF toolVars
<1>1. /\ BootloaderTypeOK /\ NodeAwake /\ PageInOrder /\ PageFlashed
      /\ pageIn \in 0..Chunks /\ page \in [1..Chunks -> Data \cup {Junk}] /\ pageNr \in 1..Pages
      /\ mob14 \in {Frame("other", 0), Frame("c", 0)}
  BY DEF BootloaderIInv, BootloaderTypeOK
<1>2. mob14 \in Frames /\ mob14.name \in {"other", "c"}
  BY <1>1, FrameEquals DEF Frames, Commands
<1>3. NoFrame # Frame("d", 0) /\ NoFrame # Frame("f", pageNr)
  <2>1. Frame("d", 0) \in Frames /\ Frame("f", pageNr) \in Frames
    BY <1>1 DEF Frames, Commands
  <2> QED BY <2>1, FrameTypes
<1>4. SentNr' = SentNr /\ TakenNr' = TakenNr
  BY DEF SentNr, TakenNr
<1>5. CASE UNCHANGED <<ndSt, downloading, pageIn, page, hearing, flash, replies>>
  BY <1>1, <1>4, <1>5 DEF PageInOrder, PageFlashed, Flashed, Spoilt, Accepted
<1>6. CASE downloading /\ hearing' /\ Download(mob14)
  <2>1. /\ pageIn' = pageIn + 1 /\ pageIn + 1 \in 1..Chunks
        /\ page' = [page EXCEPT ![pageIn + 1] = Junk] /\ flash' = flash
        /\ \A i \in DOMAIN replies' :
             \/ i \in DOMAIN replies /\ replies'[i] = replies[i]
             \/ replies'[i] = Said("d", Sum(page'), TRUE)
    BY <1>1, <1>2, <1>6, Downloads
  <2>2. page'[pageIn + 1] = Junk
    BY <1>1, <2>1
  <2>3. Spoilt'
    BY <2>1, <2>2 DEF Spoilt
  <2>4. Sum(page') # Sum(Page(pageNr))
    BY <1>1, <2>1, <2>2, SumHasNoJunk
  <2>6. ~(toolAt = "sent_data" /\ \E i \in DOMAIN replies' : replies'[i].own /\ Accepted(replies'[i]))
    <3>1. SUFFICES ASSUME toolAt = "sent_data", NEW i \in DOMAIN replies', replies'[i].own,
                          Accepted(replies'[i])
                   PROVE  FALSE
      OBVIOUS
    <3>2. ~(i \in DOMAIN replies /\ replies'[i] = replies[i])
      BY <1>1, <1>6, <3>1 DEF PageInOrder
    <3>3. replies'[i] = Said("d", Sum(page'), TRUE)
      BY <2>1, <3>2
    <3>4. Said("d", Sum(page'), TRUE).arg = Sum(page')
      BY DEF Said
    <3> QED BY <2>4, <3>1, <3>3, <3>4 DEF Accepted
  <2>7. PageInOrder'
    BY <1>3, <2>3, <2>6 DEF PageInOrder, Accepted
  <2> QED BY <1>1, <1>6, <2>1, <2>7 DEF PageFlashed, Flashed
<1>7. CASE /\ ~downloading /\ hearing'
           /\ \E cmd \in Commands : (mob14.name # "data" => cmd = mob14) /\ Obey(cmd, TRUE)
  <2>1. mob14 \in Commands /\ Obey(mob14, TRUE)
    BY <1>2, <1>7
  <2>2. /\ downloading' = FALSE /\ page' = page /\ flash' = flash
        /\ \A i \in DOMAIN replies' :
             \/ i \in DOMAIN replies /\ replies'[i] = replies[i]
             \/ replies'[i].arg = {} /\ replies'[i].name # "f"
    BY <1>1, <1>2, <1>7, <2>1, Obeys
  <2>3. PageInOrder'
    <3>1. ASSUME toolAt = "sent_data", NEW i \in DOMAIN replies',
                 replies'[i].own, Accepted(replies'[i])
          PROVE  page = Page(pageNr) /\ Flashed(pageNr - 1)
      <4>1. replies'[i].arg # {}
        BY <3>1, AnswersSaid DEF Accepted
      <4>2. i \in DOMAIN replies /\ replies[i].own /\ Accepted(replies[i])
        BY <2>2, <3>1, <4>1 DEF Accepted
      <4> QED BY <1>1, <3>1, <4>2 DEF PageInOrder
    <3> QED BY <1>3, <2>2, <3>1 DEF PageInOrder, Accepted, Flashed
  <2>4. PageFlashed'
    BY <1>1, <2>2 DEF PageFlashed, Flashed, Confirmed
  <2> QED BY <2>3, <2>4
<1> QED BY <1>1, <1>2, <1>5, <1>6, <1>7, Serves
-----------------------------------------------------------------------------
(* A node's turn keeps the invariant.                                       *)
LEMMA ReceiveIInv == BootloaderIInv /\ Receive /\ UNCHANGED faults => BootloaderIInv'
<1> SUFFICES ASSUME BootloaderIInv, Receive, UNCHANGED faults PROVE BootloaderIInv'
  OBVIOUS
<1>1. /\ BootloaderTypeOK /\ NodeAwake /\ UNCHANGED <<toolVars, excused>>
      /\ mob14 \in {NoFrame, Frame("other", 0), Frame("c", 0)}
      /\ mob13 # NoFrame => mob13 \in Frames
      /\ mob14 # NoFrame => mob14 \in Frames
  BY FrameTypes DEF BootloaderIInv, BootloaderTypeOK, Receive, Frames
<1>2. CASE /\ mob13 # NoFrame /\ mob13' = NoFrame /\ Serve(mob13, FALSE) /\ UNCHANGED mob14
  <2>1. BootloaderTypeOK' /\ NodeAwake'
    <3>1. /\ ndSt' \in {"boot", "app", "asleep"} /\ downloading' \in BOOLEAN /\ hearing' \in BOOLEAN
          /\ pageIn' \in 0..Chunks /\ page' \in [1..Chunks -> Data \cup {Junk}]
          /\ flash' \in [1..Pages -> [1..Chunks -> Data \cup {Junk}]] /\ replies' \in Seq(Answer)
          /\ NodeAwake'
      BY <1>1, <1>2, Serves
    <3> QED BY <1>1, <1>2, <3>1 DEF BootloaderTypeOK, toolVars
  <2>2. ~excused' => PageInOrder' /\ PageFlashed'
    BY <1>1, <1>2, ReceiveKeepsOrder, ReceiveFlashes
  <2> QED BY <1>1, <1>2, <2>1, <2>2 DEF BootloaderIInv
<1>3. CASE /\ mob13 = NoFrame /\ mob14 # NoFrame /\ mob14' = NoFrame
           /\ Serve(mob14, TRUE) /\ UNCHANGED mob13
  <2>1. BootloaderTypeOK' /\ NodeAwake'
    <3>1. /\ ndSt' \in {"boot", "app", "asleep"} /\ downloading' \in BOOLEAN /\ hearing' \in BOOLEAN
          /\ pageIn' \in 0..Chunks /\ page' \in [1..Chunks -> Data \cup {Junk}]
          /\ flash' \in [1..Pages -> [1..Chunks -> Data \cup {Junk}]] /\ replies' \in Seq(Answer)
          /\ NodeAwake'
      BY <1>1, <1>3, Serves
    <3> QED BY <1>1, <1>3, <3>1 DEF BootloaderTypeOK, toolVars
  <2>2. ~excused' => PageInOrder' /\ PageFlashed'
    BY <1>1, <1>3, BroadcastSpoils
  <2> QED BY <1>1, <1>3, <2>1, <2>2 DEF BootloaderIInv
<1> QED BY <1>2, <1>3, Zenon DEF Receive

(* The application started by the timeout, a reset and a broadcast leave    *)
(* what is stored and answered.                                             *)
LEMMA NodeStepsIInv ==
  BootloaderIInv /\ faults' \in 0..MaxFaults
    /\ (BootTimeout \/ (\E lost \in SUBSET (1..Chunks) : NodeReset(lost)) \/ (\E c \in {"other", "c"} : Broadcast(c)))
  => BootloaderIInv'
<1> SUFFICES ASSUME BootloaderIInv, faults' \in 0..MaxFaults,
                    \/ BootTimeout
                    \/ \E lost \in SUBSET (1..Chunks) : NodeReset(lost)
                    \/ \E c \in {"other", "c"} : Broadcast(c)
             PROVE  BootloaderIInv'
  OBVIOUS
<1> USE DEF toolVars
<1>1. /\ BootloaderTypeOK /\ NodeAwake /\ (~excused => PageInOrder /\ PageFlashed)
      /\ mob14 \in {NoFrame, Frame("other", 0), Frame("c", 0)}
  BY DEF BootloaderIInv
<1>2. CASE BootTimeout
  <2>1. BootloaderTypeOK' /\ NodeAwake'
    BY <1>1, <1>2 DEF BootTimeout, BootloaderTypeOK, NodeAwake
  <2>2. ~excused' => PageInOrder' /\ PageFlashed'
    BY <1>1, <1>2 DEF BootTimeout, PageInOrder, PageFlashed, SentNr, TakenNr, Spoilt, Flashed, Accepted, Confirmed
  <2> QED BY <1>1, <1>2, <2>1, <2>2 DEF BootloaderIInv, BootTimeout
<1>3. ASSUME NEW lost \in SUBSET (1..Chunks), NodeReset(lost) PROVE BootloaderIInv'
  <2>1. BootloaderTypeOK' /\ NodeAwake'
    BY <1>1, <1>3 DEF NodeReset, BootloaderTypeOK, NodeAwake
  <2>2. ASSUME ~excused' PROVE PageInOrder' /\ PageFlashed'
    <3>1. /\ ~excused /\ mob13' = NoFrame /\ ~downloading'
          /\ UNCHANGED <<pageIn, flash, toolAt, pageNr, chunkNr, replies>>
          /\ toolAt \in {"sent_data", "f", "sent_f"} => lost = {}
      BY <1>3, <2>2 DEF NodeReset
    <3>2. NoFrame # Frame("d", 0)
      <4>1. Frame("d", 0) \in Frames
        BY DEF Frames, Commands
      <4> QED BY <4>1, FrameTypes
    <3>3. lost = {} => page' = page
      <4>1. page \in [1..Chunks -> Data \cup {Junk}]
        BY <1>1 DEF BootloaderTypeOK
      <4> QED BY <1>3, <4>1 DEF NodeReset
    <3>4. PageInOrder'
      BY <1>1, <3>1, <3>2, <3>3 DEF PageInOrder, Flashed, Accepted
    <3> QED BY <1>1, <3>1, <3>3, <3>4 DEF PageFlashed, Flashed
  <2> QED BY <1>3, <2>1, <2>2 DEF BootloaderIInv, NodeReset
<1>4. ASSUME NEW c \in {"other", "c"}, Broadcast(c) PROVE BootloaderIInv'
  <2>1. mob14' \in {NoFrame, Frame("other", 0), Frame("c", 0)} /\ mob14' \in Commands
    BY <1>4 DEF Broadcast, Commands
  <2>2. BootloaderTypeOK' /\ NodeAwake'
    BY <1>1, <1>4, <2>1 DEF Broadcast, BootloaderTypeOK, NodeAwake
  <2>3. ~excused' => PageInOrder' /\ PageFlashed'
    BY <1>1, <1>4 DEF Broadcast, PageInOrder, PageFlashed, SentNr, TakenNr, Spoilt, Flashed, Accepted, Confirmed
  <2> QED BY <2>1, <2>2, <2>3 DEF BootloaderIInv
<1> QED BY <1>2, <1>3, <1>4

(* Each frame the tool sends is the next of what it means to flash.         *)
LEMMA ToolSendIInv == BootloaderIInv /\ ToolSend /\ UNCHANGED faults => BootloaderIInv'
<1> SUFFICES ASSUME BootloaderIInv, ToolSend, UNCHANGED faults PROVE BootloaderIInv'
  OBVIOUS
<1> USE BootloaderAssumption
<1>1. /\ BootloaderTypeOK /\ NodeAwake /\ (~excused => PageInOrder /\ PageFlashed)
      /\ mob14 \in {NoFrame, Frame("other", 0), Frame("c", 0)}
      /\ pageNr \in 1..Pages /\ chunkNr \in 1..Chunks
  BY DEF BootloaderIInv, BootloaderTypeOK
<1>2. /\ mob13 = NoFrame /\ replies' = <<>>
      /\ UNCHANGED <<ndSt, downloading, pageIn, page, hearing, mob14, flash, excused>>
  BY DEF ToolSend, Send
<1>3. /\ replies' \in Seq(Answer) /\ NodeAwake'
  BY <1>1, <1>2 DEF NodeAwake
<1>4. CASE toolAt = "s" /\ Send(Frame("s", 0)) /\ Goto("sent_s", 1, 1)
  <2>1. mob13' = Frame("s", 0) /\ toolAt' = "sent_s" /\ pageNr' = 1 /\ chunkNr' = 1
    BY <1>4 DEF Send, Goto
  <2>2. mob13' \in Frames
    BY <2>1 DEF Frames, Commands
  <2>3. BootloaderTypeOK'
    BY <1>1, <1>2, <1>3, <2>1, <2>2 DEF BootloaderTypeOK
  <2> QED BY <1>1, <1>2, <1>3, <2>1, <2>3 DEF BootloaderIInv, PageInOrder, PageFlashed
<1>5. CASE toolAt = "d" /\ Send(Frame("d", 0)) /\ Goto("data", pageNr, 1)
  <2>1. mob13' = Frame("d", 0) /\ toolAt' = "data" /\ pageNr' = pageNr /\ chunkNr' = 1
    BY <1>5 DEF Send, Goto
  <2>2. mob13' \in Frames
    BY <2>1 DEF Frames, Commands
  <2>3. BootloaderTypeOK'
    BY <1>1, <1>2, <1>3, <2>1, <2>2 DEF BootloaderTypeOK
  <2>4. SentNr' = 0
    BY <2>1 DEF SentNr
  <2>5. ~excused => Flashed(pageNr - 1)'
    <3>1. pageNr = 1 => Flashed(pageNr - 1)'
      BY <2>1 DEF Flashed
    <3>2. ~excused /\ pageNr > 1 => Flashed(pageNr - 1)'
      BY <1>1, <1>2, <1>5, <2>1 DEF PageFlashed, Flashed
    <3> QED BY <1>1, <3>1, <3>2
  <2>6. ~excused' => PageInOrder' /\ PageFlashed'
    BY <1>2, <2>1, <2>4, <2>5 DEF PageInOrder, PageFlashed
  <2> QED BY <1>1, <1>2, <1>3, <2>3, <2>6 DEF BootloaderIInv
<1>6. CASE /\ toolAt = "data" /\ Send(Frame("data", <<pageNr, chunkNr>>))
           /\ IF chunkNr < Chunks THEN Goto("data", pageNr, chunkNr + 1) ELSE Goto("sent_data", pageNr, 1)
  <2>1. /\ mob13' = Frame("data", <<pageNr, chunkNr>>) /\ pageNr' = pageNr
        /\ \/ chunkNr < Chunks /\ toolAt' = "data" /\ chunkNr' = chunkNr + 1
           \/ chunkNr = Chunks /\ toolAt' = "sent_data" /\ chunkNr' = 1
    BY <1>1, <1>6 DEF Send, Goto
  <2>2. mob13' \in Frames /\ mob13' # NoFrame /\ mob13' # Frame("d", 0) /\ NoFrame # Frame("d", 0)
    <3>1. <<pageNr, chunkNr>> \in Data
      BY <1>1 DEF Data
    <3>2. mob13' \in Frames /\ Frame("d", 0) \in Frames
      BY <2>1, <3>1 DEF Frames, Commands
    <3>3. mob13' # Frame("d", 0)
      BY <2>1, FrameEquals
    <3> QED BY <3>2, <3>3, FrameTypes
  <2>3. chunkNr' \in 1..Chunks
    BY <1>1, <2>1
  <2>4. BootloaderTypeOK'
    BY <1>1, <1>2, <1>3, <2>1, <2>2, <2>3 DEF BootloaderTypeOK
  <2>5. SentNr' = chunkNr /\ TakenNr' = chunkNr - 1 /\ TakenNr = chunkNr - 1
    BY <1>1, <1>2, <1>6, <2>1, <2>2 DEF SentNr, TakenNr
  <2>6. ASSUME ~excused PROVE PageInOrder' /\ PageFlashed'
    <3>1. mob13' = IF SentNr' = 0 THEN Frame("d", 0) ELSE Frame("data", <<pageNr', SentNr'>>)
      BY <1>1, <2>1, <2>5
    <3>2. downloading /\ ~Spoilt =>
           /\ pageIn <= TakenNr
           /\ \A i \in 1..pageIn : page[i] = <<pageNr, TakenNr - pageIn + i>>
           /\ pageIn = TakenNr => Flashed(pageNr - 1)
      BY <1>1, <1>2, <1>6, <2>2, <2>6 DEF PageInOrder
    <3>3. downloading' /\ ~Spoilt' =>
           /\ pageIn' <= TakenNr'
           /\ \A i \in 1..pageIn' : page'[i] = <<pageNr', TakenNr' - pageIn' + i>>
           /\ pageIn' = TakenNr' => Flashed(pageNr - 1)'
      BY <1>2, <2>1, <2>5, <3>2 DEF Flashed, Spoilt
    <3>4. DOMAIN replies' = {}
      BY <1>2
    <3>5. PageInOrder'
      BY <2>2, <3>1, <3>3, <3>4 DEF PageInOrder
    <3> QED BY <2>1, <3>5 DEF PageFlashed
  <2> QED BY <1>1, <1>2, <1>3, <2>4, <2>6 DEF BootloaderIInv
<1>7. CASE toolAt = "f" /\ Send(Frame("f", pageNr)) /\ Goto("sent_f", pageNr, 1)
  <2>1. mob13' = Frame("f", pageNr) /\ toolAt' = "sent_f" /\ pageNr' = pageNr /\ chunkNr' = 1
    BY <1>7 DEF Send, Goto
  <2>2. mob13' \in Frames
    BY <1>1, <2>1 DEF Frames, Commands
  <2>3. BootloaderTypeOK'
    BY <1>1, <1>2, <1>3, <2>1, <2>2 DEF BootloaderTypeOK
  <2>4. DOMAIN replies' = {}
    BY <1>2
  <2>5. ~excused' => PageInOrder' /\ PageFlashed'
    BY <1>1, <1>2, <1>7, <2>1, <2>4 DEF PageInOrder, PageFlashed, Flashed
  <2> QED BY <1>1, <1>2, <1>3, <2>3, <2>5 DEF BootloaderIInv
<1> QED BY <1>4, <1>5, <1>6, <1>7, Zenon DEF ToolSend

(* What the tool reads of an answer is what the node has done.              *)
LEMMA ToolReceiveIInv == BootloaderIInv /\ ToolReceive /\ UNCHANGED faults => BootloaderIInv'
<1> SUFFICES ASSUME BootloaderIInv, ToolReceive, UNCHANGED faults PROVE BootloaderIInv'
  OBVIOUS
<1> USE BootloaderAssumption
<1> DEFINE r == replies[1]
<1>1. /\ BootloaderTypeOK /\ NodeAwake /\ (~excused => PageInOrder /\ PageFlashed)
      /\ mob14 \in {NoFrame, Frame("other", 0), Frame("c", 0)}
      /\ pageNr \in 1..Pages /\ chunkNr \in 1..Chunks /\ replies \in Seq(Answer)
  BY DEF BootloaderIInv, BootloaderTypeOK
<1>2. /\ Expecting /\ replies # <<>> /\ replies' = Tail(replies) /\ UNCHANGED nodeVars
      /\ CASE toolAt = "sent_s" -> Goto(IF r.name = "s" THEN "d" ELSE "off", 1, 1)
           [] toolAt = "sent_data" -> Goto(IF Accepted(r) THEN "f" ELSE "off", pageNr, 1)
           [] OTHER -> IF ~Confirmed(r) THEN Goto("off", 1, 1)
                       ELSE IF pageNr < Pages THEN Goto("d", pageNr + 1, 1) ELSE Goto("done", 1, 1)
      /\ excused' = (excused \/ (~r.own /\ toolAt # "sent_s" /\ toolAt' # "off"))
  BY DEF ToolReceive
<1>3. 1 \in DOMAIN replies /\ replies' \in Seq(Answer)
  <2> HIDE DEF Answer
  <2> QED BY <1>1, <1>2
<1> HIDE DEF r
<1>4. /\ toolAt' \in {"off", "d", "f", "done"} /\ pageNr' \in 1..Pages /\ chunkNr' \in 1..Chunks
      /\ toolAt' = "d" => \/ pageNr' = 1
                          \/ toolAt = "sent_f" /\ Confirmed(r) /\ pageNr' = pageNr + 1
      /\ toolAt' = "f" => toolAt = "sent_data" /\ Accepted(r) /\ pageNr' = pageNr
      /\ toolAt' = "done" => toolAt = "sent_f" /\ Confirmed(r) /\ pageNr = Pages
  <2>1. CASE toolAt = "sent_s"
    <3>1. Goto(IF r.name = "s" THEN "d" ELSE "off", 1, 1)
      BY <1>2, <2>1
    <3>2. 1 \in 1..Pages /\ 1 \in 1..Chunks
      OBVIOUS
    <3> QED BY <3>1, <3>2 DEF Goto
  <2>2. CASE toolAt = "sent_data"
    <3>1. Goto(IF Accepted(r) THEN "f" ELSE "off", pageNr, 1)
      BY <1>2, <2>2
    <3> QED BY <1>1, <2>2, <3>1 DEF Goto
  <2>3. CASE toolAt = "sent_f"
    <3>1. IF ~Confirmed(r) THEN Goto("off", 1, 1)
          ELSE IF pageNr < Pages THEN Goto("d", pageNr + 1, 1) ELSE Goto("done", 1, 1)
      BY <1>2, <2>3
    <3> QED BY <1>1, <2>3, <3>1 DEF Goto
  <2> QED BY <1>2, <2>1, <2>2, <2>3 DEF Expecting
<1>5. BootloaderTypeOK' /\ NodeAwake'
  <2>1. r.own \in BOOLEAN /\ excused \in BOOLEAN
    <3>1. r \in Answer
      <4> HIDE DEF Answer
      <4> QED BY <1>1, <1>3 DEF r
    <3> QED BY <1>1, <3>1 DEF BootloaderTypeOK, Answer
  <2>2. excused' \in BOOLEAN
    BY <1>2, <2>1
  <2> QED BY <1>1, <1>2, <1>3, <1>4, <2>2 DEF BootloaderTypeOK, NodeAwake, nodeVars
<1>6. ASSUME ~excused' PROVE PageInOrder' /\ PageFlashed'
  <2> ~excused /\ (toolAt # "sent_s" /\ toolAt' # "off" => r.own)
    BY <1>2, <1>6
  <2>1. PageInOrder'
    BY <1>4 DEF PageInOrder
  <2>2. toolAt = "sent_data" /\ r.own /\ Accepted(r) =>
          page = Page(pageNr) /\ ~downloading /\ mob13 = NoFrame /\ Flashed(pageNr - 1)
    BY <1>1, <1>3, <1>6 DEF PageInOrder, r
  <2>3. toolAt = "sent_f" /\ r.own /\ Confirmed(r) => mob13 = NoFrame /\ Flashed(pageNr)
    BY <1>1, <1>3, <1>6 DEF PageFlashed, r
  <2>4. ASSUME toolAt' = "d", pageNr' > 1 PROVE mob13' = NoFrame /\ Flashed(pageNr - 1)'
    <3>1. mob13 = NoFrame /\ Flashed(pageNr) /\ pageNr' - 1 = pageNr
      <4>1. pageNr' # 1
        BY <2>4
      <4>2. toolAt = "sent_f" /\ Confirmed(r) /\ pageNr' = pageNr + 1
        BY <1>4, <2>4, <4>1
      <4>3. r.own
        BY <2>4, <4>2
      <4> QED BY <1>1, <2>3, <4>2, <4>3
    <3> QED BY <1>2, <3>1 DEF Flashed, nodeVars
  <2>5. ASSUME toolAt' = "f"
        PROVE  page' = Page(pageNr') /\ ~downloading' /\ Flashed(pageNr - 1)' /\ mob13' = NoFrame
    BY <1>2, <1>4, <2>2, <2>5 DEF Flashed, nodeVars
  <2>6. ASSUME toolAt' = "done" PROVE mob13' = NoFrame /\ Flashed(Pages)'
    BY <1>2, <1>4, <2>3, <2>6 DEF Flashed, nodeVars
  <2>7. toolAt' # "sent_f"
    BY <1>4
  <2> QED BY <2>1, <2>4, <2>5, <2>6, <2>7 DEF PageFlashed
<1> QED BY <1>1, <1>2, <1>5, <1>6 DEF BootloaderIInv, nodeVars

(* An upload begun or given up, and the frame of another node, promise no   *)
(* page.                                                                    *)
LEMMA OtherToolIInv ==
  BootloaderIInv /\ faults' \in 0..MaxFaults /\ (Upload \/ GiveUp \/ Foreign) => BootloaderIInv'
<1> SUFFICES ASSUME BootloaderIInv, faults' \in 0..MaxFaults, Upload \/ GiveUp \/ Foreign
             PROVE  BootloaderIInv'
  OBVIOUS
<1> USE BootloaderAssumption DEF nodeVars, toolVars
<1>1. /\ BootloaderTypeOK /\ NodeAwake /\ (~excused => PageInOrder /\ PageFlashed)
      /\ mob14 \in {NoFrame, Frame("other", 0), Frame("c", 0)} /\ replies \in Seq(Answer)
  BY DEF BootloaderIInv, BootloaderTypeOK
<1>2. CASE Upload
  <2>1. BootloaderTypeOK' /\ NodeAwake'
    <3>1. pageNr' \in 1..Pages /\ chunkNr' \in 1..Chunks /\ toolAt' = "s" /\ replies' = <<>>
      BY <1>2 DEF Upload, Goto
    <3>2. replies' \in Seq(Answer) /\ excused' = FALSE
          /\ UNCHANGED <<ndSt, downloading, pageIn, page, hearing, mob13, mob14, flash>>
      BY <1>2, <3>1 DEF Upload
    <3>3. NodeAwake'
      BY <1>1, <3>2 DEF NodeAwake
    <3> QED BY <1>1, <3>1, <3>2, <3>3 DEF BootloaderTypeOK
  <2> QED BY <1>1, <1>2, <2>1 DEF Upload, Goto, BootloaderIInv, PageInOrder, PageFlashed
<1>3. CASE GiveUp
  <2>1. BootloaderTypeOK' /\ NodeAwake'
    BY <1>1, <1>3 DEF GiveUp, BootloaderTypeOK, NodeAwake
  <2> QED BY <1>1, <1>3, <2>1 DEF GiveUp, BootloaderIInv, PageInOrder, PageFlashed
<1>4. CASE Foreign
  <2>1. UNCHANGED <<nodeVars, toolVars, excused>>
    BY <1>4 DEF Foreign
  <2>2. PICK f \in Stray : Arrive(f)
    BY <1>4 DEF Foreign
  <2>3. /\ f \in Answer /\ ~f.own
        /\ replies' \in Seq(Answer)
        /\ \A i \in DOMAIN replies' : \/ i \in DOMAIN replies /\ replies'[i] = replies[i]
                                      \/ replies'[i] = f
    <3>1. \/ \E n \in {"s", "f", "foreign"} : f = Said(n, {}, FALSE)
          \/ \E p \in 1..Pages : f = Said("foreign", Sum(Page(p)), FALSE)
      BY <2>2 DEF Stray
    <3>2. \A p \in 1..Pages : Sum(Page(p)) \in SUBSET (Data \cup {Junk})
      BY DEF Sum, Page, Data
    <3>3. {"s", "f", "foreign"} \subseteq Names /\ {} \in SUBSET (Data \cup {Junk})
      BY DEF Names
    <3>4. f \in Answer /\ ~f.own
      <4> HIDE DEF Names, Answer
      <4>1. \A n \in Names, a \in SUBSET (Data \cup {Junk}) :
              Said(n, a, FALSE) \in Answer /\ Said(n, a, FALSE).own = FALSE
        BY DEF Said, Answer
      <4>2. CASE \E n \in {"s", "f", "foreign"} : f = Said(n, {}, FALSE)
        BY <3>3, <4>1, <4>2
      <4>3. CASE \E p \in 1..Pages : f = Said("foreign", Sum(Page(p)), FALSE)
        BY <3>2, <3>3, <4>1, <4>3
      <4> QED BY <3>1, <4>2, <4>3
    <3> QED BY <1>1, <2>2, <3>4, ReplyAdds
  <2>4. BootloaderTypeOK' /\ NodeAwake'
    BY <1>1, <2>1, <2>3 DEF BootloaderTypeOK, NodeAwake
  <2>5. ASSUME ~excused PROVE PageInOrder' /\ PageFlashed'
    <3>1. \A i \in DOMAIN replies' :
             replies'[i].own => i \in DOMAIN replies /\ replies'[i] = replies[i]
      BY <2>3
    <3>2. \A r : Accepted(r)' <=> Accepted(r)
      BY <2>1 DEF Accepted
    <3>3. SentNr' = SentNr /\ TakenNr' = TakenNr /\ Spoilt' = Spoilt
          /\ \A n : Flashed(n)' = Flashed(n)
      BY <2>1 DEF SentNr, TakenNr, Spoilt, Flashed
    <3>4. PageInOrder'
      BY <1>1, <2>1, <2>5, <3>1, <3>3 DEF PageInOrder, Accepted, Flashed
    <3>5. PageFlashed'
      BY <1>1, <2>1, <2>5, <3>1 DEF PageFlashed, Flashed, Confirmed
    <3> QED BY <3>4, <3>5
  <2> QED BY <1>1, <2>1, <2>4, <2>5 DEF BootloaderIInv
<1> QED BY <1>2, <1>3, <1>4

(* Every step keeps the invariant.                                          *)
LEMMA BootloaderNextIInv == BootloaderIInv /\ [BootloaderNext]_bootVars => BootloaderIInv'
<1> SUFFICES ASSUME BootloaderIInv, [BootloaderNext]_bootVars PROVE BootloaderIInv'
  OBVIOUS
<1>1. faults \in 0..MaxFaults /\ MaxFaults \in Nat
  BY BootloaderAssumption DEF BootloaderIInv, BootloaderTypeOK
<1>2. CASE BootStep
  BY <1>1, <1>2, ReceiveIInv, ToolSendIInv, ToolReceiveIInv, OtherToolIInv DEF BootStep
<1>3. CASE BootTimeout /\ UNCHANGED faults
  BY <1>1, <1>3, NodeStepsIInv
<1>4. CASE BootFault
  <2>1. faults' \in 0..MaxFaults
    BY <1>1, <1>4 DEF BootFault
  <2> QED BY <1>4, <2>1, NodeStepsIInv, OtherToolIInv DEF BootFault
<1>5. CASE UNCHANGED bootVars
  BY <1>5 DEF bootVars, BootloaderIInv, BootloaderTypeOK, NodeAwake, PageInOrder, PageFlashed,
              SentNr, TakenNr, Spoilt, Flashed, Accepted, Confirmed
<1> QED BY <1>2, <1>3, <1>4, <1>5 DEF BootloaderNext

(* When the tool reports the upload as finished the flash holds the         *)
(* firmware, for whatever pages, whatever was on the bus and whatever reset *)
(* the node, but for what excuses it.                                       *)
LEMMA BootloaderFlashes == BootloaderIInv => FlashedAsSent
<1> SUFFICES ASSUME BootloaderIInv, toolAt = "done", ~excused
             PROVE  flash = [p \in 1..Pages |-> Page(p)]
  BY DEF FlashedAsSent
<1>1. flash \in [1..Pages -> [1..Chunks -> Data \cup {Junk}]] /\ \A q \in 1..Pages : flash[q] = Page(q)
  BY DEF BootloaderIInv, BootloaderTypeOK, PageFlashed, Flashed
<1> QED BY <1>1

(* The inductive invariant of node, bus and tool.                           *)
THEOREM BootloaderInvariance == BootloaderSpec => []BootloaderIInv
<1> QED BY BootloaderInitIInv, BootloaderNextIInv, PTL DEF BootloaderSpec

(* Well-typedness for any pages and chunks.                                 *)
THEOREM BootloaderTypeCorrect == BootloaderSpec => []BootloaderTypeOK
<1>1. BootloaderIInv => BootloaderTypeOK
  BY DEF BootloaderIInv
<1> QED BY <1>1, BootloaderInvariance, PTL

(* Whatever broadcasts, foreign frames, resets and abandoned uploads come   *)
(* between: an upload reported finished has flashed the firmware, unless a  *)
(* page's RAM was lost to the power or the application after its sum had    *)
(* been answered, or a foreign frame looked just like the answer the tool   *)
(* was waiting for (bootloader's main, run.py's upload_fw).                 *)
THEOREM UploadIsFlashed == BootloaderSpec => []FlashedAsSent
<1> QED BY BootloaderInvariance, BootloaderFlashes, PTL

-----------------------------------------------------------------------------
(* The composition.                                                         *)

HouseIInv ==
  /\ RekuIInv /\ SlowPwmIInv /\ SwitchesIInv /\ DimmerIInv /\ MqttClientIInv /\ DevicesIInv
  /\ BootloaderIInv

(* Each part moves by its own steps, or not at all.                         *)
LEMMA EachByItself ==
  [MCNext]_houseVars =>
    /\ [RekuNext]_rekuVars /\ [SlowPwmNext]_pwmVars /\ [SwitchesNext]_swVars /\ [DimmerNext]_dimVars
    /\ [MqttClientNext]_mqVars /\ [DevicesNext]_devVars /\ [BootloaderNext]_bootVars
BY DEF MCNext, houseVars, Only, InVentilation, InOutputs, InSwitch, InLights, InClient, InDevices,
       InUpload

(* The inductive invariant of the house: that of each part.                 *)
THEOREM HouseInvariance == MCSpec => []HouseIInv
<1>1. MCInit => HouseIInv
  BY RekuInitIInv, SlowPwmInitIInv, SwitchesInitIInv, DimmerInitIInv, MqttClientInitIInv,
     DevicesInitIInv, BootloaderInitIInv DEF MCInit, HouseIInv
<1>2. HouseIInv /\ [MCNext]_houseVars => HouseIInv'
  BY EachByItself, RekuNextIInv, SlowPwmNextIInv, SwitchesNextIInv, DimmerNextIInv,
     MqttClientNextIInv, DevicesNextIInv, BootloaderNextIInv DEF HouseIInv
<1> QED BY <1>1, <1>2, PTL DEF MCSpec

(* Well-typedness of the house, for any values of its constants.            *)
THEOREM HouseTypeCorrect == MCSpec => []HouseTypeOK
<1>1. HouseIInv => HouseTypeOK
  BY DEF HouseIInv, HouseTypeOK, RekuIInv, SlowPwmIInv, SwitchesIInv, DimmerIInv, MqttClientIInv,
         DevicesIInv, BootloaderIInv
<1> QED BY <1>1, HouseInvariance, PTL
==============================================================================
