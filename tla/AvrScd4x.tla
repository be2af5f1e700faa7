------------------------------ MODULE AvrScd4x ------------------------------
(***************************************************************************)
(* The SCD41 sensor of a node: scd4x::do_smL2 in avr/fw/main.cpp, polled   *)
(* every 4 ms, and the I2C driver in avr/fw/scd4x_sm.cpp, run by the TWI   *)
(* interrupt one byte at a time.  Errors are counted up to a restart of    *)
(* the measurement and from there on power cycles, until a good reading.   *)
(***************************************************************************)
EXTENDS AvrMob

CONSTANTS
  Scd,        \* the object
  ScdValues,  \* what the sensor measures
  SkipFirst,  \* skip_first_n
  WaitMax,    \* waitReadyCountMax
  ErrMax,     \* errCountMax
  MeasLen,    \* bytes of a measurement (9)
  ErrWidth    \* errCount is an int8_t: 128

ASSUME ScdAssumption ==
  /\ Scd \in Objs /\ ScdValues \subseteq Readings \ {0}
  /\ {SkipFirst, WaitMax} \subseteq Nat \ {0} /\ ErrMax \in Nat /\ ErrMax > 1
  /\ MeasLen \in Nat /\ MeasLen > 1 /\ ErrWidth \in Nat /\ ErrWidth > ErrMax + 1

VARIABLES
  scd,                  \* stateL2
  first, waits, errs,   \* first_n, waitReadyCount, errCount
  scdLate,              \* isTimeout
  io,                   \* scd4x::state
  twi, twiCmd, byteIn,  \* what the TWI is doing, for which command, byte_in
  buf,                  \* theData
  sensor,               \* the SCD41
  forced                \* history: started by command over a value, nothing read since

scdVars == <<scd, first, waits, errs, scdLate, io, twi, twiCmd, byteIn, buf, sensor, forced>>

Cmds == {"status", "start", "stop", "read"}
ReqWr == 2
ReqRd(c) == IF c = "status" THEN 3 ELSE IF c = "read" THEN MeasLen ELSE 0
Recovering == {"recover", "restart", "powerOff", "powerOn", "powerRelax"}

ScdTypeOK ==
  /\ scd \in {"disabled", "initializing", "relaxing", "waiting", "relaxRead", "reading"} \cup Recovering
  /\ first \in 0..SkipFirst /\ waits \in 0..(WaitMax + 1) /\ errs \in -ErrWidth..(ErrWidth - 1)
  /\ scdLate \in BOOLEAN /\ forced \in BOOLEAN
  /\ io \in {"idle", "pending", "error"}
  /\ twi \in {"none", "start", "slaw", "write", "rep", "slar", "read", "readLast"}
  /\ twiCmd \in Cmds /\ byteIn \in 0..(MeasLen + 3)
  /\ buf \in {"cmd", "ready", "notReady", "bad", "meas"}
  /\ sensor \in {"off", "idle", "busy", "ready"}

ScdInit ==
  /\ scd = "disabled" /\ first = 0 /\ waits = 0 /\ errs = 0 /\ scdLate = FALSE
  /\ io = "idle" /\ twi = "none" /\ twiCmd = "status" /\ byteIn = 0 /\ buf = "cmd"
  /\ sensor = "idle" /\ forced = FALSE

ScdReset ==
  /\ scd' = "disabled" /\ first' = 0 /\ waits' = 0 /\ errs' = 0 /\ scdLate' = FALSE
  /\ io' = "idle" /\ twi' = "none" /\ twiCmd' = "status" /\ byteIn' = 0 /\ buf' = "cmd"
  /\ sensor' \in IF sensor = "off" THEN {"idle"} ELSE {"idle", sensor}
  /\ forced' = FALSE

-----------------------------------------------------------------------------
(* scd4x_sm.cpp: start() after one of the init_ functions.  A transfer that *)
(* is under way goes on, now with the new command, or is started again.     *)
Prepare(c) == /\ twiCmd' = c /\ byteIn' = 0 /\ buf' = "cmd" /\ io' = "pending"
              /\ UNCHANGED sensor
Start(c) == twi' = "start" /\ Prepare(c)
NoIo == UNCHANGED <<io, twi, twiCmd, byteIn, buf, sensor>>

End(s) == twi' = "none" /\ io' = s
On(t) == twi' = t /\ UNCHANGED io

Accepts(c) == CASE c = "start" -> sensor = "idle"
                [] c = "read"  -> sensor = "ready"
                [] OTHER       -> sensor # "off"
Obeyed(c) == IF c = "start" THEN "busy" ELSE IF c = "stop" THEN "idle" ELSE sensor

(* TW_MT_SLA_ACK, TW_MT_DATA_ACK                                            *)
SentOne ==
  /\ twi \in {"slaw", "write"}
  /\ IF byteIn < ReqWr
       THEN On("write") /\ byteIn' = byteIn + 1 /\ UNCHANGED sensor
       ELSE IF ReqRd(twiCmd) > 0 THEN On("rep") /\ byteIn' = 0 /\ UNCHANGED sensor
       ELSE End("idle") /\ sensor' = Obeyed(twiCmd) /\ UNCHANGED byteIn
  /\ UNCHANGED buf

Answer(c, good) ==
  IF ~good THEN {"bad"}
  ELSE IF c = "status" THEN {IF sensor = "ready" THEN "ready" ELSE "notReady"} ELSE {"meas"}

(* TW_MR_DATA_ACK, TW_MR_DATA_NACK                                          *)
MutLastButOne == byteIn + 1 >= ReqRd(twiCmd)
LastButOne == byteIn + 2 >= ReqRd(twiCmd)
ReceivedOne(good) ==
  \/ /\ twi = "read" /\ UNCHANGED <<buf, sensor>>
     /\ IF byteIn < ReqRd(twiCmd)
          THEN byteIn' = byteIn + 1 /\ On(IF LastButOne THEN "readLast" ELSE "read")
          ELSE byteIn' = 0 /\ End("error")
  \/ /\ twi = "readLast" /\ byteIn' = 0
     /\ IF byteIn + 1 = ReqRd(twiCmd)
          THEN /\ End("idle") /\ buf' \in Answer(twiCmd, good)
               /\ sensor' = IF twiCmd = "read" THEN "busy" ELSE sensor
          ELSE End("error") /\ UNCHANGED <<buf, sensor>>

Acked == CASE twi \in {"slaw", "write"} -> sensor # "off" /\ (byteIn = ReqWr => Accepts(twiCmd))
           [] twi = "slar" -> Accepts(twiCmd)
           [] OTHER -> TRUE

(* The interrupt; ok: nothing disturbs the transfer.                        *)
ScdInterrupt(ok) ==
  /\ twi # "none"
  /\ IF ~(Acked /\ (ok \/ twi = "readLast"))
       THEN End("error") /\ UNCHANGED <<byteIn, buf, sensor>>
       ELSE \/ twi = "start" /\ On("slaw") /\ UNCHANGED <<byteIn, buf, sensor>>
            \/ SentOne
            \/ twi = "rep" /\ On("slar") /\ UNCHANGED <<byteIn, buf, sensor>>
            \/ twi = "slar" /\ On("read") /\ UNCHANGED <<byteIn, buf, sensor>>
            \/ ReceivedOne(ok)
  /\ UNCHANGED <<scd, first, waits, errs, scdLate, twiCmd, forced, mobVars>>

-----------------------------------------------------------------------------
(* do_smL2.                                                                 *)
Show(v) == Report([iodata EXCEPT ![Scd] = v])
To(s) == scd' = s /\ scdLate' = FALSE
Counts == UNCHANGED <<first, waits>>

(* error_handle: the count of five starts the measurement again, any higher *)
(* one switches the sensor off; a byte that overflows counts from below.    *)
MutMore == errs + 1
More == IF errs = ErrWidth - 1 THEN -ErrWidth ELSE errs + 1
Escalated == IF More < ErrMax THEN "relaxing" ELSE IF More = ErrMax THEN "recover" ELSE "powerOff"
HandleError ==
  /\ errs' = More
  /\ To(Escalated)
  /\ sensor' = IF Escalated = "powerOff" THEN "off" ELSE sensor
  /\ UNCHANGED <<io, twi, twiCmd, byteIn, buf>>

MutOnBad == Report(iodata)
OnBad == Show(Invalid)
Tried == forced' = FALSE

StartMeas == Start("start") /\ To("initializing") /\ first' = 0

Initializing ==
  /\ scd = "initializing" /\ io # "pending"
  /\ IF io = "error" THEN HandleError ELSE To("relaxing") /\ UNCHANGED errs /\ NoIo
  /\ Counts /\ UNCHANGED <<forced, mobVars>>

Relaxing ==
  /\ scd = "relaxing" /\ scdLate
  /\ Start("status") /\ To("waiting") /\ waits' = 0
  /\ UNCHANGED <<first, errs, forced, mobVars>>

(* data_ready; waitReadyCount is cleared by every Relaxing before it, and a *)
(* recoverError() here would be overruled by error_handle.                  *)
Waiting ==
  /\ scd = "waiting" /\ io # "pending"
  /\ UNCHANGED first
  /\ \/ /\ io = "idle" /\ buf = "ready"
        /\ To("relaxRead")
        /\ NoIo /\ UNCHANGED <<waits, errs, forced, mobVars>>
     \/ /\ io = "idle" /\ buf = "notReady"
        /\ waits' = waits + 1
        /\ IF waits < WaitMax THEN To("relaxing") /\ NoIo /\ UNCHANGED <<errs, forced, mobVars>>
                              ELSE OnBad /\ Tried /\ HandleError
     \/ /\ (io = "error" \/ buf = "bad")
              /\ OnBad /\ Tried /\ HandleError /\ UNCHANGED waits

RelaxRead ==
  /\ scd = "relaxRead" /\ scdLate
  /\ Start("read") /\ To("reading")
  /\ Counts /\ UNCHANGED <<errs, forced, mobVars>>

Reading ==
  /\ scd = "reading" /\ io # "pending"
  /\ Tried /\ UNCHANGED waits
  /\ IF io = "idle" /\ buf # "bad"
       THEN /\ errs' = 0 /\ To("relaxing") /\ NoIo
            /\ IF first < SkipFirst THEN first' = first + 1 /\ UNCHANGED mobVars
                                    ELSE UNCHANGED first /\ \E v \in ScdValues : Show(v)
       ELSE OnBad /\ HandleError /\ UNCHANGED first

Recover ==
  /\ scdLate /\ UNCHANGED <<errs, waits, forced, mobVars>>
  /\ \/ scd = "recover" /\ Start("stop") /\ To("restart") /\ UNCHANGED first
     \/ scd = "restart" /\ io # "pending" /\ StartMeas
     \/ /\ scd = "powerOff" /\ To("powerOn") /\ sensor' = "idle"
        /\ UNCHANGED <<io, twi, twiCmd, byteIn, buf, first>>
     \/ scd = "powerOn" /\ To("powerRelax") /\ NoIo /\ UNCHANGED first
     \/ scd = "powerRelax" /\ StartMeas

ScdTick == /\ Running /\ Scd \in conf
           /\ Initializing \/ Relaxing \/ Waiting \/ RelaxRead \/ Reading \/ Recover

ScdElapse == /\ Running /\ ~scdLate /\ scd \in {"relaxing", "relaxRead"} \cup Recovering
             /\ scdLate' = TRUE
             /\ UNCHANGED <<scd, first, waits, errs, io, twi, twiCmd, byteIn, buf, sensor, forced, mobVars>>

(* run() starts it; svc(): CmdSCD41Test disables it, for maintenance, and   *)
(* starts it, disabled or whatever it is doing.                             *)
ScdStart == /\ Running /\ Scd \in conf
            /\ twi' \in (IF twi = "none" THEN {"start"} ELSE {twi, "rep"}) /\ Prepare("start")
            /\ To("initializing") /\ first' = 0
            /\ forced' = (forced \/ (scd # "disabled" /\ iodata[Scd] # Invalid))
            /\ UNCHANGED <<waits, errs, mobVars>>

ScdDisable == /\ Running /\ Scd \in conf /\ scd # "disabled"
              /\ To("disabled") /\ Show(Invalid) /\ Tried /\ twi' = "none"
              /\ Counts /\ UNCHANGED <<errs, io, twiCmd, byteIn, buf, sensor>>

Measured == /\ sensor = "busy" /\ sensor' = "ready"
            /\ UNCHANGED <<scd, first, waits, errs, scdLate, io, twi, twiCmd, byteIn, buf, forced, mobVars>>

Brownout == /\ Scd \in conf /\ sensor \in {"busy", "ready"} /\ sensor' = "idle"
            /\ UNCHANGED <<scd, first, waits, errs, scdLate, io, twi, twiCmd, byteIn, buf, forced, mobVars>>

-----------------------------------------------------------------------------
(* While the sensor is being recovered, nothing it said before is shown as  *)
(* its value, on whichever of the ways into the recovery; only starts given *)
(* by command over a value count errors and leave the value as it is.       *)
RecoveringIsInvalid ==
  scd \in Recovering /\ Scd \in conf /\ ~forced => iodata[Scd] = Invalid

(* A sensor that keeps having data, over a bus that has stopped failing, is *)
(* shown in the end, through whatever recovery that takes; also when the    *)
(* error count has overflowed before.  Starts other than the recovery's own *)
(* are over then.                                                           *)
ScdRecovers ==
  /\ Scd \in conf /\ <>[]Running
  /\ <>[][(ScdInterrupt(FALSE) => ScdInterrupt(TRUE)) /\ ~Brownout
           /\ (ScdStart => Recover) /\ ~ScdDisable]_<<scdVars, mobVars>>
  /\ []<>(sensor = "ready") /\ <>[](scd # "disabled")
  => <>[](iodata[Scd] \in ScdValues)
=============================================================================
