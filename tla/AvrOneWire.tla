----------------------------- MODULE AvrOneWire -----------------------------
(***************************************************************************)
(* The one-wire thermometers of a node: meas::measure_ow_temp_sm in        *)
(* avr/fw/main.cpp, polled every 4 ms, and the driver under it in          *)
(* avr/fw/ow_sm.cpp, run by the interrupt of timer 0 one bit slot at a     *)
(* time.  The two share gResponseCode and gOwBitsCount.                    *)
(*                                                                         *)
(* What a write says is known when all its bits are out: the sensors take  *)
(* it, or miss it.  A read yields the scratchpad of the one that was       *)
(* addressed, or bits whose CRC is wrong.                                  *)
(***************************************************************************)
EXTENDS AvrMob, Sequences

CONSTANTS
  Therms,    \* the thermometers, in the order of gOwT_Obj
  TempsOf,   \* what each may read: disjoint sets
  Bits       \* bits of an operation (16, 24, 80 and 72 in the code)

T == 1..Len(Therms)
Temps == UNION {TempsOf[i] : i \in T}

ASSUME ThermAssumption ==
  /\ Therms \in Seq(Objs)
  /\ \A i \in T : TempsOf[i] \subseteq Readings \ {0} /\ TempsOf[i] # {}
  /\ \A i, j \in T : i # j => Therms[i] # Therms[j] /\ TempsOf[i] \cap TempsOf[j] = {}
  /\ Bits \in Nat /\ Bits > 1

VARIABLES
  meas, cur,      \* gState and gOwCurSensorIdx, from 0
  tmpMarked,      \* gTmpOwMobMarkedTx
  due,            \* ClockTimer65MS::isTimeout(gT0, ...)
  drv, slot, idx, \* sState, sBitIoState, sBitidx
  resp,           \* gResponseCode
  data,           \* what gOwData holds: a command, bits read, bits of a search
  power, wire,    \* sStrongPowerRequest, and what the node does to the wire
  picked,         \* the sensors that take what is written next; who answers
  scratch         \* what each sensor last converted

drvVars == <<drv, slot, idx, resp, data, power, wire, picked, scratch>>
owVars == <<meas, cur, tmpMarked, due, drvVars>>

Nobody == 0
Garbled == 0
Convert_T == <<"cmd", 0>>           \* SKIP_ROM, CONVERT
MutMatch(i) == <<"cmd", 1>>         \* always the first code
Match(i) == <<"cmd", i>>            \* MATCH_ROM and the code of i, READ_SCRATCHPAD
Got(v) == <<"read", v>>
Pair(b) == <<"search", b>>          \* the two bits of a search step
Failures == {"busFailure0", "busFailure1", "busFailure3", "noPresence", "rspError"}
Found(b) == <<"search00", "search0", "search1", "search11">>[b + 1]
Answers == {"presenceOk", "writeOk", "readOk"} \cup Failures \cup {Found(b) : b \in 0..3}

OwTypeOK ==
  /\ meas \in {"idling", "initConvert", "requesting", "converting", "initRead",
               "matching", "reading", "relaxing"}
  /\ cur \in 0..Len(Therms) /\ tmpMarked \subseteq Mobs /\ due \in BOOLEAN
  /\ drv \in {"idle", "resetPulse", "presence", "cleared", "read", "write", "search"}
  /\ slot \in {"done", "sample", "end"} /\ idx \in 0..IF Bits > 2 THEN Bits ELSE 2
  /\ resp \in Answers \cup {"busy", "none"}
  /\ data \in {Match(i) : i \in T \cup {0}} \cup {Got(v) : v \in Temps \cup {Garbled}}
              \cup {Pair(b) : b \in 0..3}
  /\ power \in {"no", "req", "keep"} /\ wire \in {"released", "pulled", "strong"}
  /\ picked \in T \cup {Nobody}
  /\ \A i \in T : scratch[i] \in TempsOf[i]

OwInit ==
  /\ meas = "idling" /\ cur = 0 /\ tmpMarked = {} /\ due = FALSE
  /\ drv = "idle" /\ slot = "done" /\ idx = 0 /\ resp = "none"
  /\ data = Got(Garbled) /\ power = "no" /\ wire = "released" /\ picked = Nobody
  /\ scratch = [i \in T |-> CHOOSE t \in TempsOf[i] : TRUE]

OwReset ==
  /\ meas' = "idling" /\ cur' = 0 /\ tmpMarked' = {} /\ due' = FALSE
  /\ drv' = "idle" /\ slot' = "done" /\ idx' = 0 /\ resp' = "none"
  /\ data' = Got(Garbled) /\ power' = "no" /\ wire' = "released" /\ picked' = Nobody
  /\ UNCHANGED scratch

-----------------------------------------------------------------------------
(* The driver.  An operation asked for while another runs is refused, and   *)
(* the refusal is its answer.                                               *)
Refuse == resp' = "rspError" /\ UNCHANGED <<drv, slot, idx, data, power, wire, picked, scratch>>

Reset(short) ==   \* ow::init
  IF drv # "idle" THEN Refuse
  ELSE /\ drv' = IF short THEN "idle" ELSE "resetPulse"
       /\ resp' = IF short THEN "busFailure0" ELSE "busy"
       /\ wire' = IF short THEN "released" ELSE "pulled"
       /\ UNCHANGED <<slot, idx, data, power, picked, scratch>>

(* start_write_bit: a one is a short pulse, a zero fills the slot;          *)
(* bus_releasy_after_write gives strong power in the last bit.              *)
AfterWrite == IF power = "keep" THEN "strong" ELSE "released"
WriteBit(one) ==
  /\ slot' = IF one THEN "end" ELSE "sample"
  /\ wire' = IF one THEN AfterWrite ELSE "pulled"
  /\ power' = IF one /\ power = "keep" THEN "no" ELSE power

Write(c, strong, one) ==   \* ow::write_bits
  IF drv # "idle" THEN Refuse
  ELSE /\ drv' = "write" /\ resp' = "busy" /\ idx' = 0 /\ data' = c
       /\ power' = IF strong THEN "req" ELSE "no"
       /\ slot' = IF one THEN "end" ELSE "sample"
       /\ wire' = IF one THEN "released" ELSE "pulled"
       /\ UNCHANGED <<picked, scratch>>

Read(op) ==   \* ow::read_bits, ow::search
  IF drv # "idle" THEN Refuse
  ELSE /\ drv' = op /\ resp' = "busy" /\ idx' = 0
       /\ data' = IF op = "search" THEN Pair(0) ELSE data
       /\ slot' = "sample" /\ wire' = "released"
       /\ UNCHANGED <<power, picked, scratch>>

Done(answer) == resp' = answer /\ drv' = "idle"

MutAbsent == drv' = "idle" /\ UNCHANGED resp
Absent == Done("noPresence")

(* The interrupt: the reset pulse and the presence of anybody.              *)
OwPulse ==
  /\ \/ drv = "resetPulse" /\ drv' = "presence" /\ UNCHANGED resp
     \/ drv = "resetPulse" /\ Done("busFailure1")
     \/ drv = "presence" /\ drv' = "cleared" /\ UNCHANGED resp
     \/ drv = "presence" /\ Absent
     \/ drv = "cleared" /\ \E a \in {"presenceOk", "busFailure3"} : Done(a)
  /\ wire' = "released"
  /\ picked' = Nobody
  /\ UNCHANGED <<slot, idx, data, power, scratch>>

(* The sensors, when the last bit of a command is out.                      *)
Taken(missed) ==
  IF missed THEN picked' = Nobody /\ UNCHANGED scratch
  ELSE IF data = Convert_T
    THEN /\ scratch' \in {s \in [T -> Temps] : \A i \in T : s[i] \in TempsOf[i]}
         /\ UNCHANGED picked
    ELSE picked' = data[2] /\ UNCHANGED scratch

LastBit == idx + 1 >= Bits
MutKeep == IF power = "req" /\ idx + 1 = Bits THEN "keep" ELSE power
Keep == IF power = "req" /\ idx + 1 = Bits - 1 THEN "keep" ELSE power

OwWriteSlot(one, missed) ==
  /\ drv = "write"
  /\ \/ /\ slot = "sample" /\ slot' = "end"
        /\ wire' = AfterWrite
        /\ power' = IF power = "keep" THEN "no" ELSE power
        /\ UNCHANGED <<drv, idx, resp, picked, scratch>>
     \/ /\ slot = "end" /\ LastBit
        /\ slot' = "done" /\ idx' = idx + 1
        /\ Done("writeOk") /\ Taken(missed)
        /\ UNCHANGED <<power, wire>>
     \/ /\ slot = "end" /\ ~LastBit
        /\ idx' = idx + 1
        /\ slot' = IF one THEN "end" ELSE "sample"
        /\ wire' = IF ~one THEN "pulled" ELSE IF Keep = "keep" THEN "strong" ELSE "released"
        /\ power' = IF one /\ Keep = "keep" THEN "no" ELSE Keep
        /\ UNCHANGED <<drv, resp, picked, scratch>>
  /\ UNCHANGED data

OwReadSlot(missed) ==
  /\ drv = "read"
  /\ \/ slot = "sample" /\ slot' = "end" /\ UNCHANGED <<drv, idx, resp, data>>
     \/ /\ slot = "end" /\ idx' = idx + 1
        /\ IF LastBit
             THEN /\ slot' = "done" /\ Done("readOk")
                  /\ data' = Got(IF missed \/ picked = Nobody THEN Garbled ELSE scratch[picked])
             ELSE slot' = "sample" /\ UNCHANGED <<drv, resp, data>>
  /\ UNCHANGED <<power, wire, picked, scratch>>

(* Two bits read, one written: the one both agree on, or the direction.     *)
OwSearchSlot(b, one) ==
  /\ drv = "search"
  /\ \/ /\ slot = "sample" /\ slot' = "end"
        /\ data' = IF idx < 2 THEN Pair(data[2] + b * (idx + 1)) ELSE data
        /\ wire' = "released"
        /\ UNCHANGED <<drv, idx, resp>>
     \/ /\ slot = "end" /\ idx = 0
        /\ idx' = 1 /\ slot' = "sample"
        /\ UNCHANGED <<drv, resp, data, wire>>
     \/ /\ slot = "end" /\ idx = 1 /\ data # Pair(3)
        /\ idx' = 2
        /\ slot' = IF one THEN "end" ELSE "sample"
        /\ wire' = IF one THEN AfterWrite ELSE "pulled"
        /\ UNCHANGED <<drv, resp, data>>
     \/ /\ slot = "end" /\ (idx = 2 \/ (idx = 1 /\ data = Pair(3)))
        /\ slot' = "done" /\ idx' = 2
        /\ Done(Found(data[2]))
        /\ UNCHANGED <<data, wire>>
  /\ UNCHANGED <<power, picked, scratch>>

OwInterrupt == /\ \/ OwPulse
                  \/ \E one, missed \in BOOLEAN : OwWriteSlot(one, missed)
                  \/ \E missed \in BOOLEAN : OwReadSlot(missed)
                  \/ \E b \in {0, 1}, one \in BOOLEAN : OwSearchSlot(b, one)
               /\ UNCHANGED <<meas, cur, tmpMarked, due, mobVars>>

-----------------------------------------------------------------------------
(* measure_ow_temp_sm.                                                      *)
Count == Len(Therms)
Present == Count > 0 /\ {Therms[i] : i \in T} \subseteq conf
Store(i, v) == [iodata EXCEPT ![Therms[i]] = v]

(* The changes of a round are kept in gTmpOwMobMarkedTx.                    *)
StoreLate(i, v) ==
  /\ iodata' = Store(i, v)
  /\ tmpMarked' = tmpMarked \cup Changed(Store(i, v))
  /\ UNCHANGED <<conf, prog, stage, mob, heard>>

Expected == IF meas \in {"initConvert", "initRead"} THEN "presenceOk"
            ELSE IF meas = "reading" THEN "readOk" ELSE "writeOk"

(* ow_error: the sensor whose turn it is becomes invalid.                   *)
AtFault == IF cur < Count THEN cur + 1 ELSE 1
MutAfterError == meas         \* the state is left as it is
AfterError == "relaxing"
OwError ==
  /\ resp \notin {"busy", Expected}
  /\ Report(Store(AtFault, Invalid))
  /\ cur' = AtFault - 1
  /\ due' = FALSE
  /\ meas' = AfterError
  /\ UNCHANGED <<tmpMarked, drvVars>>

Begin == /\ meas = "idling"
         /\ \E short \in BOOLEAN : Reset(short)
         /\ meas' = "initConvert"
         /\ UNCHANGED <<cur, tmpMarked, due, mobVars>>

RequestConvert == /\ meas = "initConvert" /\ resp = "presenceOk"
                  /\ \E one \in BOOLEAN : Write(Convert_T, TRUE, one)
                  /\ meas' = "requesting"
                  /\ UNCHANGED <<cur, tmpMarked, due, mobVars>>

Convert == /\ meas = "requesting" /\ resp = "writeOk"
           /\ meas' = "converting" /\ due' = FALSE
           /\ UNCHANGED <<cur, tmpMarked, drvVars, mobVars>>

Converted == /\ meas = "converting" /\ due
             /\ cur' = 0 /\ tmpMarked' = {}
             /\ \E short \in BOOLEAN : Reset(short)
             /\ meas' = "initRead"
             /\ UNCHANGED <<due, mobVars>>

(* MATCH_ROM and the code of one sensor, or SKIP_ROM when there is one.     *)
MatchRom == /\ meas = "initRead" /\ resp = "presenceOk"
            /\ \E one \in BOOLEAN : Write(Match(cur + 1), FALSE, one)
            /\ meas' = "matching"
            /\ UNCHANGED <<cur, tmpMarked, due, mobVars>>

ReadScratchpad == /\ meas = "matching" /\ resp = "writeOk"
                  /\ Read("read")
                  /\ meas' = "reading"
                  /\ UNCHANGED <<cur, tmpMarked, due, mobVars>>

NewValue == IF data = Got(Garbled) THEN Invalid ELSE data[2]

(* The last sensor of a round merges the marks into gMobMarkedTx.           *)
TakeValue ==
  /\ meas = "reading" /\ resp = "readOk"
  /\ StoreLate(cur + 1, NewValue)
  /\ cur' = cur + 1
  /\ IF cur + 1 < Count
       THEN /\ \E short \in BOOLEAN : Reset(short)
            /\ meas' = "initRead"
            /\ UNCHANGED marked
            /\ unreported' = unreported \cup (Changed(iodata') \ marked)
       ELSE /\ meas' = "relaxing" /\ UNCHANGED drvVars
            /\ marked' = marked \cup tmpMarked'
            /\ unreported' = unreported \ tmpMarked'
  /\ UNCHANGED due

Relax == /\ meas = "relaxing" /\ due
         /\ meas' = "idling"
         /\ UNCHANGED <<cur, tmpMarked, due, drvVars, mobVars>>

OwTick ==
  /\ Running /\ Present
  /\ \/ Begin \/ RequestConvert \/ Convert \/ Converted
     \/ MatchRom \/ ReadScratchpad \/ TakeValue \/ Relax
     \/ meas \in {"initConvert", "requesting", "initRead", "matching", "reading"} /\ OwError

(* 850 ms of conversion, 1 s between rounds.                                *)
OwElapse == /\ Running /\ Present /\ ~due /\ meas \in {"converting", "relaxing"}
            /\ due' = TRUE
            /\ UNCHANGED <<meas, cur, tmpMarked, drvVars, mobVars>>

(* svc(): the one-wire commands of the configuration tool, before the node  *)
(* runs; what they still do when it starts to run refuses its first reset.  *)
OwService ==
  /\ prog = "init2" /\ Present
  /\ \/ \E short \in BOOLEAN : Reset(short)
     \/ \E op \in {"read", "search"} : Read(op)
     \/ \E i \in T, one \in BOOLEAN : Write(Match(i), FALSE, one)
  /\ UNCHANGED <<meas, cur, tmpMarked, due, mobVars>>

-----------------------------------------------------------------------------
(* A temperature is never attributed to another sensor, and bits with a     *)
(* wrong CRC are never taken for one.                                       *)
NotAnothersTemperature ==
  \A i \in T : iodata[Therms[i]] \in TempsOf[i] \cup {0, Invalid}

(* The sensors are fed through the wire while they convert, and only then,  *)
(* or at the end of the command that starts it: any other time somebody     *)
(* else may pull it.                                                        *)
PowerWhileConverting ==
  /\ meas = "converting" => wire = "strong"
  /\ wire = "strong" => meas \in {"converting", "requesting"} /\ drv \in {"idle", "write"}

(* Every operation ends and is answered: nothing on the wire can leave the  *)
(* driver busy, which is all its callers wait for.                          *)
OwAnswers == resp = "busy" ~> resp # "busy"

(* The node never stops measuring, whatever the wire does.                  *)
RoundsGoOn == Present /\ Running ~> meas = "idling" \/ ~Running
=============================================================================
