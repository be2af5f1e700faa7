------------------------------ MODULE AvrSht11 ------------------------------
(***************************************************************************)
(* The SHT11 humidity sensor of a node: sht11::do_sm in avr/fw/main.cpp,   *)
(* polled every 4 ms, over the two-wire protocol of avr/fw/sht11_sm.cpp,   *)
(* which moves one edge of the lines per poll.  The sensor counts the same *)
(* edges; what the last edge of an operation tells it, and noise that may  *)
(* put the two out of step, is decided there.                              *)
(***************************************************************************)
EXTENDS AvrMob

CONSTANTS
  Sht,        \* the object
  ShtValues,  \* what the sensor measures
  NBits,      \* bits of a byte (8)
  NClear      \* clocks of a reset (12)

ASSUME ShtAssumption ==
  /\ Sht \in Objs /\ ShtValues \subseteq Readings \ {0}
  /\ NBits \in Nat \ {0} /\ NClear \in Nat /\ NClear > NBits

VARIABLES
  l2, quant,     \* sht11::state, and the quantity it is about
  op, pos,       \* sht11::state of sht11_sm.cpp: an operation and its edge
  clean,         \* the bytes received so far are those of the answer
  late,          \* isTimeout
  sens,          \* the sensor's side of the protocol
  failed         \* history: the last measurement failed

shtVars == <<l2, quant, op, pos, clean, late, sens, failed>>

Quantities == {"T", "RH"}
Parts == {"high", "low", "crc"}
Ops == {"init", "send", "recvAck", "recv", "reset", "fin"}
NoByte == <<"bad", "bad">>
Lost == <<"off", "off">>

ShtTypeOK ==
  /\ l2 \in {"disabled", "relax", "init", "command", "high", "low", "crc", "clear"}
  /\ quant \in Quantities
  /\ op \in Ops \cup {"idle", "error", "wait"} /\ pos \in 0..(3 * NBits + 2 * NClear + 5)
  /\ clean \in BOOLEAN /\ late \in BOOLEAN /\ failed \in BOOLEAN
  /\ sens \in ({"meas", "ready"} \X Quantities) \cup (Parts \X Quantities)
              \cup {Lost, <<"started", "none">>}

ShtInit ==
  /\ l2 = "disabled" /\ quant = "T" /\ op = "idle" /\ pos = 0
  /\ clean = FALSE /\ late = FALSE /\ sens = Lost /\ failed = FALSE

ShtReset ==
  /\ l2' = "disabled" /\ quant' = "T" /\ op' = "idle" /\ pos' = 0
  /\ clean' = FALSE /\ late' = FALSE /\ sens' = Lost /\ failed' = FALSE

-----------------------------------------------------------------------------
(* sht11_sm.cpp: the polls an operation takes.                              *)
Edges(o) ==
  CASE o = "init"    -> 7
    [] o = "send"    -> 3 * NBits + 3
    [] o = "recvAck" -> 3 * NBits + 5
    [] o = "recv"    -> 3 * NBits + 1
    [] o = "reset"   -> 2 * NClear + 1
    [] o = "fin"     -> 1

L1(o, p, s, b) == [op |-> o, pos |-> p, sens |-> s, byte |-> b]

Follow(p) == IF p = "high" THEN "low" ELSE "crc"
Sending(s) == s[1] \in Parts \cup {"ready"}
Part(s) == IF s[1] = "ready" THEN "high" ELSE s[1]

(* A sensor that measures or holds the data line does not see a start.      *)
Started(noise) == IF sens[1] = "meas" \/ Sending(sens) THEN sens
                  ELSE IF noise THEN Lost ELSE <<"started", "none">>

(* What the last edge of an operation does at both ends.                    *)
Complete(noise) ==
  CASE op = "init"  -> {L1("idle", 0, Started(noise), NoByte)}
    [] op = "send"  ->
         IF noise THEN {L1("error", 0, Lost, NoByte), L1("wait", 0, Lost, NoByte)}
                       \cup {L1("wait", 0, <<"meas", q>>, NoByte) : q \in Quantities}
         ELSE IF sens[1] = "started" THEN {L1("wait", 0, <<"meas", quant>>, NoByte)}
         ELSE {L1("error", 0, Lost, NoByte)}
    [] op \in {"recv", "recvAck"} ->
         IF noise \/ ~Sending(sens) THEN {L1("idle", 0, Lost, NoByte)}
         ELSE {L1("idle", 0,
                  IF op = "recv" \/ Part(sens) = "crc" THEN Lost ELSE <<Follow(Part(sens)), sens[2]>>,
                  <<Part(sens), sens[2]>>)}
    [] op = "reset" -> {L1("idle", 0, Lost, NoByte)}
    [] op = "fin"   -> {L1("idle", 0, sens, NoByte)}

(* do_smL1: it waits for the measurement as long as the data line is high.  *)
DoSmL1(noise) ==
  IF op \in {"idle", "error"} THEN {L1(op, pos, sens, NoByte)}
  ELSE IF op = "wait" THEN
    IF sens[1] = "ready" \/ noise THEN {L1("fin", 0, sens, NoByte)} ELSE {L1(op, pos, sens, NoByte)}
  ELSE IF pos + 1 < Edges(op) THEN {L1(op, pos + 1, sens, NoByte)}
  ELSE Complete(noise)

-----------------------------------------------------------------------------
(* do_sm.  L1 is run, and its outcome r may start the next operation.       *)
Keep1(r) == op' = r.op /\ pos' = r.pos
Begin1(o) == op' = o /\ pos' = 0
L2(s, q) == l2' = s /\ quant' = q
Same == UNCHANGED <<clean, failed, mobVars>>

ToClear == /\ Begin1("reset") /\ L2("clear", quant)
           /\ failed' = TRUE /\ UNCHANGED <<late, clean, mobVars>>

(* eval_state_helper: an error of L1 is left to the end of the relaxing.    *)
MutToRelax(r) == Keep1(r) /\ UNCHANGED <<l2, quant, late>> /\ Same   \* it stays
ToRelax(r) == /\ Keep1(r) /\ L2("relax", quant) /\ late' = FALSE
              /\ failed' = TRUE /\ UNCHANGED <<clean, mobVars>>

InRelax(r) ==
  /\ l2 = "relax" /\ late
  /\ IF r.op # "idle" THEN ToClear
     ELSE Begin1("init") /\ L2("init", "T") /\ UNCHANGED late /\ Same

InInit(r) ==
  /\ l2 = "init" /\ r.op = "idle"
  /\ Begin1("send") /\ L2("command", quant) /\ late' = FALSE /\ Same

InCommand(r) ==
  /\ l2 = "command"
  /\ IF r.op = "idle" THEN Begin1("recvAck") /\ L2("high", quant) /\ UNCHANGED late /\ Same
     ELSE IF r.op = "error" THEN ToRelax(r)
     ELSE IF late THEN ToClear
     ELSE Keep1(r) /\ UNCHANGED <<l2, quant, late>> /\ Same

InRead(r) ==
  /\ l2 \in {"high", "low"} /\ r.op = "idle"
  /\ clean' = ((clean \/ l2 = "high") /\ r.byte = <<l2, quant>>)
  /\ Begin1(IF l2 = "high" THEN "recvAck" ELSE "recv")
  /\ L2(Follow(l2), quant)
  /\ UNCHANGED <<late, failed, mobVars>>

(* The CRC covers the command and both bytes.                               *)
CrcOk(r) == clean /\ r.byte = <<"crc", quant>>

InCrc(r) ==
  /\ l2 = "crc" /\ r.op = "idle"
  /\ IF ~CrcOk(r) THEN ToClear
     ELSE IF quant = "T"
       THEN /\ late' = FALSE /\ Begin1("init") /\ L2("init", "RH") /\ Same
       ELSE /\ late' = FALSE /\ Keep1(r) /\ L2("relax", quant)
            /\ failed' = FALSE /\ UNCHANGED clean
            /\ \E v \in ShtValues : Report([iodata EXCEPT ![Sht] = v])

MutShown == Report(iodata)    \* without update_pvs
Shown == Report([iodata EXCEPT ![Sht] = Invalid])

InClear(r) ==
  /\ l2 = "clear"
  /\ Keep1(r)
  /\ Shown
  /\ IF r.op \in {"idle", "error"} THEN L2("relax", quant) /\ late' = FALSE
                                   ELSE UNCHANGED <<l2, quant, late>>
  /\ UNCHANGED <<clean, failed>>

Under(r) ==
  /\ l2 \in {"init", "high", "low", "crc"} /\ r.op # "idle"
  /\ IF r.op = "error" THEN ToRelax(r)
     ELSE Keep1(r) /\ UNCHANGED <<l2, quant, late>> /\ Same

ShtTick(noise) ==
  /\ Running /\ Sht \in conf
  /\ \E r \in DoSmL1(noise) :
       /\ sens' = r.sens
       /\ InRelax(r) \/ InInit(r) \/ InCommand(r) \/ InRead(r) \/ InCrc(r) \/ InClear(r) \/ Under(r)

(* run() enables it.                                                        *)
ShtEnable == /\ Running /\ Sht \in conf /\ l2 = "disabled"
             /\ l2' = "relax"
             /\ UNCHANGED <<quant, op, pos, clean, late, sens, failed, mobVars>>

(* 5 s between measurements; 500 ms for a command, of which its bits take a *)
(* fifth: only a sensor that is not ready yet can miss them.                *)
ShtElapse == /\ Running /\ ~late
             /\ \/ l2 = "relax"
                \/ l2 = "command" /\ op = "wait" /\ sens[1] # "ready"
             /\ late' = TRUE
             /\ UNCHANGED <<l2, quant, op, pos, clean, sens, failed, mobVars>>

SensorReady == /\ sens[1] = "meas"
               /\ sens' = <<"ready", sens[2]>>
               /\ UNCHANGED <<l2, quant, op, pos, clean, late, failed, mobVars>>

-----------------------------------------------------------------------------
(* A measurement that failed, on whichever of its edges, shows as invalid   *)
(* before the sensor is asked again: an old value is never left as current. *)
FailureShown == l2 = "init" /\ quant = "T" /\ failed => iodata[Sht] = Invalid

(* Node and sensor get back in step: without further noise, and with a      *)
(* sensor that measures in time, there is a value again, and it stays.      *)
ShtRecovers ==
  /\ Sht \in conf /\ <>[]Running
  /\ <>[][(ShtTick(TRUE) => ShtTick(FALSE)) /\ (ShtElapse => l2 = "relax")]_<<shtVars, mobVars>>
  => <>[](iodata[Sht] \in ShtValues)
=============================================================================
