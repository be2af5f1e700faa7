------------------------------ MODULE OneWire ------------------------------
(***************************************************************************)
(* Temperature measurement over the PRU: MeranieTeploty::meas and          *)
(* ow::OwThermNet on the measuring thread, the single-slot mailbox         *)
(* PruRxMsg the "bytd-pru" reader thread fills, the PRU firmware's one-    *)
(* wire state machine, and the sensors on the wire.                        *)
(*                                                                         *)
(* An operation takes the PRU a few milliseconds and the client waits 100   *)
(* ms, so the PRU has finished before the client gives up on it; it is the *)
(* answer that may be late, while the reader thread does not run.  A       *)
(* client that takes a late answer for its own goes on while the PRU is    *)
(* still busy.                                                             *)
(***************************************************************************)
EXTENDS Integers, Sequences

CONSTANTS
  NSensors,   \* sensors are 1..NSensors, in the order of MeranieTeploty::sensors
  None,       \* an empty slot, no command, no data
  MaxLate,    \* answers the reader may be behind when the client gives up
  BusFaults   \* TRUE: the wire may be shorted

Sensors == 1..NSensors
Txns    == 0..NSensors      \* 0: convert, s: read_scratchpad of sensor s

ASSUME OneWireAssumption ==
  /\ NSensors \in Nat \ {0}
  /\ MaxLate \in Nat
  /\ BusFaults \in BOOLEAN

(* The commands of a transaction, in order; each waits for an answer.       *)
Script(t) == IF t = 0 THEN <<"init", "skip", "convert">>
                      ELSE <<"init", "match", "rom", "scratchpad", "read">>
Writes   == {"skip", "convert", "match", "rom", "scratchpad"}
Commands == Writes \cup {"init", "read"}

Codes   == {"PresenceOk", "NoPresence", "WriteBitsOk", "ReadBitsOk", "ReadBitsFailure"}
Data    == [sensor : Sensors, fresh : BOOLEAN]
Answers == [code : Codes, data : Data \cup {None}]
Say(c)  == [code |-> c, data |-> None]

ASSUME NoneAssumption == None \notin Codes \cup Data \cup Answers

VARIABLES
  txn, step, waiting,  \* the client: transaction, command, sent and waiting
  result,              \* what readMeasured returned this round, None for failed
  convertLogged,       \* convert() logged an error this round
  box,                 \* PruRxMsg::buf
  pru,                 \* the command the PRU works on
  late,                \* answers the PRU sent and the reader has not stored yet
  heard,               \* what the sensors heard since the last reset
  fresh,               \* the sensors hold temperatures converted this round
  tardy                \* history: an answer of this or an earlier round was late

client == <<txn, step, waiting, result, convertLogged>>
vars == <<client, box, pru, late, heard, fresh, tardy>>

(* The types; the step stays within the transaction's commands.             *)
TypeOK ==
  /\ txn \in Txns /\ step \in 1..Len(Script(txn)) /\ waiting \in BOOLEAN
  /\ result \in [Sensors -> Data \cup {None}]
  /\ convertLogged \in BOOLEAN
  /\ box \in Answers \cup {None}
  /\ pru \in [op : Commands, txn : Txns, garbled : BOOLEAN] \cup {None}
  /\ pru # None /\ pru.op = "read" => pru.txn \in Sensors
  /\ late \in Seq(Answers)
  /\ heard \in Seq(Commands \cup {"noise"})
  /\ fresh \in BOOLEAN /\ tardy \in BOOLEAN

Nothing == [s \in Sensors |-> None]

Init ==
  /\ txn = 0 /\ step = 1 /\ waiting = FALSE
  /\ result = Nothing /\ convertLogged = FALSE
  /\ box = None /\ pru = None /\ late = <<>>
  /\ heard = <<>> /\ fresh = FALSE /\ tardy = FALSE

Command == Script(txn)[step]

-----------------------------------------------------------------------------
(* The PRU takes a command.  ow_init alone looks at the state first and     *)
(* answers eRspError, which Pru::respond drops; the others take over from   *)
(* the operation under way, which then never answers.                       *)
Taken(op) ==
  IF pru = None THEN [op |-> op, txn |-> txn, garbled |-> FALSE]
  ELSE IF op = "init" THEN pru
  ELSE [op |-> op, txn |-> txn, garbled |-> TRUE]

(* meas sleeps 750 ms after convert: the reader and the PRU have caught up. *)
Rested == txn = 1 /\ step = 1 => late = <<>> /\ pru = None

MutSend ==  \* presence() without checkClear
  /\ ~waiting /\ Rested /\ waiting' = TRUE
  /\ pru' = Taken(Command)
  /\ box' = box
  /\ IF txn = 0 /\ step = 1
       THEN /\ result' = Nothing /\ convertLogged' = FALSE /\ fresh' = FALSE
            /\ tardy' = (late # <<>>)
       ELSE UNCHANGED <<result, convertLogged, fresh, tardy>>
  /\ UNCHANGED <<txn, step, late, heard>>

(* A command is sent; presence() empties the mailbox first.  A new round    *)
(* starts with convert().                                                   *)
Send ==
  /\ ~waiting /\ Rested /\ waiting' = TRUE
  /\ pru' = Taken(Command)
  /\ box' = IF Command = "init" THEN None ELSE box
  /\ IF txn = 0 /\ step = 1
       THEN /\ result' = Nothing /\ convertLogged' = FALSE /\ fresh' = FALSE
            /\ tardy' = (late # <<>>)
       ELSE UNCHANGED <<result, convertLogged, fresh, tardy>>
  /\ UNCHANGED <<txn, step, late, heard>>

MutFinish(data) ==  \* the step is left where it was
  /\ result' = IF txn = 0 THEN result ELSE [result EXCEPT ![txn] = data]
  /\ txn' = (txn + 1) % (NSensors + 1)
  /\ step' = step

(* The end of a transaction, and of the round after the last sensor.        *)
Finish(data) ==
  /\ result' = IF txn = 0 THEN result ELSE [result EXCEPT ![txn] = data]
  /\ txn' = (txn + 1) % (NSensors + 1)
  /\ step' = 1

Continue == /\ step' = step + 1
            /\ UNCHANGED <<txn, result>>

MutPresent(code) == code # None     \* any answer means presence
Present(code) == code = "PresenceOk"

(* presence gives the transaction up unless it is answered by PresenceOk;   *)
(* the result of write_bits is not looked at; a scratchpad that is not one  *)
(* fails its check.                                                         *)
Handle(code, data) ==
  /\ convertLogged' = (convertLogged \/ (txn = 0 /\
       code # IF Command = "init" THEN "PresenceOk" ELSE "WriteBitsOk"))
  /\ CASE Command = "init" -> IF Present(code) THEN Continue ELSE Finish(None)
       [] Command = "read" -> Finish(IF code = "ReadBitsOk" THEN data ELSE None)
       [] OTHER -> IF step = Len(Script(txn)) THEN Finish(None) ELSE Continue

(* PruRxMsg::wait: an answer, whichever it is ...                           *)
Receive ==
  /\ waiting /\ box # None
  /\ Handle(box.code, box.data)
  /\ waiting' = FALSE /\ box' = None
  /\ UNCHANGED <<pru, late, heard, fresh, tardy>>

(* ... or none in time.                                                     *)
Timeout ==
  /\ waiting /\ box = None
  /\ pru = None /\ Len(late) <= MaxLate
  /\ Handle(None, None)
  /\ waiting' = FALSE
  /\ tardy' = (tardy \/ late # <<>>)
  /\ UNCHANGED <<box, pru, late, heard, fresh>>

(* Pru::respond, PruRxMsg::rx: an answer nobody took is overwritten.        *)
Deliver ==
  /\ late # <<>>
  /\ box' = Head(late) /\ late' = Tail(late)
  /\ UNCHANGED <<client, pru, heard, fresh, tardy>>

-----------------------------------------------------------------------------
(* The PRU finishes an operation: reset and presence ...                    *)
Answer(a) == /\ pru' = None /\ late' = Append(late, a)
             /\ UNCHANGED <<client, box, tardy>>

Reset(ok) ==
  /\ pru # None /\ pru.op = "init"
  /\ heard' = IF ok THEN <<>> ELSE <<"noise">>
  /\ Answer(Say(IF ok THEN "PresenceOk" ELSE "NoPresence"))
  /\ UNCHANGED fresh

MutWrite(ok) ==  \* the failure is answered like a success
  /\ pru # None /\ pru.op \in Writes
  /\ heard' = Append(heard, IF ok /\ ~pru.garbled THEN pru.op ELSE "noise")
  /\ fresh' = (fresh \/ heard' = <<"skip", "convert">>)
  /\ Answer(Say("WriteBitsOk"))

(* ... write_bits, which says nothing when the wire is short ...            *)
Write(ok) ==
  /\ pru # None /\ pru.op \in Writes
  /\ heard' = Append(heard, IF ok /\ ~pru.garbled THEN pru.op ELSE "noise")
  /\ fresh' = (fresh \/ heard' = <<"skip", "convert">>)
  /\ IF ok THEN Answer(Say("WriteBitsOk"))
           ELSE pru' = None /\ UNCHANGED <<client, box, late, tardy>>

(* ... and read_bits: the sensor that was selected answers.                 *)
Selected == heard = <<"match", "rom", "scratchpad">> /\ ~pru.garbled
Read(ok) ==
  /\ pru # None /\ pru.op = "read"
  /\ Answer([code |-> IF ok THEN "ReadBitsOk" ELSE "ReadBitsFailure",
             data |-> IF ok /\ Selected THEN [sensor |-> pru.txn, fresh |-> fresh]
                                        ELSE None])
  /\ UNCHANGED <<heard, fresh>>

Operate(ok) == Reset(ok) \/ Write(ok) \/ Read(ok)

(* A garbled operation may meet its predecessor's pulse on the wire.        *)
Shorted == /\ BusFaults \/ (pru # None /\ pru.garbled)
           /\ Operate(FALSE)

Next == Send \/ Receive \/ Timeout \/ Deliver \/ Operate(TRUE) \/ Shorted

Spec == Init /\ [][Next]_vars

-----------------------------------------------------------------------------
(* A temperature is never attributed to another sensor, whatever answers    *)
(* were late, taken for another command's, overwritten or lost: the wait    *)
(* takes any answer, and only presence()'s checkClear, the order of the     *)
(* answers and the codes stand against it.                                  *)
NotMixedUp == \A s \in Sensors : result[s] # None => result[s].sensor = s

(* A temperature left over from an earlier round is not passed on unless    *)
(* this round's convert logged an error (its result is ignored by meas), or *)
(* the client had given up on an answer that was still to come: that one    *)
(* can stand in for the answer to a write the PRU says nothing about.       *)
StaleIsLogged ==
  \A s \in Sensors : result[s] # None /\ ~result[s].fresh => convertLogged \/ tardy

(* A garbled operation, or an answer the client has given up on.            *)
Fault == Shorted \/ (Timeout /\ late # <<>>)
AllRead == txn = 0 /\ step = 1 /\ ~waiting =>
             \A s \in Sensors : result[s] = [sensor |-> s, fresh |-> TRUE]

(* A published temperature is of its sensor, and of this round unless an    *)
(* error was logged (meas, read_scratchpad, presence).                      *)
RoundsTrue == NotMixedUp /\ StaleIsLogged
=============================================================================
