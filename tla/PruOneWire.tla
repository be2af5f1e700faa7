----------------------------- MODULE PruOneWire -----------------------------
(***************************************************************************)
(* The one-wire half of the PRU firmware (pru/ow_sm.c) with the messages   *)
(* that drive it (pru/main.c): resets, slots and their bits, the strong    *)
(* pull-up, and what becomes of an operation when a command takes over     *)
(* from it.  Each action is a turn of the loop of main: one command, or    *)
(* one call of ow_sm_do.                                                   *)
(*                                                                         *)
(* The durations of ow_sm.c are compared with each other only, so time is  *)
(* how many of them have passed since sT0, and a turn passes at most one.  *)
(***************************************************************************)
EXTENDS Integers, Sequences

CONSTANTS
  OwCounts,    \* the bit counts of reads and writes
  Taking,      \* FALSE: commands come only when the machine is idle
  MaxTakings   \* bound: commands that take over, between two idle states

ASSUME PruOneWireAssumption ==
  /\ OwCounts \subseteq Nat \ {0} /\ OwCounts # {}
  /\ Taking \in BOOLEAN /\ MaxTakings \in Nat

VARIABLES
  owSt, bitIo,     \* sState, sBitIoState
  owIdx, power,    \* sBitidx, sStrongPowerRequest
  bits, dir,       \* gOwData: the bits in use, the direction of a search
  bitsCount,       \* gOwBitsCount
  since,           \* durations passed since sT0
  master,          \* the outputs: released, pulled low, strong pull-up
  sensor,          \* a sensor holds the wire low
  short, present,  \* the wire is shorted; there is a sensor
  op, owSaid,      \* history: the operation under way or done; its answers
  slots,           \* history: its slots, as the sensor saw them or sent them
  taken, sound     \* history: commands taken over since the last reset; no short

pruOwVars == <<owSt, bitIo, owIdx, power, bits, dir, bitsCount, since, master,
               sensor, short, present, op, owSaid, slots, taken, sound>>

(* The durations, in order; US2TICK.                                        *)
Read1 == 1        \* cDurReadInitT, cDurWrite1Pulse
Falling == 2      \* cDurFallingEdge
Sample == 3       \* cDurReadSample, cDurPresenceMinT
Write0 == 4       \* cDurWrite0Pulse
Slot == 5         \* cDurSlot
PresenceMax == 6  \* cDurPresenceMaxT
ResetPulse == 7   \* cDurResetPulse, cDurInitMasterRx
PresenceT == 8    \* cDurWaitPresenceT
Durations == 0..PresenceT

Indexes == UNION {0..n : n \in OwCounts \cup {2}}
OwWords == [Indexes -> {0, 1}]
ReadOk == "ReadBitsOk"
OwAnswerCodes == {"BusFailure0", "BusFailure1", "NoPresence", "BusFailureTimeout", "PresenceOk",
                  "WriteBitsOk", "WriteBitsFailure", ReadOk, "ReadBitsFailure",
                  "SearchResult00", "SearchResult0", "SearchResult1", "SearchResult11"}
Ops == {"none", "init", "read", "write", "powerWrite", "search"}

PruOwTypeOK ==
  /\ owSt \in {"idle", "falling", "reset", "presence", "cleared", "recovery", "read", "write", "search"}
  /\ bitIo \in {"ok", "error", "pulse", "sample", "slotEnd"}
  /\ owIdx \in Indexes /\ power \in {"none", "asked", "keep"}
  /\ bits \in OwWords /\ dir \in {0, 1} /\ bitsCount \in OwCounts \cup {0}
  /\ since \in Durations
  /\ master \in {"released", "low", "strong"}
  /\ sensor \in BOOLEAN /\ short \in BOOLEAN /\ present \in BOOLEAN
  /\ op \in Ops /\ owSaid \in Seq(OwAnswerCodes)
  /\ slots \in Seq({0, 1}) /\ taken \in 0..(MaxTakings + 1) /\ sound \in BOOLEAN

PruOwInit ==
  /\ owSt = "idle" /\ bitIo = "ok" /\ owIdx = 0 /\ power = "none"
  /\ bits = [i \in Indexes |-> 0] /\ dir = 0 /\ bitsCount = 0 /\ since = PresenceT
  /\ master = "released" /\ sensor = FALSE /\ short = FALSE /\ present \in BOOLEAN
  /\ op = "none" /\ owSaid = <<>> /\ slots = <<>> /\ taken = 0 /\ sound = TRUE

-----------------------------------------------------------------------------
(* bus_active, with a sensor that holds the wire or not.                    *)
Active(hold) == master = "low" \/ hold \/ short

(* The sensor's part: a presence pulse lasts from cDurPresenceMinT to       *)
(* cDurPresenceMaxT, a zero in a slot past the master's sample and not past *)
(* the slot.                                                                *)
Holds(now) ==
  LET least == IF owSt = "cleared" THEN Sample ELSE Write0
      most  == IF owSt = "cleared" THEN PresenceMax ELSE Slot
  IN IF ~sensor THEN {FALSE}
     ELSE IF owSt = "idle" THEN BOOLEAN
     ELSE IF owSt = "presence" \/ now < least THEN {TRUE}
     ELSE IF now >= most THEN {FALSE} ELSE BOOLEAN

Passed(now) == {now} \cup IF now < PresenceT THEN {now + 1} ELSE {}

Answered(code) == owSt' = "idle" /\ owSaid' = Append(owSaid, code)
Goes(s) == owSt' = s /\ UNCHANGED owSaid

-----------------------------------------------------------------------------
(* ow_init's states.  The wire falls at once, if it is not broken ...       *)
MutAfterBreak == "low"
AfterBreak == "released"
FallingEdge(now, hold) ==
  /\ owSt = "falling" /\ sensor' = hold
  /\ \/ Goes("reset") /\ since' = 0 /\ UNCHANGED master
     \/ /\ ~sound /\ since' = now
        /\ IF now >= Falling THEN Answered("BusFailure1") /\ master' = AfterBreak
                             ELSE Goes("falling") /\ UNCHANGED master

(* ... and when it is released again, a sensor answers.                     *)
ResetFinished(now, hold) ==
  /\ owSt = "reset" /\ since' = now
  /\ IF now >= ResetPulse
       THEN Goes("presence") /\ master' = "released" /\ sensor' = present
       ELSE Goes("reset") /\ sensor' = hold /\ UNCHANGED master

WaitPresence(now, hold) ==
  /\ owSt = "presence" /\ sensor' = hold /\ UNCHANGED master
  /\ IF now >= PresenceT THEN Goes("cleared") /\ since' = 0
                         ELSE Goes("presence") /\ since' = now

MutEarly(now) == FALSE      \* any free wire is a cleared one
Early(now) == now < Sample
PresenceCleared(now, hold) ==
  /\ owSt = "cleared" /\ sensor' = hold /\ since' = now /\ UNCHANGED master
  /\ IF Active(hold)
       THEN IF now >= PresenceMax THEN Answered("BusFailureTimeout") ELSE Goes("cleared")
       ELSE IF Early(now) THEN Answered("NoPresence") ELSE Goes("recovery")

Recovery(now, hold) ==
  /\ owSt = "recovery" /\ sensor' = hold /\ since' = now /\ UNCHANGED master
  /\ IF now >= ResetPulse THEN Answered("PresenceOk") ELSE Goes("recovery")

ResetSteps(now, hold) ==
  /\ \/ FallingEdge(now, hold) \/ ResetFinished(now, hold) \/ WaitPresence(now, hold)
     \/ PresenceCleared(now, hold) \/ Recovery(now, hold)
  /\ UNCHANGED <<bitIo, owIdx, power, bits, dir, bitsCount, op, slots, taken>>

-----------------------------------------------------------------------------
(* write_bit and read_bit: a slot goes from finished to finished.  A state  *)
(* of the other's slot ends in error.                                       *)
Finished == bitIo \in {"ok", "error"}

Pull(hold) ==
  IF Active(hold) THEN bitIo' = "error" /\ UNCHANGED <<master, since>>
                  ELSE master' = "low" /\ since' = 0

PulseOver(now) == now >= IF bits[owIdx] = 1 THEN Read1 ELSE Write0
MutLastBit == owSt = "write"
LastBit == owSt = "write" /\ owIdx = bitsCount - 1

WriteBit(now, hold) ==
  /\ sensor' = hold /\ UNCHANGED bits
  /\ \/ /\ Finished /\ Pull(hold)
        /\ (~Active(hold) => bitIo' = "sample") /\ UNCHANGED slots
     \/ /\ bitIo = "sample" /\ since' = now
        /\ IF PulseOver(now)
             THEN /\ master' = IF power = "keep" THEN "strong" ELSE "released"
                  /\ slots' = Append(slots, IF now < Sample THEN 1 ELSE 0)
                  /\ bitIo' = "slotEnd"
             ELSE UNCHANGED <<master, slots, bitIo>>
     \/ /\ bitIo = "slotEnd" /\ since' = now /\ UNCHANGED <<master, slots>>
        /\ bitIo' = IF now >= Slot THEN "ok" ELSE bitIo
     \/ /\ bitIo = "pulse" /\ since' = now /\ UNCHANGED <<master, slots>>
        /\ bitIo' = "error"
  /\ power' = IF bitIo = "sample" /\ PulseOver(now) /\ power = "keep" THEN "none"
              ELSE IF LastBit /\ power = "asked" /\ bitIo' \notin {"ok", "error"} THEN "keep"
              ELSE power

(* A search writes the bit of which its sensors have no other; if they do,   *)
(* the direction decides.                                                   *)
Branch == IF bits[0] # bits[1] THEN bits[0] ELSE IF bits[0] = 0 THEN dir ELSE bits[2]

(* The sensor answers to the slot it sees begin.                            *)
ReadBit(now, hold) ==
  /\ UNCHANGED power
  /\ \/ /\ Finished /\ Pull(hold)
        /\ IF Active(hold) THEN sensor' = hold /\ UNCHANGED slots
           ELSE /\ bitIo' = "pulse"
                /\ \E b \in IF present THEN {0, 1} ELSE {1} :
                     sensor' = (b = 0) /\ slots' = Append(slots, b)
        /\ UNCHANGED bits
     \/ /\ bitIo = "pulse" /\ sensor' = hold /\ since' = now /\ UNCHANGED <<bits, slots>>
        /\ IF now >= Read1 THEN master' = "released" /\ bitIo' = "sample"
                           ELSE UNCHANGED <<master, bitIo>>
     \/ /\ bitIo = "sample" /\ sensor' = hold /\ since' = now /\ UNCHANGED <<master, slots>>
        /\ IF now >= Sample
             THEN /\ bits' = [bits EXCEPT ![owIdx] = IF Active(hold) THEN 0 ELSE 1]
                  /\ bitIo' = "slotEnd"
             ELSE UNCHANGED <<bits, bitIo>>
     \/ /\ bitIo = "slotEnd" /\ sensor' = hold /\ since' = now /\ UNCHANGED <<master, slots>>
        /\ bitIo' = IF now >= Slot THEN "ok" ELSE bitIo
        /\ bits' = IF owSt = "search" /\ owIdx = 1 /\ now >= Slot THEN [bits EXCEPT ![2] = Branch]
                   ELSE bits

(* write_bits, read_bits and search, at the end of a bit; a write that      *)
(* meets a low wire answers nothing.                                        *)
MutAfterShort == "write"
AfterShort == "idle"
WriteBits(now, hold) ==
  /\ owSt = "write" /\ WriteBit(now, hold)
  /\ owIdx' = IF bitIo' = "ok" THEN owIdx + 1 ELSE owIdx
  /\ IF bitIo' = "error" THEN Goes(AfterShort)
     ELSE IF bitIo' = "ok" /\ owIdx' >= bitsCount THEN Answered("WriteBitsOk")
     ELSE Goes("write")
  /\ UNCHANGED <<dir, bitsCount, op, taken>>

ReadBits(now, hold) ==
  /\ owSt = "read" /\ ReadBit(now, hold)
  /\ owIdx' = IF bitIo' = "ok" THEN owIdx + 1 ELSE owIdx
  /\ IF bitIo' = "error" THEN Answered("ReadBitsFailure")
     ELSE IF bitIo' = "ok" /\ owIdx' >= bitsCount THEN Answered("ReadBitsOk")
     ELSE Goes("read")
  /\ UNCHANGED <<dir, bitsCount, op, taken>>

(* search: a bit and its complement are read, and a bit is written.         *)
TripletAnswer == [v \in {0, 1} \X {0, 1} |->
  CASE v = <<0, 0>> -> "SearchResult00" [] v = <<1, 0>> -> "SearchResult0"
    [] v = <<0, 1>> -> "SearchResult1"  [] v = <<1, 1>> -> "SearchResult11"]
Triplet(now, hold) ==
  /\ owSt = "search"
  /\ IF owIdx < 2 THEN ReadBit(now, hold) ELSE WriteBit(now, hold)
  /\ owIdx' = IF bitIo' = "ok" /\ owIdx < 2 THEN owIdx + 1 ELSE owIdx
  /\ IF bitIo' = "error" THEN Answered(IF owIdx < 2 THEN "ReadBitsFailure" ELSE "WriteBitsFailure")
     ELSE IF bitIo' = "ok" /\ (owIdx = 2 \/ (owIdx' = 2 /\ bits[0] = 1 /\ bits[1] = 1))
       THEN Answered(TripletAnswer[<<bits[0], bits[1]>>])
     ELSE Goes("search")
  /\ UNCHANGED <<dir, bitsCount, op, taken>>

Idle(now, hold) ==
  /\ owSt = "idle" /\ sensor' = hold /\ now = since
  /\ UNCHANGED <<owSt, bitIo, owIdx, power, bits, dir, bitsCount, since, master, op, owSaid, slots, taken>>

(* A turn of the loop without a command.                                    *)
Turn ==
  /\ \E now \in Passed(since) : \E hold \in Holds(now) :
       Idle(now, hold) \/ ResetSteps(now, hold) \/ WriteBits(now, hold) \/ ReadBits(now, hold)
       \/ Triplet(now, hold)
  /\ UNCHANGED <<short, present, sound>>

ShortChanges ==
  /\ short' = ~short /\ sound' = FALSE
  /\ UNCHANGED <<owSt, bitIo, owIdx, power, bits, dir, bitsCount, since, master, sensor, present,
                 op, owSaid, slots, taken>>

-----------------------------------------------------------------------------
(* process_message.  A reset waits for its turn: eRspError, which Pru drops,*)
(* and nothing else.                                                        *)
Begin(kind) ==
  /\ op' = kind /\ owSaid' = <<>> /\ slots' = <<>>
  /\ UNCHANGED <<sensor, short, present>>
Takes == /\ owSt = "idle" \/ (Taking /\ taken < MaxTakings)
         /\ taken' = IF owSt = "idle" THEN taken ELSE taken + 1
         /\ sound' = (owSt = "idle" /\ ~short /\ ~sensor)

CmdInit ==
  /\ owSt = "idle" /\ taken' = 0
  /\ sound' = ~Active(sensor)
  /\ op' = "init" /\ slots' = <<>>
  /\ IF Active(sensor)
       THEN /\ owSaid' = <<"BusFailure0">> /\ master' = "released"
            /\ sensor' \in {sensor, present} /\ UNCHANGED <<owSt, since>>
       ELSE /\ owSaid' = <<>> /\ master' = "low" /\ since' = 0 /\ owSt' = "falling"
            /\ UNCHANGED sensor
  /\ UNCHANGED <<bitIo, owIdx, power, bits, dir, bitsCount, short, present>>

CmdRead(n) ==
  /\ Takes /\ Begin("read")
  /\ owSt' = "read" /\ owIdx' = 0 /\ bitsCount' = n
  /\ UNCHANGED <<bitIo, power, bits, dir, since, master>>

CmdWrite(n, data, strong) ==
  /\ Takes /\ Begin(IF strong THEN "powerWrite" ELSE "write")
  /\ owSt' = "write" /\ owIdx' = 0 /\ bitsCount' = n /\ bits' = data
  /\ power' = IF strong THEN "asked" ELSE "none"
  /\ UNCHANGED <<bitIo, dir, since, master>>

CmdSearch(d) ==
  /\ Takes /\ Begin("search")
  /\ owSt' = "search" /\ owIdx' = 0 /\ dir' = d
  /\ UNCHANGED <<bitIo, power, bits, bitsCount, since, master>>

DataOf(n) == {w \in OwWords : \A i \in Indexes : i >= n => w[i] = 0}
OwCommand == \/ CmdInit \/ \E d \in {0, 1} : CmdSearch(d)
             \/ \E n \in OwCounts : CmdRead(n) \/ \E w \in DataOf(n), p \in BOOLEAN : CmdWrite(n, w, p)

PruOwNext == Turn \/ ShortChanges \/ OwCommand
PruOwSpec == PruOwInit /\ [][PruOwNext]_pruOwVars
PruOwFairness == WF_pruOwVars(Turn)
-----------------------------------------------------------------------------
Whole == owSt = "idle" /\ op # "none" /\ sound /\ taken = 0
SlotsDone == [i \in 0..(Len(slots) - 1) |-> slots[i + 1]]

(* On a sound wire an operation nobody took over is one whole operation and *)
(* is answered once, and right: a reset by whether a sensor is there, a     *)
(* read with the bits the sensor sent, a write when the sensor has seen     *)
(* every bit asked for, a triplet by what was read and branched to.  An     *)
(* operation taken over in a slot earlier leaves nothing behind that could  *)
(* spoil it, since sBitIoState is reset by nobody.                          *)
SoundOperation ==
  Whole => CASE op = "init" -> owSaid = <<IF present THEN "PresenceOk" ELSE "NoPresence">>
             [] op = "read" -> /\ owSaid = <<"ReadBitsOk">> /\ Len(slots) = bitsCount
                               /\ \A i \in DOMAIN SlotsDone : bits[i] = SlotsDone[i]
             [] op \in {"write", "powerWrite"} ->
                  /\ owSaid = <<"WriteBitsOk">> /\ Len(slots) = bitsCount
                  /\ \A i \in DOMAIN SlotsDone : bits[i] = SlotsDone[i]
             [] op = "search" ->
                  \/ owSaid = <<"SearchResult11">> /\ slots = <<1, 1>>
                  \/ /\ Len(slots) = 3 /\ owSaid = <<TripletAnswer[<<slots[1], slots[2]>>]>>
                     /\ slots[3] = IF slots[1] # slots[2] THEN slots[1] ELSE dir

(* The strong pull-up drives the wire only from the last bit of a power     *)
(* write (or the third of a search, to which a power write that was taken   *)
(* over at its last bit leaves its request) to the next slot, never between *)
(* the slots of an operation.                                               *)
StrongWhenDone ==
  master = "strong" /\ taken = 0 =>
    \/ op = "powerWrite" /\ Len(slots) = bitsCount
    \/ op = "search" /\ Len(slots) = 3
    \/ slots = <<>>

(* An idle machine has let the wire go, unless an operation was taken over  *)
(* since the last reset: that one's pulse may stay until the next reset.    *)
LetGo == owSt = "idle" /\ taken = 0 => master # "low"

(* Operations are whole and right, and leave the wire as the next one and   *)
(* the sensors need it (ow_sm.c).                                           *)
WireSound == SoundOperation /\ StrongWhenDone /\ LetGo
=============================================================================
