------------------------------ MODULE PruProofs ------------------------------
(***************************************************************************)
(* Proofs about what hangs on the PRU, each part of MCPru for any values   *)
(* of its constants: an inductive invariant of the part and what it        *)
(* promises; at the end the composition, in which each part only moves by  *)
(* its own steps.                                                          *)
(***************************************************************************)
EXTENDS MCPru, FiniteSetTheorems, SequenceTheorems, WellFoundedInduction, TLAPS

(* What a sequence is with an element appended.                             *)
LEMMA Appended ==
  ASSUME NEW S, NEW s \in Seq(S), NEW x \in S
  PROVE  /\ Append(s, x) \in Seq(S) /\ Len(s) \in Nat /\ Len(Append(s, x)) = Len(s) + 1
         /\ \A k \in 1..Len(s) : Append(s, x)[k] = s[k]
         /\ Append(s, x)[Len(s) + 1] = x
OBVIOUS

-----------------------------------------------------------------------------
(* The one-wire half of the firmware (PruOneWire).                          *)

ResetStates == {"falling", "reset", "presence", "cleared", "recovery"}
BitStates   == {"read", "write", "search"}
InRead       == owSt = "read" \/ (owSt = "search" /\ owIdx < 2)

(* What each state of the machine takes for granted, whatever is taken over.*)
Machine ==
  /\ sound => ~short
  /\ owSt \notin BitStates => Finished
  /\ owSt # "idle" => owSaid = <<>>
  /\ owSt \in ResetStates => op = "init"
  /\ owSt = "read" => op = "read"
  /\ owSt = "write" => op \in {"write", "powerWrite"} /\ (power # "none" => op = "powerWrite")
  /\ owSt = "search" => op = "search" /\ owIdx <= 2
  /\ owSt \in {"read", "write"} => bitsCount \in OwCounts /\ owIdx < bitsCount
  /\ owSt \in {"presence", "cleared", "recovery"} => master = "released"

(* An operation nobody took over is at one slot for each bit, low only in   *)
(* the pulse of a slot, and has asked for the pull-up when its last begins. *)
Slotted ==
  taken = 0 /\ owSt \in BitStates =>
    /\ bitIo = "pulse" => InRead
    /\ Len(slots) = owIdx + IF bitIo = "slotEnd" \/ (InRead /\ ~Finished) THEN 1 ELSE 0
    /\ master = "low" => bitIo = "pulse" \/ (bitIo = "sample" /\ ~InRead)
    /\ owSt = "write" /\ power = "asked" /\ owIdx = bitsCount - 1 => Finished
    /\ owSt = "write" /\ power = "keep" => owIdx = bitsCount - 1 /\ bitIo = "sample"

(* On a sound wire what the machine has seen is what the sensor does, and   *)
(* every bit that is over is the slot's.                                    *)
Timed ==
  /\ InRead /\ bitIo = "pulse" => since = 0
  /\ InRead /\ bitIo = "sample" => since \in {1, 2}
  /\ ~InRead /\ bitIo = "sample" => since = 0 \/ (bits[owIdx] = 0 /\ since < Write0)
Seen ==
  sound /\ taken = 0 =>
    /\ owSt = "presence" => (sensor <=> present)
    /\ owSt = "cleared" => (sensor <=> present) /\ (~present => since = 0)
    /\ owSt = "recovery" => present
    /\ owSt \in BitStates =>
         /\ Timed
         /\ ~InRead \/ Finished => ~sensor
         /\ InRead /\ bitIo \in {"pulse", "sample"} => (sensor <=> slots[owIdx + 1] = 0)
         /\ \A i \in 0..(owIdx - 1) : bits[i] = slots[i + 1]
         /\ bitIo = "slotEnd" => bits[owIdx] = slots[owIdx + 1]
         /\ owSt = "search" /\ owIdx = 2 => bits[2] = Branch /\ ~(bits[0] = 1 /\ bits[1] = 1)

PInv == PruOwTypeOK /\ Machine /\ Slotted /\ Seen /\ WireSound

-----------------------------------------------------------------------------
(* An index up to the count of bits of an operation is one of the machine's.*)
LEMMA IndexOf ==
  /\ \A n \in OwCounts : \A k \in 0..n : k \in Indexes
  /\ \A k \in 0..2 : k \in Indexes
  /\ 0 \in Indexes /\ 1 \in Indexes /\ 2 \in Indexes
  /\ Indexes \subseteq Nat
  /\ \A k \in Indexes : \A i \in 0..k : i \in Indexes
<1>1. \A n \in OwCounts : \A k \in 0..n : k \in Indexes
  BY Zenon DEF Indexes
<1>2. \A k \in 0..2 : k \in Indexes
  BY Zenon DEF Indexes
<1>3. 0 \in 0..2 /\ 1 \in 0..2 /\ 2 \in 0..2
  BY SMT
<1>4. \A n \in OwCounts \cup {2} : 0..n \subseteq Nat
  BY SMT, PruOneWireAssumption
<1>5. Indexes \subseteq Nat
  BY <1>4, Zenon DEF Indexes
<1>6. \A k \in Indexes : \A i \in 0..k : i \in Indexes
  <2> TAKE k \in Indexes
  <2>1. PICK n \in OwCounts \cup {2} : k \in 0..n
    BY Zenon DEF Indexes
  <2>2. \A i \in 0..k : i \in 0..n
    BY <2>1, SMT, PruOneWireAssumption
  <2> QED
    BY <2>2, Zenon DEF Indexes
<1> QED
  BY <1>1, <1>2, <1>3, <1>5, <1>6, Zenon

(* What a turn finds on the wire: a released wire stays so; a sensor holds  *)
(* it past the master's sample and not past the slot.                       *)
LEMMA Held ==
  ASSUME NEW now \in Nat, NEW hold \in Holds(now), sensor \in BOOLEAN
  PROVE  /\ hold \in BOOLEAN
         /\ ~sensor => ~hold
         /\ owSt = "presence" => (hold <=> sensor)
         /\ owSt = "cleared" /\ sensor /\ now < Sample => hold
         /\ owSt = "cleared" /\ now >= PresenceMax => ~hold
         /\ owSt \in BitStates /\ sensor /\ now < Write0 => hold
         /\ owSt \in BitStates /\ now >= Slot => ~hold
<1>1. CASE ~sensor
  <2>1. hold = FALSE
    BY <1>1, Zenon DEF Holds
  <2> QED
    BY <1>1, <2>1, Zenon
<1>2. CASE sensor
  <2>1. hold \in BOOLEAN
    BY Zenon DEF Holds
  <2>2. ASSUME owSt = "presence" PROVE hold
    <3>1. owSt # "idle"
      BY <2>2
    <3> QED
      BY <1>2, <2>2, <3>1, Zenon DEF Holds
  <2>3. ASSUME owSt = "cleared" PROVE (now < Sample => hold) /\ (now >= PresenceMax => ~hold)
    <3>1. owSt # "idle" /\ owSt # "presence" /\ ~(now < Sample /\ now >= PresenceMax)
      BY <2>3, SMT DEF Sample, PresenceMax
    <3>2. CASE now < Sample
      <4>1. hold \in {TRUE}
        BY <1>2, <2>3, <3>1, <3>2, Zenon DEF Holds
      <4> QED
        BY <3>1, <3>2, <4>1, Zenon
    <3>3. CASE ~(now < Sample) /\ now >= PresenceMax
      <4>1. hold \in {FALSE}
        BY <1>2, <2>3, <3>1, <3>3, Zenon DEF Holds
      <4> QED
        BY <3>1, <3>3, <4>1, Zenon
    <3> QED
      BY <3>1, <3>2, <3>3, Zenon
  <2>4. ASSUME owSt \in BitStates PROVE (now < Write0 => hold) /\ (now >= Slot => ~hold)
    <3>1. owSt # "idle" /\ owSt # "presence" /\ owSt # "cleared" /\ ~(now < Write0 /\ now >= Slot)
      BY <2>4, SMT DEF BitStates, Write0, Slot
    <3>2. CASE now < Write0
      <4>1. hold \in {TRUE}
        BY <1>2, <3>1, <3>2, Zenon DEF Holds
      <4> QED
        BY <3>1, <3>2, <4>1, Zenon
    <3>3. CASE ~(now < Write0) /\ now >= Slot
      <4>1. hold \in {FALSE}
        BY <1>2, <3>1, <3>3, Zenon DEF Holds
      <4> QED
        BY <3>1, <3>3, <4>1, Zenon
    <3> QED
      BY <3>1, <3>2, <3>3, Zenon
  <2>5. owSt = "cleared" \/ owSt # "cleared"
    OBVIOUS
  <2> QED
    BY <1>2, <2>1, <2>2, <2>3, <2>4, Zenon
<1> QED
  BY <1>1, <1>2, Zenon

(* A turn passes at most one of the durations.                              *)
LEMMA PassedIs ==
  ASSUME since \in Durations, NEW now \in Passed(since)
  PROVE  now \in Durations /\ now \in Nat /\ (now = since \/ now = since + 1)
BY SMT DEF Passed, Durations, PresenceT

(* The only answer of an operation.                                         *)
LEMMA FirstAnswer == \A code \in OwAnswerCodes : Append(<<>>, code) = <<code>>
<1> TAKE code \in OwAnswerCodes
<1>1. /\ <<>> \in Seq(OwAnswerCodes) /\ Len(<<>>) = 0
      /\ <<code>> \in Seq(OwAnswerCodes) /\ Len(<<code>>) = 1 /\ <<code>>[1] = code
  BY SMT
<1>2. /\ Append(<<>>, code) \in Seq(OwAnswerCodes) /\ Len(Append(<<>>, code)) = 1
      /\ Append(<<>>, code)[1] = code
  BY <1>1, Appended, SMT
<1>3. \A i \in 1..1 : i = 1
  BY SMT
<1> QED
  BY <1>1, <1>2, <1>3, SeqEqual, Zenon

-----------------------------------------------------------------------------
(* A bit that is read: after its slot has begun there is one more slot, the *)
(* wire is low in its pulse only, and on a sound wire the bit is the slot's.*)
BitRead ==
  /\ bitIo' = "error" => ~sound /\ Len(slots') = owIdx
  /\ bitIo' # "error" => Len(slots') = owIdx + 1
  /\ master' = "low" => bitIo' = "pulse"
  /\ master' = "strong" => master = "strong" /\ slots' = slots
  /\ sound =>
       /\ bitIo' = "pulse" => since' = 0
       /\ bitIo' = "sample" => since' \in {1, 2}
       /\ bitIo' \in {"pulse", "sample"} => (sensor' <=> slots'[owIdx + 1] = 0)
       /\ bitIo' = "ok" => ~sensor'
       /\ \A i \in 0..(owIdx - 1) : bits'[i] = slots'[i + 1]
       /\ bitIo' \in {"slotEnd", "ok"} => bits'[owIdx] = slots'[owIdx + 1]

(* The types of a bit that is read.                                         *)
LEMMA ReadBitTypes ==
  ASSUME PruOwTypeOK, NEW now \in Durations, NEW hold \in BOOLEAN, ReadBit(now, hold)
  PROVE  /\ bitIo' \in {"ok", "error", "pulse", "sample", "slotEnd"} /\ bits' \in OwWords
         /\ since' \in Durations /\ master' \in {"released", "low", "strong"}
         /\ sensor' \in BOOLEAN /\ slots' \in Seq({0, 1}) /\ power' = power
<1> USE DEF PruOwTypeOK
<1>1. 0 \in Durations
  BY SMT DEF Durations, PresenceT
<1>2. \A i \in Indexes, b \in {0, 1} : [bits EXCEPT ![i] = b] \in OwWords
  BY SMT DEF OwWords
<1>3. power' = power
  BY Zenon DEF ReadBit
<1>4. CASE Finished /\ Active(hold)
  <2>1. bitIo \notin {"pulse", "sample", "slotEnd"}
    BY <1>4 DEF Finished
  <2>2. bitIo' = "error" /\ master' = master /\ since' = since /\ sensor' = hold /\ slots' = slots /\ bits' = bits
    BY <1>4, <2>1, Zenon DEF ReadBit, Pull
  <2> QED
    BY <1>3, <2>2, Zenon
<1>5. CASE Finished /\ ~Active(hold)
  <2>1. bitIo \notin {"pulse", "sample", "slotEnd"}
    BY <1>5 DEF Finished
  <2>2. /\ bitIo' = "pulse" /\ master' = "low" /\ since' = 0 /\ bits' = bits
        /\ \E b \in IF present THEN {0, 1} ELSE {1} : sensor' = (b = 0) /\ slots' = Append(slots, b)
    BY <1>5, <2>1, Zenon DEF ReadBit, Pull
  <2>3. PICK b \in {0, 1} : sensor' = (b = 0) /\ slots' = Append(slots, b)
    BY <2>2, Zenon
  <2>4. slots' \in Seq({0, 1})
    BY <2>3, Appended, Zenon
  <2>5. sensor' \in BOOLEAN
    BY <2>3, Zenon
  <2> QED
    BY <1>1, <1>3, <2>2, <2>4, <2>5, Zenon
<1>6. CASE bitIo = "pulse"
  <2>1. /\ bits' = bits /\ slots' = slots /\ since' = now /\ sensor' = hold
        /\ \/ master' = "released" /\ bitIo' = "sample"
           \/ master' = master /\ bitIo' = bitIo
    BY <1>6, Zenon DEF ReadBit, Finished
  <2> QED
    BY <1>3, <2>1, Zenon
<1>7. CASE bitIo = "sample"
  <2>1. /\ slots' = slots /\ since' = now /\ sensor' = hold /\ master' = master
        /\ \/ bits' = [bits EXCEPT ![owIdx] = IF Active(hold) THEN 0 ELSE 1] /\ bitIo' = "slotEnd"
           \/ bits' = bits /\ bitIo' = bitIo
    BY <1>7, Zenon DEF ReadBit, Finished
  <2>2. (IF Active(hold) THEN 0 ELSE 1) \in {0, 1}
    BY Zenon
  <2>3. bits' \in OwWords
    BY <1>2, <2>1, <2>2, Zenon
  <2> QED
    BY <1>3, <2>1, <2>3, Zenon
<1>8. CASE bitIo = "slotEnd"
  <2>1. /\ slots' = slots /\ since' = now /\ sensor' = hold /\ master' = master
        /\ bits' = [bits EXCEPT ![2] = Branch] \/ bits' = bits
        /\ bitIo' = "ok" \/ bitIo' = bitIo
    BY <1>8, Zenon DEF ReadBit, Finished
  <2>2. Branch \in {0, 1}
    BY IndexOf, SMT DEF Branch, OwWords
  <2>3. bits' \in OwWords
    BY <1>2, <2>1, <2>2, IndexOf, Zenon
  <2> QED
    BY <1>3, <2>1, <2>3, Zenon
<1> QED
  BY <1>4, <1>5, <1>6, <1>7, <1>8, Zenon DEF Finished

(* A slot keeps what a bit that is read owes the sensor and the machine.    *)
LEMMA ReadBitKeeps ==
  ASSUME PInv, InRead, taken = 0, NEW now \in Passed(since), NEW hold \in Holds(now),
         ReadBit(now, hold)
  PROVE  BitRead
<1> USE DEF PInv, PruOwTypeOK
<1>1. /\ owSt \in BitStates /\ (owSt = "read" \/ owSt = "search") /\ owSt # "write"
  BY SMT DEF InRead, BitStates
<1>2. now \in Durations /\ now \in Nat /\ (now = since \/ now = since + 1)
  BY PassedIs
<1>3. /\ hold \in BOOLEAN /\ (~sensor => ~hold)
      /\ sensor /\ now < Write0 => hold
      /\ now >= Slot => ~hold
  BY <1>1, <1>2, Held, Zenon
<1>4. /\ Len(slots) = owIdx + IF bitIo = "slotEnd" \/ ~Finished THEN 1 ELSE 0
      /\ master = "low" => bitIo = "pulse" \/ (bitIo = "sample" /\ ~InRead)
  BY <1>1, Zenon DEF Slotted
<1>5. owIdx \in Nat /\ slots \in Seq({0, 1}) /\ bits \in OwWords /\ owIdx \in Indexes
  BY IndexOf, Zenon
<1>6. ASSUME sound
      PROVE  /\ ~short
             /\ bitIo = "pulse" => since = 0
             /\ bitIo = "sample" => since \in {1, 2}
             /\ Finished => ~sensor
             /\ bitIo \in {"pulse", "sample"} => (sensor <=> slots[owIdx + 1] = 0)
             /\ \A i \in 0..(owIdx - 1) : bits[i] = slots[i + 1]
             /\ bitIo = "slotEnd" => bits[owIdx] = slots[owIdx + 1]
  BY <1>1, <1>6, Zenon DEF Machine, Seen, Timed
<1>7. CASE Finished
  <2>1. bitIo \notin {"pulse", "sample", "slotEnd"} /\ master # "low" /\ Len(slots) = owIdx
    BY <1>4, <1>5, <1>7, SMT DEF Finished
  <2>2. CASE Active(hold)
    <3>1. bitIo' = "error" /\ master' = master /\ slots' = slots
      BY <1>7, <2>1, <2>2, Zenon DEF ReadBit, Pull
    <3>2. ~sound
      BY <1>3, <1>6, <1>7, <2>1, <2>2, Zenon DEF Active
    <3> QED
      BY <2>1, <3>1, <3>2 DEF BitRead
  <2>3. CASE ~Active(hold)
    <3>1. /\ bitIo' = "pulse" /\ master' = "low" /\ since' = 0 /\ bits' = bits
          /\ \E b \in IF present THEN {0, 1} ELSE {1} : sensor' = (b = 0) /\ slots' = Append(slots, b)
      BY <1>7, <2>1, <2>3, Zenon DEF ReadBit, Pull
    <3>2. PICK b \in {0, 1} : sensor' = (b = 0) /\ slots' = Append(slots, b)
      BY <3>1, Zenon
    <3>3. /\ Len(slots') = owIdx + 1 /\ slots'[owIdx + 1] = b
          /\ \A i \in 1..owIdx : slots'[i] = slots[i]
      <4>1. /\ Len(Append(slots, b)) = Len(slots) + 1 /\ Append(slots, b)[Len(slots) + 1] = b
            /\ \A i \in 1..Len(slots) : Append(slots, b)[i] = slots[i]
        BY <1>5, Appended
      <4>2. slots' = Append(slots, b) /\ Len(slots) = owIdx
        BY <2>1, <3>2
      <4> QED
        BY <4>1, <4>2
    <3>4. \A i \in 0..(owIdx - 1) : i + 1 \in 1..owIdx
      BY <1>5, SMT
    <3>5. sensor' <=> slots'[owIdx + 1] = 0
      BY <3>2, <3>3, Zenon
    <3>6. sound => \A i \in 0..(owIdx - 1) : bits'[i] = slots'[i + 1]
      BY <1>6, <3>1, <3>3, <3>4, Zenon
    <3>7. bitIo' # "error" /\ bitIo' # "ok" /\ bitIo' # "sample" /\ bitIo' # "slotEnd" /\ master' # "strong"
      BY <3>1
    <3> QED
      BY <3>1, <3>3, <3>5, <3>6, <3>7, Zenon DEF BitRead
  <2> QED
    BY <2>2, <2>3, Zenon
<1>8. CASE bitIo = "pulse"
  <2>1. /\ bits' = bits /\ slots' = slots /\ since' = now /\ sensor' = hold
        /\ IF now >= Read1 THEN master' = "released" /\ bitIo' = "sample"
                           ELSE master' = master /\ bitIo' = bitIo
    BY <1>8, Zenon DEF ReadBit, Finished
  <2>2. Len(slots) = owIdx + 1
    BY <1>4, <1>5, <1>8, SMT DEF Finished
  <2>3. /\ bitIo' \in {"pulse", "sample"} /\ (master' = "low" => bitIo' = "pulse")
        /\ (master' = "strong" => master = "strong")
        /\ bitIo' # "error" /\ bitIo' # "ok" /\ bitIo' # "slotEnd"
    BY <1>8, <2>1
  <2>4. sound => (sensor' <=> slots'[owIdx + 1] = 0)
    <3>1. ASSUME sound PROVE now < Write0
      BY <1>2, <1>6, <1>8, <3>1, SMT DEF Write0
    <3> QED
      BY <1>3, <1>6, <1>8, <2>1, <3>1, Zenon
  <2>5. sound => (bitIo' = "pulse" => since' = 0) /\ (bitIo' = "sample" => since' \in {1, 2})
    <3>1. ASSUME sound PROVE now = 0 \/ now = 1
      BY <1>2, <1>6, <1>8, <3>1, SMT
    <3> QED
      BY <1>8, <2>1, <3>1, SMT DEF Read1
  <2>6. sound => \A i \in 0..(owIdx - 1) : bits'[i] = slots'[i + 1]
    BY <1>6, <2>1, Zenon
  <2> QED
    BY <2>1, <2>2, <2>3, <2>4, <2>5, <2>6, Zenon DEF BitRead
<1>9. CASE bitIo = "sample"
  <2>1. /\ slots' = slots /\ since' = now /\ sensor' = hold /\ master' = master
        /\ IF now >= Sample
             THEN bits' = [bits EXCEPT ![owIdx] = IF Active(hold) THEN 0 ELSE 1] /\ bitIo' = "slotEnd"
             ELSE bits' = bits /\ bitIo' = bitIo
    BY <1>9, Zenon DEF ReadBit, Finished
  <2>2. Len(slots) = owIdx + 1
    BY <1>4, <1>5, <1>9, SMT DEF Finished
  <2>3. master # "low" /\ (bitIo' = "sample" \/ bitIo' = "slotEnd")
        /\ bitIo' # "error" /\ bitIo' # "ok" /\ bitIo' # "pulse"
    BY <1>4, <1>9, <2>1
  <2>4. ASSUME sound PROVE (sensor' <=> slots[owIdx + 1] = 0) /\ ~short
    <3>1. now < Write0
      BY <1>2, <1>6, <1>9, <2>4, SMT DEF Write0
    <3> QED
      BY <1>3, <1>6, <1>9, <2>1, <2>4, <3>1, Zenon
  <2>5. sound => (bitIo' = "sample" => since' \in {1, 2})
    <3>1. ASSUME sound, now < Sample PROVE now \in {1, 2}
      BY <1>2, <1>6, <1>9, <3>1, SMT DEF Sample
    <3>2. bitIo' = "sample" => ~(now >= Sample)
      BY <2>1
    <3>3. ~(now >= Sample) => now < Sample
      BY <1>2, SMT DEF Sample
    <3> QED
      BY <2>1, <3>1, <3>2, <3>3, Zenon
  <2>6. sound => \A i \in 0..(owIdx - 1) : bits'[i] = slots'[i + 1]
    <3>1. \A i \in 0..(owIdx - 1) : i # owIdx /\ i \in 0..owIdx
      BY <1>5, SMT
    <3>3. \A i \in 0..(owIdx - 1) : i # owIdx /\ i \in Indexes
      BY <1>5, <3>1, IndexOf, Zenon
    <3>2. \A i \in 0..(owIdx - 1) : bits'[i] = bits[i]
      BY <1>5, <2>1, <3>3, SMT DEF OwWords
    <3> QED
      BY <1>6, <2>1, <3>2, Zenon
  <2>7. sound => (bitIo' = "slotEnd" => bits'[owIdx] = slots'[owIdx + 1])
    <3>1. \A b : [bits EXCEPT ![owIdx] = b][owIdx] = b
      BY <1>5, SMT DEF OwWords
    <3>2. ASSUME sound, bitIo' = "slotEnd" PROVE bits'[owIdx] = IF sensor' THEN 0 ELSE 1
      <4>1. bits' = [bits EXCEPT ![owIdx] = IF Active(hold) THEN 0 ELSE 1]
        BY <1>9, <2>1, <3>2
      <4>2. Active(hold) <=> sensor'
        BY <2>1, <2>3, <2>4, <3>2, Zenon DEF Active
      <4>3. (IF Active(hold) THEN 0 ELSE 1) = IF sensor' THEN 0 ELSE 1
        BY <4>2, Zenon
      <4> QED
        BY <3>1, <4>1, <4>3, Zenon
    <3>3. slots[owIdx + 1] \in {0, 1}
      BY <1>5, <2>2, SMT
    <3> QED
      BY <2>1, <2>4, <3>2, <3>3, Zenon
  <2>8. sound => (bitIo' = "sample" => (sensor' <=> slots'[owIdx + 1] = 0))
    BY <2>1, <2>4, Zenon
  <2> QED
    BY <2>1, <2>2, <2>3, <2>5, <2>6, <2>7, <2>8, Zenon DEF BitRead
<1>10. CASE bitIo = "slotEnd"
  <2>1. /\ slots' = slots /\ since' = now /\ sensor' = hold /\ master' = master
        /\ bitIo' = IF now >= Slot THEN "ok" ELSE bitIo
        /\ bits' = IF owSt = "search" /\ owIdx = 1 /\ now >= Slot THEN [bits EXCEPT ![2] = Branch] ELSE bits
    BY <1>10, Zenon DEF ReadBit, Finished
  <2>2. Len(slots) = owIdx + 1
    BY <1>4, <1>5, <1>10, SMT
  <2>3. master # "low" /\ (bitIo' = "ok" \/ bitIo' = "slotEnd")
        /\ bitIo' # "error" /\ bitIo' # "pulse" /\ bitIo' # "sample"
    BY <1>4, <1>10, <2>1
  <2>4. bitIo' = "ok" => ~sensor'
    BY <1>3, <1>10, <2>1, Zenon
  <2>5. \A i \in 0..owIdx : bits'[i] = bits[i]
    <3>1. CASE owSt = "search" /\ owIdx = 1 /\ now >= Slot
      <4>1. \A i \in 0..owIdx : i # 2 /\ i \in Indexes
        BY <3>1, IndexOf, SMT
      <4>2. bits' = [bits EXCEPT ![2] = Branch]
        BY <2>1, <3>1, Zenon
      <4> QED
        BY <1>5, <4>1, <4>2, SMT DEF OwWords
    <3>2. CASE ~(owSt = "search" /\ owIdx = 1 /\ now >= Slot)
      BY <2>1, <3>2, Zenon
    <3> QED
      BY <3>1, <3>2, Zenon
  <2>6. owIdx \in 0..owIdx /\ \A i \in 0..(owIdx - 1) : i \in 0..owIdx
    BY <1>5, SMT
  <2>7. sound => \A i \in 0..(owIdx - 1) : bits'[i] = slots'[i + 1]
    BY <1>6, <2>1, <2>5, <2>6, Zenon
  <2>8. sound => bits'[owIdx] = slots'[owIdx + 1]
    BY <1>6, <1>10, <2>1, <2>5, <2>6, Zenon
  <2> QED
    BY <2>1, <2>2, <2>3, <2>4, <2>7, <2>8, Zenon DEF BitRead
<1> QED
  BY <1>7, <1>8, <1>9, <1>10, Zenon DEF Finished

-----------------------------------------------------------------------------
(* A bit that is written: its slot is the sensor's as soon as its pulse is  *)
(* over, and the request for the pull-up is kept in the last bit's pulse.   *)
InWrite == owSt = "write" \/ (owSt = "search" /\ owIdx = 2)
BitWritten ==
  /\ bitIo' # "pulse"
  /\ bitIo' = "error" => ~sound
  /\ Len(slots') = owIdx + IF bitIo' \in {"slotEnd", "ok"} THEN 1 ELSE 0
  /\ master' = "low" => bitIo' = "sample"
  /\ master' = "strong" => \/ master = "strong" /\ slots' = slots
                           \/ power = "keep" /\ Len(slots') = owIdx + 1
  /\ sound =>
       /\ ~sensor'
       /\ bitIo' = "sample" => since' = 0 \/ (bits[owIdx] = 0 /\ since' < Write0)
       /\ \A i \in 0..(owIdx - 1) : bits[i] = slots'[i + 1]
       /\ bitIo' \in {"slotEnd", "ok"} => bits[owIdx] = slots'[owIdx + 1]

(* The types of a bit that is written.                                      *)
LEMMA WriteBitTypes ==
  ASSUME PruOwTypeOK, NEW now \in Durations, NEW hold \in BOOLEAN, WriteBit(now, hold)
  PROVE  /\ bitIo' \in {"ok", "error", "pulse", "sample", "slotEnd"} /\ bits' = bits
         /\ since' \in Durations /\ master' \in {"released", "low", "strong"}
         /\ sensor' \in BOOLEAN /\ slots' \in Seq({0, 1})
         /\ power' \in {"none", "asked", "keep"} /\ (power = "none" => power' = "none")
<1> USE DEF PruOwTypeOK
<1>1. 0 \in Durations
  BY SMT DEF Durations, PresenceT
<1>2. sensor' = hold /\ bits' = bits
  BY Zenon DEF WriteBit
<1>3. power' \in {"none", "asked", "keep"} /\ (power = "none" => power' = "none")
  <2>1. power' = IF bitIo = "sample" /\ PulseOver(now) /\ power = "keep" THEN "none"
                 ELSE IF LastBit /\ power = "asked" /\ bitIo' \notin {"ok", "error"} THEN "keep"
                 ELSE power
    BY Zenon DEF WriteBit
  <2> QED
    BY <2>1
<1>4. CASE Finished
  <2>1. bitIo \notin {"pulse", "sample", "slotEnd"}
    BY <1>4 DEF Finished
  <2>2. slots' = slots
    BY <2>1, Zenon DEF WriteBit
  <2>3. CASE Active(hold)
    <3>1. bitIo' = "error" /\ master' = master /\ since' = since
      BY <2>1, <2>3, Zenon DEF WriteBit, Pull
    <3> QED
      BY <1>2, <1>3, <2>2, <3>1, Zenon
  <2>4. CASE ~Active(hold)
    <3>1. bitIo' = "sample" /\ master' = "low" /\ since' = 0
      BY <2>1, <2>4, Zenon DEF WriteBit, Pull
    <3> QED
      BY <1>1, <1>2, <1>3, <2>2, <3>1, Zenon
  <2> QED
    BY <2>3, <2>4, Zenon
<1>5. CASE bitIo = "sample"
  <2>1. /\ since' = now
        /\ \/ /\ master' = "strong" \/ master' = "released"
              /\ slots' = Append(slots, IF now < Sample THEN 1 ELSE 0) /\ bitIo' = "slotEnd"
           \/ master' = master /\ slots' = slots /\ bitIo' = bitIo
    BY <1>5, Zenon DEF WriteBit, Finished
  <2>2. (IF now < Sample THEN 1 ELSE 0) \in {0, 1}
    BY Zenon
  <2>3. slots' \in Seq({0, 1})
    BY <2>1, <2>2, Appended, Zenon
  <2> QED
    BY <1>2, <1>3, <2>1, <2>3, Zenon
<1>6. CASE bitIo \in {"slotEnd", "pulse"}
  <2>1. since' = now /\ slots' = slots /\ master' = master /\ bitIo' \in {"ok", "error", bitIo}
    BY <1>6, Zenon DEF WriteBit, Finished
  <2> QED
    BY <1>2, <1>3, <2>1, Zenon
<1> QED
  BY <1>4, <1>5, <1>6, Zenon DEF Finished

(* The request of a power write is kept when its last bit begins, till the  *)
(* pulse of that bit is over.                                               *)
LEMMA WriteBitPower ==
  ASSUME PInv, owSt = "write", taken = 0, NEW now \in Durations, NEW hold, WriteBit(now, hold)
  PROVE  /\ power' = "asked" /\ owIdx = bitsCount - 1 => bitIo' \in {"ok", "error"}
         /\ power' = "keep" => owIdx = bitsCount - 1 /\ bitIo' = "sample"
<1>1. power' = IF bitIo = "sample" /\ PulseOver(now) /\ power = "keep" THEN "none"
               ELSE IF owIdx = bitsCount - 1 /\ power = "asked" /\ bitIo' \notin {"ok", "error"} THEN "keep"
               ELSE power
  BY Zenon DEF WriteBit, LastBit
<1>2. /\ power = "asked" /\ owIdx = bitsCount - 1 => Finished
      /\ power = "keep" => owIdx = bitsCount - 1 /\ bitIo = "sample"
  <2>1. owSt \in BitStates
    BY DEF BitStates
  <2> QED
    BY <2>1, Zenon DEF PInv, Slotted
<1>3. ASSUME Finished PROVE bitIo' = "error" \/ bitIo' = "sample"
  <2>1. bitIo \notin {"pulse", "sample", "slotEnd"}
    BY <1>3 DEF Finished
  <2> QED
    BY <2>1, Zenon DEF WriteBit, Pull
<1>4. ASSUME bitIo = "sample", ~PulseOver(now) PROVE bitIo' = "sample"
  BY <1>4, Zenon DEF WriteBit, Finished
<1>5. CASE power = "keep"
  <2>1. CASE PulseOver(now)
    <3>1. power' = "none"
      BY <1>1, <1>2, <1>5, <2>1, Zenon
    <3> QED
      BY <3>1
  <2>2. CASE ~PulseOver(now)
    <3>1. power' = "keep"
      BY <1>1, <1>2, <1>5, <2>2
    <3> QED
      BY <1>2, <1>4, <1>5, <2>2, <3>1
  <2> QED
    BY <2>1, <2>2, Zenon
<1>6. CASE power = "asked"
  <2>1. power' = IF owIdx = bitsCount - 1 /\ bitIo' \notin {"ok", "error"} THEN "keep" ELSE "asked"
    BY <1>1, <1>6
  <2>2. power' = "keep" => owIdx = bitsCount - 1 /\ bitIo' \notin {"ok", "error"}
    BY <2>1
  <2>3. power' = "asked" => ~(owIdx = bitsCount - 1 /\ bitIo' \notin {"ok", "error"})
    BY <2>1
  <2>4. bitIo' \notin {"ok", "error"} /\ owIdx = bitsCount - 1 => bitIo' = "sample"
    BY <1>2, <1>3, <1>6
  <2> QED
    BY <2>2, <2>3, <2>4, Zenon
<1>7. CASE power \notin {"keep", "asked"}
  <2>1. power' = power
    BY <1>1, <1>7
  <2> QED
    BY <1>7, <2>1
<1> QED
  BY <1>5, <1>6, <1>7, Zenon

(* A slot keeps what a bit that is written owes the sensor and the machine. *)
LEMMA WriteBitKeeps ==
  ASSUME PInv, InWrite, taken = 0, NEW now \in Passed(since), NEW hold \in Holds(now),
         WriteBit(now, hold)
  PROVE  BitWritten
<1> USE DEF PInv, PruOwTypeOK
<1>1. owSt \in BitStates /\ ~InRead
  BY SMT DEF InWrite, InRead, BitStates
<1>2. now \in Durations /\ now \in Nat /\ (now = since \/ now = since + 1)
  BY PassedIs
<1>3. hold \in BOOLEAN /\ (~sensor => ~hold) /\ sensor' = hold
  BY <1>1, <1>2, Held, Zenon DEF WriteBit
<1>4. /\ bitIo # "pulse"
      /\ Len(slots) = owIdx + IF bitIo = "slotEnd" THEN 1 ELSE 0
      /\ master = "low" => bitIo = "sample"
  BY <1>1, Zenon DEF Slotted
<1>5. owIdx \in Nat /\ slots \in Seq({0, 1}) /\ bits[owIdx] \in {0, 1}
  BY IndexOf, SMT DEF OwWords
<1>6. ASSUME sound
      PROVE  /\ ~short /\ ~sensor
             /\ bitIo = "sample" => since = 0 \/ (bits[owIdx] = 0 /\ since < Write0)
             /\ \A i \in 0..(owIdx - 1) : bits[i] = slots[i + 1]
             /\ bitIo = "slotEnd" => bits[owIdx] = slots[owIdx + 1]
  BY <1>1, <1>6, Zenon DEF Machine, Seen, Timed
<1>7. sound => ~sensor'
  BY <1>3, <1>6, Zenon
<1>8. CASE Finished
  <2>1. bitIo \notin {"pulse", "sample", "slotEnd"} /\ master # "low" /\ Len(slots) = owIdx
    BY <1>4, <1>5, <1>8, SMT DEF Finished
  <2>2. slots' = slots
    BY <2>1, Zenon DEF WriteBit
  <2>3. CASE Active(hold)
    <3>1. bitIo' = "error" /\ master' = master
      BY <2>1, <2>3, Zenon DEF WriteBit, Pull
    <3>2. ~sound
      BY <1>3, <1>6, <2>1, <2>3, Zenon DEF Active
    <3>3. bitIo' # "pulse" /\ bitIo' \notin {"slotEnd", "ok"} /\ Len(slots') = owIdx + 0
      BY <1>5, <2>1, <2>2, <3>1
    <3> QED
      BY <2>1, <2>2, <3>1, <3>2, <3>3, Zenon DEF BitWritten
  <2>4. CASE ~Active(hold)
    <3>1. bitIo' = "sample" /\ master' = "low" /\ since' = 0
      BY <2>1, <2>4, Zenon DEF WriteBit, Pull
    <3>2. /\ bitIo' # "pulse" /\ bitIo' # "error" /\ bitIo' \notin {"slotEnd", "ok"} /\ Len(slots') = owIdx + 0
          /\ master' # "strong"
      BY <1>5, <2>1, <2>2, <3>1
    <3> QED
      BY <1>6, <1>7, <2>2, <3>1, <3>2, Zenon DEF BitWritten
  <2> QED
    BY <2>3, <2>4, Zenon
<1>9. CASE bitIo = "sample"
  <2>1. Len(slots) = owIdx
    BY <1>4, <1>5, <1>9, SMT
  <2>2. CASE PulseOver(now)
    <3> DEFINE b == IF now < Sample THEN 1 ELSE 0
    <3>1. /\ master' = IF power = "keep" THEN "strong" ELSE "released"
          /\ slots' = Append(slots, b) /\ bitIo' = "slotEnd"
      BY <1>9, <2>2, Zenon DEF WriteBit, Finished
    <3>2. b \in {0, 1}
      BY Zenon
    <3>3. sound => b = bits[owIdx]
      <4>1. ASSUME sound PROVE now < Sample <=> bits[owIdx] = 1
        <5>1. now >= IF bits[owIdx] = 1 THEN Read1 ELSE Write0
          BY <2>2 DEF PulseOver
        <5>2. since = 0 \/ (bits[owIdx] = 0 /\ since < Write0)
          BY <1>6, <1>9, <4>1, Zenon
        <5> QED
          BY <1>2, <1>5, <5>1, <5>2, SMT DEF Sample, Read1, Write0, Durations, PresenceT
      <4> QED
        BY <1>5, <4>1
    <3> HIDE DEF b
    <3>4. /\ Len(Append(slots, b)) = Len(slots) + 1 /\ Append(slots, b)[Len(slots) + 1] = b
          /\ \A i \in 1..Len(slots) : Append(slots, b)[i] = slots[i]
      BY <1>5, <3>2, Appended
    <3>5. /\ Len(slots') = owIdx + 1 /\ slots'[owIdx + 1] = b
          /\ \A i \in 1..owIdx : slots'[i] = slots[i]
      BY <2>1, <3>1, <3>4
    <3>6. \A i \in 0..(owIdx - 1) : i + 1 \in 1..owIdx
      BY <1>5, SMT
    <3>7. sound => \A i \in 0..(owIdx - 1) : bits[i] = slots'[i + 1]
      BY <1>6, <3>5, <3>6, Zenon
    <3>8. /\ bitIo' # "pulse" /\ bitIo' # "error" /\ bitIo' # "sample" /\ bitIo' \in {"slotEnd", "ok"}
          /\ master' # "low" /\ (master' = "strong" => power = "keep")
      BY <3>1
    <3> QED
      BY <1>7, <3>3, <3>5, <3>7, <3>8, Zenon DEF BitWritten
  <2>3. CASE ~PulseOver(now)
    <3>1. master' = master /\ slots' = slots /\ bitIo' = "sample" /\ since' = now
      BY <1>9, <2>3, Zenon DEF WriteBit, Finished
    <3>2. sound => since' = 0 \/ (bits[owIdx] = 0 /\ since' < Write0)
      <4>1. ~(now >= IF bits[owIdx] = 1 THEN Read1 ELSE Write0)
        BY <2>3 DEF PulseOver
      <4>2. now = 0 \/ (bits[owIdx] = 0 /\ now < Write0)
        BY <1>2, <1>5, <4>1, SMT DEF Read1, Write0
      <4> QED
        BY <3>1, <4>2, Zenon
    <3>3. bitIo' # "pulse" /\ bitIo' # "error" /\ bitIo' \notin {"slotEnd", "ok"} /\ Len(slots') = owIdx + 0
      BY <1>5, <2>1, <3>1
    <3> QED
      BY <1>6, <1>7, <3>1, <3>2, <3>3, Zenon DEF BitWritten
  <2> QED
    BY <2>2, <2>3, Zenon
<1>10. CASE bitIo = "slotEnd"
  <2>1. Len(slots) = owIdx + 1
    BY <1>4, <1>10
  <2>2. /\ slots' = slots /\ since' = now /\ master' = master
        /\ bitIo' = IF now >= Slot THEN "ok" ELSE bitIo
    BY <1>10, Zenon DEF WriteBit, Finished
  <2>3. /\ bitIo' # "pulse" /\ bitIo' # "error" /\ bitIo' # "sample" /\ bitIo' \in {"slotEnd", "ok"}
        /\ master' # "low"
    BY <1>4, <1>10, <2>2
  <2> QED
    BY <1>6, <1>7, <1>10, <2>1, <2>2, <2>3, Zenon DEF BitWritten
<1> QED
  BY <1>4, <1>8, <1>9, <1>10, Zenon DEF Finished

-----------------------------------------------------------------------------
(* Nothing is promised of an operation that was taken over.                 *)
LEMMA TakenOver ==
  ASSUME taken' # 0
  PROVE  Slotted' /\ Seen' /\ WireSound'
BY Zenon DEF Slotted, Seen, WireSound, SoundOperation, Whole, StrongWhenDone, LetGo

(* Answering and going on.                                                  *)
LEMMA OwAnswers ==
  ASSUME PruOwTypeOK, owSaid = <<>>, NEW code \in OwAnswerCodes, Answered(code)
  PROVE  owSt' = "idle" /\ owSaid' = <<code>> /\ owSaid' \in Seq(OwAnswerCodes)
<1>1. owSt' = "idle" /\ owSaid' = <<code>>
  BY FirstAnswer, Zenon DEF Answered
<1>2. <<code>> \in Seq(OwAnswerCodes)
  BY SMT
<1> QED
  BY <1>1, <1>2, Zenon

(* What stays while an operation is under way.                              *)
LEMMA BitTypes ==
  ASSUME PruOwTypeOK,
         bitIo' \in {"ok", "error", "pulse", "sample", "slotEnd"}, bits' \in OwWords,
         since' \in Durations, master' \in {"released", "low", "strong"}, sensor' \in BOOLEAN,
         slots' \in Seq({0, 1}), power' \in {"none", "asked", "keep"},
         owSt' \in {"idle", "read", "write", "search"}, owIdx' \in Indexes,
         owSaid' \in Seq(OwAnswerCodes), UNCHANGED <<dir, bitsCount, op, taken, short, present, sound>>
  PROVE  PruOwTypeOK'
<1>1. owSt' \in {"idle", "falling", "reset", "presence", "cleared", "recovery", "read", "write", "search"}
  OBVIOUS
<1> QED
  BY <1>1, Zenon DEF PruOwTypeOK

(* write_bits.                                                              *)
LEMMA WriteBitsKeeps ==
  ASSUME PInv, NEW now \in Passed(since), NEW hold \in Holds(now), WriteBits(now, hold),
         UNCHANGED <<short, present, sound>>
  PROVE  PInv'
<1> USE DEF PInv
<1>1. /\ owSt = "write" /\ owSt \in BitStates /\ InWrite /\ WriteBit(now, hold)
      /\ dir' = dir /\ bitsCount' = bitsCount /\ op' = op /\ taken' = taken
      /\ owIdx' = IF bitIo' = "ok" THEN owIdx + 1 ELSE owIdx
  BY Zenon DEF WriteBits, BitStates, InWrite
<1>2. /\ op \in {"write", "powerWrite"} /\ (power # "none" => op = "powerWrite")
      /\ bitsCount \in OwCounts /\ owIdx < bitsCount /\ owSaid = <<>> /\ (sound => ~short)
      /\ bitsCount \in Nat /\ owIdx \in Nat
  <2>1. owIdx \in Nat
    BY IndexOf, Zenon DEF PruOwTypeOK
  <2>2. owSt \in {"read", "write"} /\ owSt # "idle"
    BY <1>1
  <2>3. OwCounts \subseteq Nat
    BY PruOneWireAssumption, SMT
  <2> QED
    BY <1>1, <2>1, <2>2, <2>3, Zenon DEF Machine
<1>3. now \in Durations /\ now \in Nat /\ hold \in BOOLEAN
  BY PassedIs, Held, Zenon DEF PruOwTypeOK
<1>4. /\ bitIo' \in {"ok", "error", "pulse", "sample", "slotEnd"} /\ bits' = bits
      /\ since' \in Durations /\ master' \in {"released", "low", "strong"}
      /\ sensor' \in BOOLEAN /\ slots' \in Seq({0, 1})
      /\ power' \in {"none", "asked", "keep"} /\ (power = "none" => power' = "none")
  BY <1>1, <1>3, WriteBitTypes, Zenon
<1>5. /\ bitIo' = "error" => owSt' = "idle" /\ owSaid' = <<>>
      /\ bitIo' = "ok" /\ owIdx' >= bitsCount => owSt' = "idle" /\ owSaid' = <<"WriteBitsOk">>
      /\ bitIo' # "error" /\ ~(bitIo' = "ok" /\ owIdx' >= bitsCount) => owSt' = "write" /\ owSaid' = <<>>
      /\ owSaid' \in Seq(OwAnswerCodes)
  <2>1. bitIo' = "error" => owSt' = "idle" /\ owSaid' = owSaid
    BY Zenon DEF WriteBits, Goes, AfterShort
  <2>2. bitIo' # "error" /\ ~(bitIo' = "ok" /\ owIdx' >= bitsCount) => owSt' = "write" /\ owSaid' = owSaid
    BY Zenon DEF WriteBits, Goes
  <2>3. ASSUME bitIo' = "ok", owIdx' >= bitsCount
        PROVE  owSt' = "idle" /\ owSaid' = <<"WriteBitsOk">> /\ owSaid' \in Seq(OwAnswerCodes)
    <3>1. Answered("WriteBitsOk")
      BY <2>3 DEF WriteBits
    <3>2. "WriteBitsOk" \in OwAnswerCodes
      BY DEF OwAnswerCodes
    <3> QED
      BY <1>2, <3>1, <3>2, OwAnswers, Zenon
  <2> QED
    BY <1>2, <2>1, <2>2, <2>3, Zenon DEF PruOwTypeOK
<1>6. owIdx' \in Nat /\ owIdx' <= bitsCount /\ owIdx' \in Indexes
  <2>1. owIdx' \in 0..bitsCount
    BY <1>1, <1>2, SMT
  <2> QED
    BY <1>2, <2>1, IndexOf, SMT
<1>7. PruOwTypeOK'
  <2>1. owSt' \in {"idle", "read", "write", "search"} /\ bits' \in OwWords
    BY <1>4, <1>5 DEF PruOwTypeOK
  <2> QED
    BY <1>1, <1>4, <1>5, <1>6, <2>1, BitTypes, Zenon
<1>8. Machine'
  <2>1. CASE owSt' = "idle"
    <3>1. bitIo' \in {"ok", "error"}
      BY <1>5, <2>1
    <3>2. owSt' \notin ResetStates /\ owSt' # "read" /\ owSt' # "write" /\ owSt' # "search"
          /\ owSt' \notin {"read", "write"} /\ owSt' \notin {"presence", "cleared", "recovery"}
      BY <2>1 DEF ResetStates
    <3> QED
      BY <1>2, <2>1, <3>1, <3>2, Zenon DEF Machine, Finished
  <2>2. CASE owSt' = "write"
    <3>1. ~(bitIo' = "ok" /\ owIdx' >= bitsCount) /\ owSaid' = <<>>
      BY <1>5, <2>2
    <3>2. owIdx' < bitsCount'
      BY <1>1, <1>2, <1>6, <3>1, SMT
    <3>3. owSt' \notin ResetStates /\ owSt' # "read" /\ owSt' # "search" /\ owSt' \in BitStates
          /\ owSt' \notin {"presence", "cleared", "recovery"}
      BY <2>2 DEF ResetStates, BitStates
    <3> QED
      BY <1>1, <1>2, <1>4, <2>2, <3>1, <3>2, <3>3, Zenon DEF Machine
  <2> QED
    BY <1>5, <2>1, <2>2, Zenon
<1>9. CASE taken # 0
  BY <1>1, <1>7, <1>8, <1>9, TakenOver, Zenon
<1>10. CASE taken = 0
  <2>1. BitWritten
    BY <1>1, <1>10, WriteBitKeeps, Zenon
  <2>2. /\ power' = "asked" /\ owIdx = bitsCount - 1 => bitIo' \in {"ok", "error"}
        /\ power' = "keep" => owIdx = bitsCount - 1 /\ bitIo' = "sample"
    BY <1>1, <1>3, <1>10, WriteBitPower, Zenon
  <2>3. Slotted'
    <3> SUFFICES ASSUME owSt' = "write" PROVE Slotted'
      BY <1>5, Zenon DEF Slotted, BitStates
    <3>1. ~InRead' /\ bitIo' # "pulse" /\ bitIo' # "error"
      BY <1>5, <2>1 DEF InRead, BitWritten
    <3>2. Len(slots') = owIdx' + IF bitIo' = "slotEnd" THEN 1 ELSE 0
      <4>1. Len(slots') = owIdx + IF bitIo' \in {"slotEnd", "ok"} THEN 1 ELSE 0
        BY <2>1 DEF BitWritten
      <4>2. CASE bitIo' = "ok"
        BY <1>1, <1>2, <4>1, <4>2, SMT
      <4>3. CASE bitIo' = "slotEnd"
        BY <1>1, <1>2, <4>1, <4>3, SMT
      <4>4. CASE bitIo' \notin {"ok", "slotEnd"}
        BY <1>1, <1>2, <4>1, <4>4, SMT
      <4> QED
        BY <4>2, <4>3, <4>4, Zenon
    <3>3. master' = "low" => bitIo' = "sample"
      BY <2>1 DEF BitWritten
    <3>4. power' = "asked" /\ owIdx' = bitsCount' - 1 => Finished'
      BY <1>1, <2>2 DEF Finished
    <3>5. power' = "keep" => owIdx' = bitsCount' - 1 /\ bitIo' = "sample"
      BY <1>1, <2>2
    <3> QED
      BY <3>1, <3>2, <3>3, <3>4, <3>5, Zenon DEF Slotted
  <2>4. Seen'
    <3> SUFFICES ASSUME owSt' = "write", sound PROVE Seen'
      BY <1>5, SMT DEF Seen, BitStates
    <3>1. ~InRead' /\ bitIo' # "pulse" /\ bitIo' # "error" /\ owSt' # "search"
          /\ owSt' \notin {"presence", "cleared", "recovery"}
      BY <1>5, <2>1 DEF InRead, BitWritten
    <3>2. /\ ~sensor'
          /\ bitIo' = "sample" => since' = 0 \/ (bits[owIdx] = 0 /\ since' < Write0)
          /\ \A i \in 0..(owIdx - 1) : bits[i] = slots'[i + 1]
          /\ bitIo' \in {"slotEnd", "ok"} => bits[owIdx] = slots'[owIdx + 1]
      BY <2>1, Zenon DEF BitWritten
    <3>3. \A i \in 0..(owIdx' - 1) : bits'[i] = slots'[i + 1]
      <4>1. CASE bitIo' = "ok"
        <5>1. \A i \in 0..(owIdx' - 1) : i \in 0..(owIdx - 1) \/ i = owIdx
          BY <1>1, <1>2, <4>1, SMT
        <5>2. bitIo' \in {"slotEnd", "ok"}
          BY <4>1
        <5> QED
          BY <1>4, <3>2, <5>1, <5>2, Zenon
      <4>2. CASE bitIo' # "ok"
        <5>1. owIdx' = owIdx
          BY <1>1, <4>2, Zenon
        <5> QED
          BY <1>4, <3>2, <5>1, Zenon
      <4> QED
        BY <4>1, <4>2, Zenon
    <3>4. bitIo' # "ok" => owIdx' = owIdx
      BY <1>1, Zenon
    <3>5. Timed'
      <4>1. bitIo' = "sample" => since' = 0 \/ (bits'[owIdx'] = 0 /\ since' < Write0)
        BY <1>4, <3>2, <3>4
      <4> QED
        BY <3>1, <4>1, Zenon DEF Timed
    <3>6. bitIo' = "slotEnd" => bits'[owIdx'] = slots'[owIdx' + 1]
      <4>1. bitIo' = "slotEnd" => bitIo' # "ok" /\ bitIo' \in {"slotEnd", "ok"}
        BY SMT
      <4> QED
        BY <1>4, <3>2, <3>4, <4>1, Zenon
    <3> QED
      BY <3>1, <3>2, <3>3, <3>5, <3>6, Zenon DEF Seen
  <2>5. SoundOperation'
    <3> SUFFICES ASSUME owSt' = "idle", sound PROVE SoundOperation'
      BY Zenon DEF SoundOperation, Whole
    <3>1. bitIo' = "ok" /\ owIdx' >= bitsCount /\ owSaid' = <<"WriteBitsOk">>
      <4>1. bitIo' # "error"
        BY <2>1, Zenon DEF BitWritten
      <4> QED
        BY <1>5, <4>1
    <3>2. owIdx + 1 = bitsCount /\ Len(slots') = bitsCount
      <4>1. Len(slots') = owIdx + 1
        BY <2>1, <3>1 DEF BitWritten
      <4>2. owIdx' = owIdx + 1
        BY <1>1, <3>1, Zenon
      <4> QED
        BY <1>2, <3>1, <4>1, <4>2, SMT
    <3>3. \A i \in 0..(Len(slots') - 1) : bits'[i] = slots'[i + 1]
      <4>1. \A i \in 0..(Len(slots') - 1) : i \in 0..(owIdx - 1) \/ i = owIdx
        BY <1>2, <3>2, SMT
      <4>2. /\ \A i \in 0..(owIdx - 1) : bits[i] = slots'[i + 1]
            /\ bits[owIdx] = slots'[owIdx + 1]
        BY <2>1, <3>1 DEF BitWritten
      <4> QED
        BY <1>4, <4>1, <4>2, Zenon
    <3>4. /\ DOMAIN SlotsDone' = 0..(Len(slots') - 1)
          /\ \A i \in 0..(Len(slots') - 1) : SlotsDone'[i] = slots'[i + 1]
      BY Zenon DEF SlotsDone
    <3>5. op' # "init" /\ op' # "read" /\ op' \in {"write", "powerWrite"}
      BY <1>1, <1>2
    <3>6. /\ owSaid' = <<"WriteBitsOk">> /\ Len(slots') = bitsCount'
          /\ \A i \in DOMAIN SlotsDone' : bits'[i] = SlotsDone'[i]
      BY <1>1, <3>1, <3>2, <3>3, <3>4, Zenon
    <3> QED
      BY <3>5, <3>6, Zenon DEF SoundOperation
  <2>6. StrongWhenDone'
    <3> SUFFICES ASSUME master' = "strong" PROVE StrongWhenDone'
      BY Zenon DEF StrongWhenDone
    <3>1. CASE master = "strong" /\ slots' = slots
      BY <1>1, <1>10, <3>1, Zenon DEF WireSound, StrongWhenDone
    <3>2. CASE power = "keep" /\ Len(slots') = owIdx + 1
      <4>1. owIdx = bitsCount - 1
        BY <1>1, <1>10, <3>2, Zenon DEF Slotted
      <4>2. Len(slots') = bitsCount'
        BY <1>1, <1>2, <3>2, <4>1, SMT
      <4>3. op' = "powerWrite"
        BY <1>1, <1>2, <3>2
      <4> QED
        BY <4>2, <4>3, Zenon DEF StrongWhenDone
    <3> QED
      BY <2>1, <3>1, <3>2, Zenon DEF BitWritten
  <2>7. LetGo'
    <3> SUFFICES ASSUME owSt' = "idle" PROVE master' # "low"
      BY Zenon DEF LetGo
    <3>1. bitIo' # "sample"
      BY <1>5
    <3> QED
      BY <2>1, <3>1 DEF BitWritten
  <2> QED
    BY <1>7, <1>8, <2>3, <2>4, <2>5, <2>6, <2>7, Zenon DEF WireSound
<1> QED
  BY <1>9, <1>10, Zenon

(* read_bits.                                                               *)
LEMMA ReadBitsKeeps ==
  ASSUME PInv, NEW now \in Passed(since), NEW hold \in Holds(now), ReadBits(now, hold),
         UNCHANGED <<short, present, sound>>
  PROVE  PInv'
<1> USE DEF PInv
<1>1. /\ owSt = "read" /\ owSt \in BitStates /\ InRead /\ ReadBit(now, hold)
      /\ dir' = dir /\ bitsCount' = bitsCount /\ op' = op /\ taken' = taken
      /\ owIdx' = IF bitIo' = "ok" THEN owIdx + 1 ELSE owIdx
  BY Zenon DEF ReadBits, BitStates, InRead
<1>2. /\ op = "read" /\ bitsCount \in OwCounts /\ owIdx < bitsCount /\ owSaid = <<>> /\ (sound => ~short)
      /\ bitsCount \in Nat /\ owIdx \in Nat
  <2>1. owIdx \in Nat
    BY IndexOf, Zenon DEF PruOwTypeOK
  <2>2. owSt \in {"read", "write"} /\ owSt # "idle"
    BY <1>1
  <2>3. OwCounts \subseteq Nat
    BY PruOneWireAssumption, SMT
  <2> QED
    BY <1>1, <2>1, <2>2, <2>3, Zenon DEF Machine
<1>3. now \in Durations /\ now \in Nat /\ hold \in BOOLEAN
  BY PassedIs, Held, Zenon DEF PruOwTypeOK
<1>4. /\ bitIo' \in {"ok", "error", "pulse", "sample", "slotEnd"} /\ bits' \in OwWords
      /\ since' \in Durations /\ master' \in {"released", "low", "strong"}
      /\ sensor' \in BOOLEAN /\ slots' \in Seq({0, 1}) /\ power' = power
  BY <1>1, <1>3, ReadBitTypes, Zenon
<1>5. /\ bitIo' = "error" => owSt' = "idle" /\ owSaid' = <<"ReadBitsFailure">>
      /\ bitIo' = "ok" /\ owIdx' >= bitsCount => owSt' = "idle" /\ owSaid' = <<"ReadBitsOk">>
      /\ bitIo' # "error" /\ ~(bitIo' = "ok" /\ owIdx' >= bitsCount) => owSt' = "read" /\ owSaid' = <<>>
      /\ owSaid' \in Seq(OwAnswerCodes)
  <2>1. "ReadBitsOk" \in OwAnswerCodes /\ "ReadBitsFailure" \in OwAnswerCodes
    BY DEF OwAnswerCodes, ReadOk
  <2>2. bitIo' # "error" /\ ~(bitIo' = "ok" /\ owIdx' >= bitsCount) => owSt' = "read" /\ owSaid' = owSaid
    BY Zenon DEF ReadBits, Goes
  <2>3. ASSUME bitIo' = "ok", owIdx' >= bitsCount
        PROVE  owSt' = "idle" /\ owSaid' = <<"ReadBitsOk">> /\ owSaid' \in Seq(OwAnswerCodes)
    <3>1. Answered("ReadBitsOk")
      BY <2>3 DEF ReadBits
    <3> QED
      BY <1>2, <2>1, <3>1, OwAnswers, Zenon
  <2>4. ASSUME bitIo' = "error"
        PROVE  owSt' = "idle" /\ owSaid' = <<"ReadBitsFailure">> /\ owSaid' \in Seq(OwAnswerCodes)
    <3>1. Answered("ReadBitsFailure")
      BY <2>4 DEF ReadBits
    <3> QED
      BY <1>2, <2>1, <3>1, OwAnswers, Zenon
  <2> QED
    BY <1>2, <2>2, <2>3, <2>4, Zenon DEF PruOwTypeOK
<1>6. owIdx' \in Nat /\ owIdx' <= bitsCount /\ owIdx' \in Indexes
  <2>1. owIdx' \in 0..bitsCount
    BY <1>1, <1>2, SMT
  <2> QED
    BY <1>2, <2>1, IndexOf, SMT
<1>7. PruOwTypeOK'
  <2>1. owSt' \in {"idle", "read", "write", "search"} /\ power' \in {"none", "asked", "keep"}
    BY <1>4, <1>5 DEF PruOwTypeOK
  <2> QED
    BY <1>1, <1>4, <1>5, <1>6, <2>1, BitTypes, Zenon
<1>8. Machine'
  <2>1. CASE owSt' = "idle"
    <3>1. bitIo' \in {"ok", "error"}
      BY <1>5, <2>1
    <3>2. owSt' \notin ResetStates /\ owSt' # "read" /\ owSt' # "write" /\ owSt' # "search"
          /\ owSt' \notin {"read", "write"} /\ owSt' \notin {"presence", "cleared", "recovery"}
      BY <2>1 DEF ResetStates
    <3> QED
      BY <1>2, <2>1, <3>1, <3>2, Zenon DEF Machine, Finished
  <2>2. CASE owSt' = "read"
    <3>1. ~(bitIo' = "ok" /\ owIdx' >= bitsCount) /\ owSaid' = <<>>
      BY <1>5, <2>2
    <3>2. owIdx' < bitsCount'
      BY <1>1, <1>2, <1>6, <3>1, SMT
    <3>3. owSt' \notin ResetStates /\ owSt' # "write" /\ owSt' # "search" /\ owSt' \in BitStates
          /\ owSt' \notin {"presence", "cleared", "recovery"}
      BY <2>2 DEF ResetStates, BitStates
    <3> QED
      BY <1>1, <1>2, <1>4, <2>2, <3>1, <3>2, <3>3, Zenon DEF Machine
  <2> QED
    BY <1>5, <2>1, <2>2, Zenon
<1>9. CASE taken # 0
  BY <1>1, <1>7, <1>8, <1>9, TakenOver, Zenon
<1>10. CASE taken = 0
  <2>1. BitRead
    BY <1>1, <1>10, ReadBitKeeps, Zenon
  <2>3. Slotted'
    <3> SUFFICES ASSUME owSt' = "read" PROVE Slotted'
      BY <1>5, Zenon DEF Slotted, BitStates
    <3>1. InRead' /\ bitIo' # "error" /\ owSt' # "write"
      BY <1>5 DEF InRead
    <3>2. Len(slots') = owIdx' + IF bitIo' = "slotEnd" \/ (InRead' /\ ~Finished') THEN 1 ELSE 0
      <4>1. Len(slots') = owIdx + 1
        BY <2>1, <3>1 DEF BitRead
      <4>2. CASE bitIo' = "ok"
        <5>1. owIdx' = owIdx + 1 /\ ~(bitIo' = "slotEnd" \/ (InRead' /\ ~Finished'))
          BY <1>1, <4>2 DEF Finished
        <5>2. Len(slots') = owIdx' + 0
          BY <1>2, <4>1, <5>1, SMT
        <5> QED
          BY <5>1, <5>2, Zenon
      <4>3. CASE bitIo' # "ok"
        <5>1. owIdx' = owIdx /\ (bitIo' = "slotEnd" \/ (InRead' /\ ~Finished'))
          BY <1>1, <3>1, <4>3 DEF Finished
        <5> QED
          BY <4>1, <5>1, Zenon
      <4> QED
        BY <4>2, <4>3, Zenon
    <3>3. master' = "low" => bitIo' = "pulse"
      BY <2>1 DEF BitRead
    <3> QED
      BY <3>1, <3>2, <3>3, Zenon DEF Slotted
  <2>4. Seen'
    <3> SUFFICES ASSUME owSt' = "read", sound PROVE Seen'
      BY <1>5, SMT DEF Seen, BitStates
    <3>1. InRead' /\ bitIo' # "error" /\ owSt' # "search" /\ owSt' \notin {"presence", "cleared", "recovery"}
      BY <1>5 DEF InRead
    <3>2. /\ bitIo' = "pulse" => since' = 0
          /\ bitIo' = "sample" => since' \in {1, 2}
          /\ bitIo' \in {"pulse", "sample"} => (sensor' <=> slots'[owIdx + 1] = 0)
          /\ bitIo' = "ok" => ~sensor'
          /\ \A i \in 0..(owIdx - 1) : bits'[i] = slots'[i + 1]
          /\ bitIo' \in {"slotEnd", "ok"} => bits'[owIdx] = slots'[owIdx + 1]
      BY <2>1, Zenon DEF BitRead
    <3>3. \A i \in 0..(owIdx' - 1) : bits'[i] = slots'[i + 1]
      <4>1. CASE bitIo' = "ok"
        <5>1. \A i \in 0..(owIdx' - 1) : i \in 0..(owIdx - 1) \/ i = owIdx
          BY <1>1, <1>2, <4>1, SMT
        <5>2. bitIo' \in {"slotEnd", "ok"}
          BY <4>1
        <5> QED
          BY <3>2, <5>1, <5>2, Zenon
      <4>2. CASE bitIo' # "ok"
        <5>1. owIdx' = owIdx
          BY <1>1, <4>2, Zenon
        <5> QED
          BY <3>2, <5>1, Zenon
      <4> QED
        BY <4>1, <4>2, Zenon
    <3>4. bitIo' \in {"pulse", "sample", "slotEnd"} => owIdx' = owIdx /\ bitIo' # "ok"
      BY <1>1
    <3>5. Timed'
      BY <3>1, <3>2, Zenon DEF Timed
    <3>6. bitIo' = "slotEnd" => bits'[owIdx'] = slots'[owIdx' + 1]
      <4>1. bitIo' = "slotEnd" => bitIo' \in {"slotEnd", "ok"} /\ bitIo' \in {"pulse", "sample", "slotEnd"}
        BY SMT
      <4> QED
        BY <3>2, <3>4, <4>1, Zenon
    <3>7. bitIo' \in {"pulse", "sample"} => (sensor' <=> slots'[owIdx' + 1] = 0)
      <4>1. bitIo' \in {"pulse", "sample"} => bitIo' \in {"pulse", "sample", "slotEnd"}
        BY SMT
      <4> QED
        BY <3>2, <3>4, <4>1, Zenon
    <3>8. Finished' => ~sensor'
      BY <3>1, <3>2, Zenon DEF Finished
    <3> QED
      BY <3>1, <3>3, <3>5, <3>6, <3>7, <3>8, Zenon DEF Seen
  <2>5. SoundOperation'
    <3> SUFFICES ASSUME owSt' = "idle", sound PROVE SoundOperation'
      BY Zenon DEF SoundOperation, Whole
    <3>1. bitIo' = "ok" /\ owIdx' >= bitsCount /\ owSaid' = <<"ReadBitsOk">>
      <4>1. bitIo' # "error"
        BY <2>1, Zenon DEF BitRead
      <4> QED
        BY <1>5, <4>1
    <3>2. owIdx + 1 = bitsCount /\ Len(slots') = bitsCount
      <4>1. Len(slots') = owIdx + 1
        BY <2>1, <3>1 DEF BitRead
      <4>2. owIdx' = owIdx + 1
        BY <1>1, <3>1, Zenon
      <4> QED
        BY <1>2, <3>1, <4>1, <4>2, SMT
    <3>3. \A i \in 0..(Len(slots') - 1) : bits'[i] = slots'[i + 1]
      <4>1. \A i \in 0..(Len(slots') - 1) : i \in 0..(owIdx - 1) \/ i = owIdx
        BY <1>2, <3>2, SMT
      <4>2. /\ \A i \in 0..(owIdx - 1) : bits'[i] = slots'[i + 1]
            /\ bits'[owIdx] = slots'[owIdx + 1]
        BY <2>1, <3>1 DEF BitRead
      <4> QED
        BY <4>1, <4>2, Zenon
    <3>4. /\ DOMAIN SlotsDone' = 0..(Len(slots') - 1)
          /\ \A i \in 0..(Len(slots') - 1) : SlotsDone'[i] = slots'[i + 1]
      BY Zenon DEF SlotsDone
    <3>5. op' # "init" /\ op' = "read"
      BY <1>1, <1>2
    <3>6. /\ owSaid' = <<"ReadBitsOk">> /\ Len(slots') = bitsCount'
          /\ \A i \in DOMAIN SlotsDone' : bits'[i] = SlotsDone'[i]
      BY <1>1, <3>1, <3>2, <3>3, <3>4, Zenon
    <3> QED
      BY <3>5, <3>6, Zenon DEF SoundOperation
  <2>6. StrongWhenDone'
    <3> SUFFICES ASSUME master' = "strong" PROVE StrongWhenDone'
      BY Zenon DEF StrongWhenDone
    <3>1. master = "strong" /\ slots' = slots
      BY <2>1, Zenon DEF BitRead
    <3> QED
      BY <1>1, <1>10, <3>1, Zenon DEF WireSound, StrongWhenDone
  <2>7. LetGo'
    <3> SUFFICES ASSUME owSt' = "idle" PROVE master' # "low"
      BY Zenon DEF LetGo
    <3>1. bitIo' # "pulse"
      BY <1>5
    <3> QED
      BY <2>1, <3>1 DEF BitRead
  <2> QED
    BY <1>7, <1>8, <2>3, <2>4, <2>5, <2>6, <2>7, Zenon DEF WireSound
<1> QED
  BY <1>9, <1>10, Zenon

-----------------------------------------------------------------------------
(* What a triplet answers is one of the answers.                            *)
LEMMA TripletAnswers ==
  \A a \in {0, 1}, b \in {0, 1} :
    /\ TripletAnswer[<<a, b>>] \in OwAnswerCodes
    /\ a = 1 /\ b = 1 => TripletAnswer[<<a, b>>] = "SearchResult11"
<1> TAKE a \in {0, 1}, b \in {0, 1}
<1> DEFINE Code(v) == CASE v = <<0, 0>> -> "SearchResult00" [] v = <<1, 0>> -> "SearchResult0"
                        [] v = <<0, 1>> -> "SearchResult1"  [] v = <<1, 1>> -> "SearchResult11"
<1>1. <<a, b>> \in {0, 1} \X {0, 1}
  BY SMT
<1>2. TripletAnswer = [v \in {0, 1} \X {0, 1} |-> Code(v)]
  BY Zenon DEF TripletAnswer
<1>3. TripletAnswer[<<a, b>>] = Code(<<a, b>>)
  <2> HIDE DEF Code
  <2> QED
    BY <1>1, <1>2, Zenon
<1>4. /\ Code(<<0, 0>>) = "SearchResult00" /\ Code(<<1, 0>>) = "SearchResult0"
      /\ Code(<<0, 1>>) = "SearchResult1" /\ Code(<<1, 1>>) = "SearchResult11"
  BY SMT
<1>5. (a = 0 \/ a = 1) /\ (b = 0 \/ b = 1)
  BY SMT
<1> HIDE DEF Code
<1>6. CASE a = 1 /\ b = 1
  BY <1>3, <1>4, <1>6 DEF OwAnswerCodes
<1>7. CASE ~(a = 1 /\ b = 1)
  BY <1>3, <1>4, <1>5, <1>7 DEF OwAnswerCodes
<1> QED
  BY <1>6, <1>7, Zenon

(* What both halves of a triplet start from.                                *)
LEMMA TripletFacts ==
  ASSUME PInv, NEW now \in Passed(since), NEW hold \in Holds(now), Triplet(now, hold)
  PROVE  /\ owSt = "search" /\ owSt \in BitStates
         /\ dir' = dir /\ bitsCount' = bitsCount /\ op' = op /\ taken' = taken
         /\ op = "search" /\ owIdx \in 0..2 /\ owSaid = <<>> /\ (sound => ~short)
         /\ now \in Durations /\ now \in Nat /\ hold \in BOOLEAN
         /\ bits[0] \in {0, 1} /\ bits[1] \in {0, 1} /\ bits[2] \in {0, 1}
<1> USE DEF PInv
<1>1. /\ owSt = "search" /\ owSt \in BitStates /\ owSt # "idle"
      /\ dir' = dir /\ bitsCount' = bitsCount /\ op' = op /\ taken' = taken
  BY Zenon DEF Triplet, BitStates
<1>2. op = "search" /\ owIdx <= 2 /\ owSaid = <<>> /\ (sound => ~short)
  BY <1>1, Zenon DEF Machine
<1>3. owIdx \in Nat
  BY IndexOf, Zenon DEF PruOwTypeOK
<1>4. owIdx \in 0..2
  BY <1>2, <1>3, SMT
<1>5. now \in Durations /\ now \in Nat /\ hold \in BOOLEAN
  BY PassedIs, Held, Zenon DEF PruOwTypeOK
<1>6. bits[0] \in {0, 1} /\ bits[1] \in {0, 1} /\ bits[2] \in {0, 1}
  BY IndexOf, SMT DEF PruOwTypeOK, OwWords
<1> QED
  BY <1>1, <1>2, <1>4, <1>5, <1>6, Zenon

(* search, its first two slots.                                             *)
LEMMA TripletReads ==
  ASSUME PInv, NEW now \in Passed(since), NEW hold \in Holds(now), Triplet(now, hold), owIdx < 2,
         UNCHANGED <<short, present, sound>>
  PROVE  PInv'
<1> USE DEF PInv
<1>1. /\ owSt = "search" /\ owSt \in BitStates
      /\ dir' = dir /\ bitsCount' = bitsCount /\ op' = op /\ taken' = taken
      /\ op = "search" /\ owIdx \in 0..2 /\ owSaid = <<>> /\ (sound => ~short)
      /\ now \in Durations /\ now \in Nat /\ hold \in BOOLEAN
      /\ bits[0] \in {0, 1} /\ bits[1] \in {0, 1} /\ bits[2] \in {0, 1}
  BY TripletFacts, Zenon
<1>2. InRead /\ ReadBit(now, hold) /\ owIdx' = IF bitIo' = "ok" THEN owIdx + 1 ELSE owIdx
  BY <1>1, Zenon DEF Triplet, InRead
<1>3. (owIdx = 0 \/ owIdx = 1) /\ owIdx # 2
  BY <1>1, SMT
<1>4. /\ bitIo' \in {"ok", "error", "pulse", "sample", "slotEnd"} /\ bits' \in OwWords
      /\ since' \in Durations /\ master' \in {"released", "low", "strong"}
      /\ sensor' \in BOOLEAN /\ slots' \in Seq({0, 1}) /\ power' = power
  BY <1>1, <1>2, ReadBitTypes, Zenon
<1> DEFINE NoSensor == bitIo' = "ok" /\ owIdx' = 2 /\ bits[0] = 1 /\ bits[1] = 1
<1>5. /\ bitIo' = "error" => owSt' = "idle" /\ owSaid' = <<"ReadBitsFailure">>
      /\ NoSensor => owSt' = "idle" /\ owSaid' = <<"SearchResult11">>
      /\ bitIo' # "error" /\ ~NoSensor => owSt' = "search" /\ owSaid' = <<>>
      /\ owSaid' \in Seq(OwAnswerCodes)
  <2>1. "ReadBitsFailure" \in OwAnswerCodes /\ "SearchResult11" \in OwAnswerCodes
    BY DEF OwAnswerCodes
  <2>2. bitIo' # "error" /\ ~NoSensor => owSt' = "search" /\ owSaid' = owSaid
    BY <1>3, Zenon DEF Triplet, Goes
  <2>3. ASSUME NoSensor
        PROVE  owSt' = "idle" /\ owSaid' = <<"SearchResult11">> /\ owSaid' \in Seq(OwAnswerCodes)
    <3>1. TripletAnswer[<<bits[0], bits[1]>>] = "SearchResult11"
      BY <1>1, <2>3, TripletAnswers, Zenon
    <3>2. bitIo' # "error"
      BY <2>3
    <3>3. Answered("SearchResult11")
      BY <2>3, <3>1, <3>2, Zenon DEF Triplet
    <3> QED
      BY <1>1, <2>1, <3>3, OwAnswers, Zenon
  <2>4. ASSUME bitIo' = "error"
        PROVE  owSt' = "idle" /\ owSaid' = <<"ReadBitsFailure">> /\ owSaid' \in Seq(OwAnswerCodes)
    <3>1. Answered("ReadBitsFailure")
      BY <2>4, Zenon DEF Triplet
    <3> QED
      BY <1>1, <2>1, <3>1, OwAnswers, Zenon
  <2> QED
    BY <1>1, <2>2, <2>3, <2>4, Zenon DEF PruOwTypeOK
<1>6. owIdx' \in 0..2 /\ owIdx' \in Nat /\ owIdx' \in Indexes
  <2>1. owIdx' \in 0..2
    BY <1>2, <1>3, SMT
  <2> QED
    BY <2>1, IndexOf, SMT
<1>7. PruOwTypeOK'
  <2>1. owSt' \in {"idle", "read", "write", "search"} /\ power' \in {"none", "asked", "keep"}
    BY <1>4, <1>5 DEF PruOwTypeOK
  <2> QED
    BY <1>1, <1>4, <1>5, <1>6, <2>1, BitTypes, Zenon
<1>8. Machine'
  <2>1. CASE owSt' = "idle"
    <3>1. bitIo' \in {"ok", "error"}
      BY <1>5, <2>1
    <3>2. owSt' \notin ResetStates /\ owSt' # "read" /\ owSt' # "write" /\ owSt' # "search"
          /\ owSt' \notin {"read", "write"} /\ owSt' \notin {"presence", "cleared", "recovery"}
      BY <2>1 DEF ResetStates
    <3> QED
      BY <1>1, <2>1, <3>1, <3>2, Zenon DEF Machine, Finished
  <2>2. CASE owSt' = "search"
    <3>1. owSaid' = <<>>
      BY <1>5, <2>2
    <3>2. owIdx' <= 2
      BY <1>6, SMT
    <3>3. owSt' \notin ResetStates /\ owSt' # "write" /\ owSt' # "read" /\ owSt' \in BitStates
          /\ owSt' \notin {"presence", "cleared", "recovery"} /\ owSt' \notin {"read", "write"}
      BY <2>2 DEF ResetStates, BitStates
    <3> QED
      BY <1>1, <2>2, <3>1, <3>2, <3>3, Zenon DEF Machine
  <2> QED
    BY <1>5, <2>1, <2>2, Zenon
<1>9. CASE taken # 0
  BY <1>1, <1>7, <1>8, <1>9, TakenOver, Zenon
<1>10. CASE taken = 0
  <2>1. BitRead
    BY <1>1, <1>2, <1>10, ReadBitKeeps, Zenon
  <2>2. bitIo' # "ok" => InRead' \/ owSt' = "idle"
    BY <1>2, <1>3, <1>5 DEF InRead
  <2>3. Slotted'
    <3> SUFFICES ASSUME owSt' = "search" PROVE Slotted'
      BY <1>5, Zenon DEF Slotted, BitStates
    <3>1. bitIo' # "error" /\ owSt' # "write" /\ (bitIo' # "ok" => InRead')
      BY <1>5, <2>2
    <3>2. Len(slots') = owIdx' + IF bitIo' = "slotEnd" \/ (InRead' /\ ~Finished') THEN 1 ELSE 0
      <4>1. Len(slots') = owIdx + 1
        BY <2>1, <3>1 DEF BitRead
      <4>2. CASE bitIo' = "ok"
        <5>1. owIdx' = owIdx + 1 /\ ~(bitIo' = "slotEnd" \/ (InRead' /\ ~Finished'))
          BY <1>2, <4>2 DEF Finished
        <5>2. Len(slots') = owIdx' + 0
          BY <1>1, <4>1, <5>1, SMT
        <5> QED
          BY <5>1, <5>2, Zenon
      <4>3. CASE bitIo' # "ok"
        <5>1. owIdx' = owIdx /\ (bitIo' = "slotEnd" \/ (InRead' /\ ~Finished'))
          BY <1>2, <3>1, <4>3 DEF Finished
        <5> QED
          BY <4>1, <5>1, Zenon
      <4> QED
        BY <4>2, <4>3, Zenon
    <3>3. (master' = "low" => bitIo' = "pulse") /\ (bitIo' = "pulse" => InRead')
      BY <2>1, <3>1 DEF BitRead
    <3> QED
      BY <3>1, <3>2, <3>3, Zenon DEF Slotted
  <2>4. /\ bitIo' \notin {"error"} => Len(slots') = owIdx + 1
        /\ sound =>
            /\ bitIo' = "pulse" => since' = 0
            /\ bitIo' = "sample" => since' \in {1, 2}
            /\ bitIo' \in {"pulse", "sample"} => (sensor' <=> slots'[owIdx + 1] = 0)
            /\ bitIo' = "ok" => ~sensor'
            /\ \A i \in 0..(owIdx - 1) : bits'[i] = slots'[i + 1]
            /\ bitIo' \in {"slotEnd", "ok"} => bits'[owIdx] = slots'[owIdx + 1]
    BY <2>1, Zenon DEF BitRead
  <2>5. ASSUME bitIo' = "ok"
        PROVE  /\ bits'[0] = bits[0] /\ bits'[1] = bits[1]
               /\ owIdx = 1 => bits'[2] = Branch'
    <3>1. bitIo = "slotEnd"
      <4>1. CASE Finished
        <5>1. bitIo \notin {"pulse", "sample", "slotEnd"}
          BY <4>1 DEF Finished
        <5>2. bitIo' = "error" \/ bitIo' = "pulse"
          BY <1>2, <5>1, Zenon DEF ReadBit, Pull
        <5> QED
          BY <2>5, <5>2
      <4>2. CASE bitIo = "pulse"
        <5>1. bitIo' = "sample" \/ bitIo' = bitIo
          BY <1>2, <4>2, Zenon DEF ReadBit, Finished
        <5> QED
          BY <2>5, <4>2, <5>1
      <4>3. CASE bitIo = "sample"
        <5>1. bitIo' = "slotEnd" \/ bitIo' = bitIo
          BY <1>2, <4>3, Zenon DEF ReadBit, Finished
        <5> QED
          BY <2>5, <4>3, <5>1
      <4> QED
        BY <4>1, <4>2, <4>3, Zenon DEF PruOwTypeOK, Finished
    <3>2. /\ bitIo' = IF now >= Slot THEN "ok" ELSE bitIo
          /\ bits' = IF owSt = "search" /\ owIdx = 1 /\ now >= Slot THEN [bits EXCEPT ![2] = Branch] ELSE bits
      BY <1>2, <3>1, Zenon DEF ReadBit, Finished
    <3>3. now >= Slot
      BY <2>5, <3>1, <3>2
    <3>4. CASE owIdx = 1
      <4>1. bits' = [bits EXCEPT ![2] = Branch]
        BY <1>1, <3>2, <3>3, <3>4
      <4>2. bits'[0] = bits[0] /\ bits'[1] = bits[1] /\ bits'[2] = Branch
        BY <4>1, IndexOf, SMT DEF PruOwTypeOK, OwWords
      <4>3. Branch' = Branch
        <5>1. Branch' = IF bits'[0] # bits'[1] THEN bits'[0] ELSE IF bits'[0] = 0 THEN dir' ELSE bits'[2]
          BY DEF Branch
        <5> HIDE DEF Branch
        <5>2. bits'[0] # 0 /\ bits'[0] = bits'[1] => Branch = bits[2]
          BY <4>2 DEF Branch
        <5> QED
          BY <1>1, <4>2, <5>1, <5>2 DEF Branch
      <4> QED
        BY <4>2, <4>3
    <3>5. CASE owIdx # 1
      BY <3>2, <3>5
    <3> QED
      BY <3>4, <3>5, Zenon
  <2>6. Seen'
    <3> SUFFICES ASSUME owSt' = "search", sound PROVE Seen'
      BY <1>5, SMT DEF Seen, BitStates
    <3>1. bitIo' # "error" /\ owSt' \notin {"presence", "cleared", "recovery"} /\ (bitIo' # "ok" => InRead') /\ ~NoSensor
      BY <1>5, <2>2
    <3>3. \A i \in 0..(owIdx' - 1) : bits'[i] = slots'[i + 1]
      <4>1. CASE bitIo' = "ok"
        <5>1. \A i \in 0..(owIdx' - 1) : i \in 0..(owIdx - 1) \/ i = owIdx
          BY <1>2, <1>3, <4>1, SMT
        <5>2. bitIo' \in {"slotEnd", "ok"}
          BY <4>1
        <5> QED
          BY <2>4, <5>1, <5>2, Zenon
      <4>2. CASE bitIo' # "ok"
        <5>1. owIdx' = owIdx
          BY <1>2, <4>2, Zenon
        <5> QED
          BY <2>4, <5>1, Zenon
      <4> QED
        BY <4>1, <4>2, Zenon
    <3>4. bitIo' \in {"pulse", "sample", "slotEnd"} => owIdx' = owIdx /\ bitIo' # "ok"
      BY <1>2
    <3>5. Timed'
      <4>1. bitIo' = "sample" => InRead'
        BY <3>1
      <4> QED
        BY <2>4, <4>1, Zenon DEF Timed
    <3>6. bitIo' = "slotEnd" => bits'[owIdx'] = slots'[owIdx' + 1]
      <4>1. bitIo' = "slotEnd" => bitIo' \in {"slotEnd", "ok"} /\ bitIo' \in {"pulse", "sample", "slotEnd"}
        BY SMT
      <4> QED
        BY <2>4, <3>4, <4>1, Zenon
    <3>7. bitIo' \in {"pulse", "sample"} => (sensor' <=> slots'[owIdx' + 1] = 0)
      <4>1. bitIo' \in {"pulse", "sample"} => bitIo' \in {"pulse", "sample", "slotEnd"}
        BY SMT
      <4> QED
        BY <2>4, <3>4, <4>1, Zenon
    <3>8. ~InRead' \/ Finished' => ~sensor'
      BY <2>4, <3>1, Zenon DEF Finished
    <3>9. owIdx' = 2 => bits'[2] = Branch' /\ ~(bits'[0] = 1 /\ bits'[1] = 1)
      <4> SUFFICES ASSUME owIdx' = 2 PROVE bits'[2] = Branch' /\ ~(bits'[0] = 1 /\ bits'[1] = 1)
        OBVIOUS
      <4>1. bitIo' = "ok" /\ owIdx = 1
        BY <1>2, <1>3
      <4>2. ~(bits[0] = 1 /\ bits[1] = 1)
        BY <3>1, <4>1
      <4> QED
        BY <2>5, <4>1, <4>2
    <3> HIDE DEF NoSensor
    <3> QED
      BY <3>1, <3>3, <3>5, <3>6, <3>7, <3>8, <3>9, Zenon DEF Seen
  <2>7. SoundOperation'
    <3> SUFFICES ASSUME owSt' = "idle", sound PROVE SoundOperation'
      BY Zenon DEF SoundOperation, Whole
    <3>1. NoSensor /\ owSaid' = <<"SearchResult11">>
      <4>1. bitIo' # "error"
        BY <2>1, Zenon DEF BitRead
      <4> QED
        BY <1>5, <4>1
    <3>2. owIdx = 1 /\ bitIo' = "ok" /\ bitIo' \in {"slotEnd", "ok"} /\ bitIo' \notin {"error"}
      BY <1>2, <1>3, <3>1
    <3>3. Len(slots') = 2
      BY <2>4, <3>2
    <3>4. slots'[1] = 1 /\ slots'[2] = 1
      <4>1. bits'[0] = slots'[0 + 1] /\ bits'[1] = slots'[1 + 1]
        <5>1. 0 \in 0..(owIdx - 1)
          BY <3>2, SMT
        <5> QED
          BY <2>4, <3>2, <5>1, Zenon
      <4>2. bits'[0] = 1 /\ bits'[1] = 1
        BY <2>5, <3>1, <3>2
      <4>3. 0 + 1 = 1 /\ 1 + 1 = 2
        BY SMT
      <4> QED
        BY <4>1, <4>2, <4>3, Zenon
    <3>5. slots' = <<1, 1>>
      <4>1. /\ <<1, 1>> \in Seq({0, 1}) /\ Len(<<1, 1>>) = 2 /\ <<1, 1>>[1] = 1 /\ <<1, 1>>[2] = 1
        BY SMT
      <4>2. \A i \in 1..2 : i = 1 \/ i = 2
        BY SMT
      <4> QED
        BY <1>4, <3>3, <3>4, <4>1, <4>2, SeqEqual, Zenon
    <3>6. op' = "search" /\ op' # "init" /\ op' # "read" /\ op' \notin {"write", "powerWrite"}
      BY <1>1
    <3> HIDE DEF NoSensor
    <3> QED
      BY <3>1, <3>5, <3>6, Zenon DEF SoundOperation
  <2>8. StrongWhenDone'
    <3> SUFFICES ASSUME master' = "strong" PROVE StrongWhenDone'
      BY Zenon DEF StrongWhenDone
    <3>1. master = "strong" /\ slots' = slots
      BY <2>1, Zenon DEF BitRead
    <3> QED
      BY <1>1, <1>10, <3>1, Zenon DEF WireSound, StrongWhenDone
  <2>9. LetGo'
    <3> SUFFICES ASSUME owSt' = "idle" PROVE master' # "low"
      BY Zenon DEF LetGo
    <3>1. bitIo' # "pulse"
      BY <1>5
    <3> QED
      BY <2>1, <3>1 DEF BitRead
  <2> HIDE DEF NoSensor
  <2> QED
    BY <1>7, <1>8, <2>3, <2>6, <2>7, <2>8, <2>9, Zenon DEF WireSound
<1> HIDE DEF NoSensor
<1> QED
  BY <1>9, <1>10, Zenon

(* search, its third slot.                                                  *)
LEMMA TripletWrites ==
  ASSUME PInv, NEW now \in Passed(since), NEW hold \in Holds(now), Triplet(now, hold), ~(owIdx < 2),
         UNCHANGED <<short, present, sound>>
  PROVE  PInv'
<1> USE DEF PInv
<1>1. /\ owSt = "search" /\ owSt \in BitStates
      /\ dir' = dir /\ bitsCount' = bitsCount /\ op' = op /\ taken' = taken
      /\ op = "search" /\ owIdx \in 0..2 /\ owSaid = <<>> /\ (sound => ~short)
      /\ now \in Durations /\ now \in Nat /\ hold \in BOOLEAN
      /\ bits[0] \in {0, 1} /\ bits[1] \in {0, 1} /\ bits[2] \in {0, 1}
  BY TripletFacts, Zenon
<1>2. owIdx = 2
  BY <1>1, SMT
<1>3. InWrite /\ WriteBit(now, hold) /\ owIdx' = owIdx
  BY <1>1, <1>2, Zenon DEF Triplet, InWrite
<1>4. /\ bitIo' \in {"ok", "error", "pulse", "sample", "slotEnd"} /\ bits' = bits
      /\ since' \in Durations /\ master' \in {"released", "low", "strong"}
      /\ sensor' \in BOOLEAN /\ slots' \in Seq({0, 1})
      /\ power' \in {"none", "asked", "keep"} /\ (power = "none" => power' = "none")
  BY <1>1, <1>3, WriteBitTypes, Zenon
<1>5. /\ bitIo' = "error" => owSt' = "idle" /\ owSaid' = <<"WriteBitsFailure">>
      /\ bitIo' = "ok" => owSt' = "idle" /\ owSaid' = <<TripletAnswer[<<bits[0], bits[1]>>]>>
      /\ bitIo' \notin {"error", "ok"} => owSt' = "search" /\ owSaid' = <<>>
      /\ owSaid' \in Seq(OwAnswerCodes)
  <2>1. "WriteBitsFailure" \in OwAnswerCodes
    BY DEF OwAnswerCodes
  <2>2. bitIo' \notin {"error", "ok"} => owSt' = "search" /\ owSaid' = owSaid
    <3> SUFFICES ASSUME bitIo' \notin {"error", "ok"} PROVE owSt' = "search" /\ owSaid' = owSaid
      OBVIOUS
    <3>1. bitIo' # "error" /\ bitIo' # "ok"
      OBVIOUS
    <3> QED
      BY <3>1, Zenon DEF Triplet, Goes
  <2>3. ASSUME bitIo' = "ok"
        PROVE  /\ owSt' = "idle" /\ owSaid' = <<TripletAnswer[<<bits[0], bits[1]>>]>>
               /\ owSaid' \in Seq(OwAnswerCodes)
    <3>1. TripletAnswer[<<bits[0], bits[1]>>] \in OwAnswerCodes
      BY <1>1, TripletAnswers, Zenon
    <3>2. bitIo' # "error"
      BY <2>3
    <3>3. Answered(TripletAnswer[<<bits[0], bits[1]>>])
      BY <1>2, <2>3, <3>2, Zenon DEF Triplet
    <3> QED
      BY <1>1, <3>1, <3>3, OwAnswers, Zenon
  <2>4. ASSUME bitIo' = "error"
        PROVE  owSt' = "idle" /\ owSaid' = <<"WriteBitsFailure">> /\ owSaid' \in Seq(OwAnswerCodes)
    <3>1. Answered("WriteBitsFailure")
      BY <2>4, Zenon DEF Triplet
    <3> QED
      BY <1>1, <2>1, <3>1, OwAnswers, Zenon
  <2>5. bitIo' = "error" \/ bitIo' = "ok" \/ bitIo' \notin {"error", "ok"}
    OBVIOUS
  <2> QED
    BY <1>1, <2>2, <2>3, <2>4, <2>5, Zenon DEF PruOwTypeOK
<1>7. PruOwTypeOK'
  <2>1. owSt' \in {"idle", "read", "write", "search"} /\ bits' \in OwWords /\ owIdx' \in Indexes
    BY <1>3, <1>4, <1>5 DEF PruOwTypeOK
  <2> QED
    BY <1>1, <1>4, <1>5, <2>1, BitTypes, Zenon
<1>8. Machine'
  <2>1. CASE owSt' = "idle"
    <3>1. bitIo' \in {"ok", "error"}
      BY <1>5, <2>1
    <3>2. owSt' \notin ResetStates /\ owSt' # "read" /\ owSt' # "write" /\ owSt' # "search"
          /\ owSt' \notin {"read", "write"} /\ owSt' \notin {"presence", "cleared", "recovery"}
      BY <2>1 DEF ResetStates
    <3> QED
      BY <1>1, <2>1, <3>1, <3>2, Zenon DEF Machine, Finished
  <2>2. CASE owSt' = "search"
    <3>1. owSaid' = <<>>
      BY <1>5, <2>2
    <3>2. owIdx' <= 2
      BY <1>2, <1>3, SMT
    <3>3. owSt' \notin ResetStates /\ owSt' # "write" /\ owSt' # "read" /\ owSt' \in BitStates
          /\ owSt' \notin {"presence", "cleared", "recovery"} /\ owSt' \notin {"read", "write"}
      BY <2>2 DEF ResetStates, BitStates
    <3> QED
      BY <1>1, <2>2, <3>1, <3>2, <3>3, Zenon DEF Machine
  <2> QED
    BY <1>5, <2>1, <2>2, Zenon
<1>9. CASE taken # 0
  BY <1>1, <1>7, <1>8, <1>9, TakenOver, Zenon
<1>10. CASE taken = 0
  <2>1. BitWritten
    BY <1>1, <1>3, <1>10, WriteBitKeeps, Zenon
  <2>2. ~InRead'
    <3>1. owSt' # "read" /\ ~(owIdx' < 2)
      BY <1>2, <1>3, <1>5, SMT
    <3> QED
      BY <3>1, Zenon DEF InRead
  <2>3. Slotted'
    <3> SUFFICES ASSUME owSt' = "search" PROVE Slotted'
      BY <1>5, Zenon DEF Slotted, BitStates
    <3>1. bitIo' # "error" /\ bitIo' # "ok" /\ bitIo' # "pulse" /\ owSt' # "write"
      BY <1>5, <2>1 DEF BitWritten
    <3>2. Len(slots') = owIdx' + IF bitIo' = "slotEnd" THEN 1 ELSE 0
      <4>1. bitIo' \in {"slotEnd", "ok"} <=> bitIo' = "slotEnd"
        BY <3>1, SMT
      <4> QED
        BY <1>3, <2>1, <4>1, Zenon DEF BitWritten
    <3>3. master' = "low" => bitIo' = "sample"
      BY <2>1 DEF BitWritten
    <3> QED
      BY <2>2, <3>1, <3>2, <3>3, Zenon DEF Slotted
  <2>4. Seen'
    <3> SUFFICES ASSUME owSt' = "search", sound PROVE Seen'
      BY <1>5, SMT DEF Seen, BitStates
    <3>1. bitIo' # "error" /\ bitIo' # "ok" /\ bitIo' # "pulse" /\ owSt' \notin {"presence", "cleared", "recovery"}
      BY <1>5, <2>1 DEF BitWritten
    <3>2. /\ ~sensor'
          /\ bitIo' = "sample" => since' = 0 \/ (bits[owIdx] = 0 /\ since' < Write0)
          /\ \A i \in 0..(owIdx - 1) : bits[i] = slots'[i + 1]
          /\ bitIo' \in {"slotEnd", "ok"} => bits[owIdx] = slots'[owIdx + 1]
      BY <2>1, Zenon DEF BitWritten
    <3>3. /\ \A i \in 0..(owIdx' - 1) : bits'[i] = slots'[i + 1]
          /\ bitIo' = "slotEnd" => bits'[owIdx'] = slots'[owIdx' + 1]
      <4>1. bitIo' = "slotEnd" => bitIo' \in {"slotEnd", "ok"}
        BY SMT
      <4> QED
        BY <1>3, <1>4, <3>2, <4>1, Zenon
    <3>4. Timed'
      <4>1. bitIo' = "sample" => since' = 0 \/ (bits'[owIdx'] = 0 /\ since' < Write0)
        BY <1>3, <1>4, <3>2
      <4> QED
        BY <2>2, <4>1, Zenon DEF Timed
    <3>5. bits'[2] = Branch' /\ ~(bits'[0] = 1 /\ bits'[1] = 1)
      <4>1. bits[2] = Branch /\ ~(bits[0] = 1 /\ bits[1] = 1)
        BY <1>1, <1>2, <1>10, Zenon DEF Seen
      <4> QED
        BY <1>1, <1>4, <4>1, Zenon DEF Branch
    <3> QED
      BY <2>2, <3>1, <3>2, <3>3, <3>4, <3>5, Zenon DEF Seen
  <2>5. SoundOperation'
    <3> SUFFICES ASSUME owSt' = "idle", sound PROVE SoundOperation'
      BY Zenon DEF SoundOperation, Whole
    <3>1. bitIo' = "ok" /\ owSaid' = <<TripletAnswer[<<bits[0], bits[1]>>]>>
      <4>1. bitIo' # "error"
        BY <2>1, Zenon DEF BitWritten
      <4> QED
        BY <1>5, <4>1
    <3>2. Len(slots') = 3
      <4>1. Len(slots') = owIdx + 1
        BY <2>1, <3>1 DEF BitWritten
      <4> QED
        BY <1>2, <4>1, SMT
    <3>3. slots'[1] = bits[0] /\ slots'[2] = bits[1] /\ slots'[3] = bits[2]
      <4>1. /\ \A i \in 0..(2 - 1) : bits[i] = slots'[i + 1]
            /\ bits[2] = slots'[2 + 1]
        BY <1>2, <2>1, <3>1 DEF BitWritten
      <4>2. 0 \in 0..(2 - 1) /\ 1 \in 0..(2 - 1) /\ 0 + 1 = 1 /\ 1 + 1 = 2 /\ 2 + 1 = 3
        BY SMT
      <4> QED
        BY <4>1, <4>2, Zenon
    <3>4. slots'[3] = IF slots'[1] # slots'[2] THEN slots'[1] ELSE dir'
      <4>1. bits[2] = Branch /\ ~(bits[0] = 1 /\ bits[1] = 1)
        BY <1>1, <1>2, <1>10, Zenon DEF Seen
      <4>2. bits[2] = IF bits[0] # bits[1] THEN bits[0] ELSE dir
        BY <1>1, <4>1 DEF Branch
      <4> QED
        BY <1>1, <3>3, <4>2, Zenon
    <3>5. owSaid' = <<TripletAnswer[<<slots'[1], slots'[2]>>]>>
      BY <3>1, <3>3, Zenon
    <3>6. op' = "search" /\ op' # "init" /\ op' # "read" /\ op' \notin {"write", "powerWrite"}
      BY <1>1
    <3> QED
      BY <3>2, <3>4, <3>5, <3>6, Zenon DEF SoundOperation
  <2>6. StrongWhenDone'
    <3> SUFFICES ASSUME master' = "strong" PROVE StrongWhenDone'
      BY Zenon DEF StrongWhenDone
    <3>1. CASE master = "strong" /\ slots' = slots
      BY <1>1, <1>10, <3>1, Zenon DEF WireSound, StrongWhenDone
    <3>2. CASE power = "keep" /\ Len(slots') = owIdx + 1
      <4>1. Len(slots') = 3 /\ op' = "search"
        BY <1>1, <1>2, <3>2, SMT
      <4> QED
        BY <4>1, Zenon DEF StrongWhenDone
    <3> QED
      BY <2>1, <3>1, <3>2, Zenon DEF BitWritten
  <2>7. LetGo'
    <3> SUFFICES ASSUME owSt' = "idle" PROVE master' # "low"
      BY Zenon DEF LetGo
    <3>1. bitIo' # "sample"
      BY <1>5
    <3> QED
      BY <2>1, <3>1 DEF BitWritten
  <2> QED
    BY <1>7, <1>8, <2>3, <2>4, <2>5, <2>6, <2>7, Zenon DEF WireSound
<1> QED
  BY <1>9, <1>10, Zenon

-----------------------------------------------------------------------------
(* What a step of a reset leaves alone.                                     *)
ResetKeeps == UNCHANGED <<bitIo, owIdx, power, bits, dir, bitsCount, op, slots, taken, short, present, sound>>

(* A reset has no slots, and drives the wire strongly only as it was.       *)
LEMMA ResetParts ==
  ASSUME PInv, owSt \in ResetStates, ResetKeeps, owSt' \in ResetStates \cup {"idle"},
         owSaid' \in Seq(OwAnswerCodes), owSt' # "idle" => owSaid' = owSaid,
         since' \in Durations, master' \in {"released", "low", "strong"}, sensor' \in BOOLEAN,
         master' # master => master' = "released",
         owSt' \in {"presence", "cleared", "recovery"} => master' = "released"
  PROVE  PruOwTypeOK' /\ Machine' /\ Slotted' /\ StrongWhenDone' /\ op' = "init"
<1> USE DEF PInv, ResetKeeps
<1>1. PruOwTypeOK'
  <2>1. owSt' \in {"idle", "falling", "reset", "presence", "cleared", "recovery", "read", "write", "search"}
    BY SMT DEF ResetStates
  <2> QED
    BY <2>1, Zenon DEF PruOwTypeOK
<1>2. /\ owSt \notin BitStates /\ owSt # "idle"
      /\ owSt' \notin BitStates /\ owSt' # "read" /\ owSt' # "write" /\ owSt' # "search"
      /\ owSt' \notin {"read", "write"}
  BY SMT DEF ResetStates, BitStates
<1>3. op = "init" /\ owSaid = <<>> /\ Finished /\ (sound => ~short)
  BY <1>2, Zenon DEF Machine
<1>4. Machine'
  BY <1>2, <1>3, Zenon DEF Machine, Finished
<1>5. Slotted'
  BY <1>2, Zenon DEF Slotted
<1>6. StrongWhenDone'
  <2>1. master' = "strong" => master = "strong"
    OBVIOUS
  <2> QED
    BY <2>1, Zenon DEF WireSound, StrongWhenDone
<1> QED
  BY <1>1, <1>3, <1>4, <1>5, <1>6, Zenon

(* ow_init: falling edge.                                                   *)
LEMMA FallingEdgeKeeps ==
  ASSUME PInv, NEW now \in Passed(since), NEW hold \in Holds(now), FallingEdge(now, hold), ResetKeeps
  PROVE  PInv'
<1> USE DEF PInv
<1>1. owSt = "falling" /\ owSt \in ResetStates /\ sensor' = hold /\ owSaid = <<>>
  <2>1. owSt = "falling"
    BY DEF FallingEdge
  <2> QED
    BY <2>1, Zenon DEF FallingEdge, ResetStates, Machine
<1>2. now \in Durations /\ 0 \in Durations /\ hold \in BOOLEAN
  <2>1. 0 \in Durations
    BY SMT DEF Durations, PresenceT
  <2> QED
    BY <2>1, PassedIs, Held, Zenon DEF PruOwTypeOK
<1>3. "BusFailure1" \in OwAnswerCodes
  BY DEF OwAnswerCodes
<1>4. \/ owSt' = "reset" /\ owSaid' = owSaid /\ since' = 0 /\ master' = master
      \/ owSt' = "falling" /\ owSaid' = owSaid /\ since' = now /\ master' = master
      \/ /\ owSt' = "idle" /\ owSaid' = <<"BusFailure1">> /\ owSaid' \in Seq(OwAnswerCodes)
         /\ since' = now /\ master' = "released" /\ ~sound
  <2>1. CASE Goes("reset") /\ since' = 0 /\ UNCHANGED master
    BY <2>1, Zenon DEF Goes
  <2>2. CASE since' = now /\ ~sound /\ now >= Falling /\ Answered("BusFailure1") /\ master' = AfterBreak
    BY <1>1, <1>3, <2>2, OwAnswers, Zenon DEF AfterBreak
  <2>3. CASE since' = now /\ Goes("falling") /\ UNCHANGED master
    BY <2>3, Zenon DEF Goes
  <2> QED
    BY <2>1, <2>2, <2>3, Zenon DEF FallingEdge
<1>5. owSt' \in {"reset", "falling", "idle"} /\ (owSt' # "idle" => owSaid' = owSaid)
      /\ (master' # master => master' = "released") /\ (owSt' = "idle" => master' = "released" /\ ~sound)
  BY <1>4
<1>6. owSt' \in ResetStates \cup {"idle"} /\ owSt' \notin {"presence", "cleared", "recovery"}
      /\ owSt' \notin BitStates
  BY <1>5 DEF ResetStates, BitStates
<1>7. owSaid' \in Seq(OwAnswerCodes) /\ since' \in Durations /\ sensor' \in BOOLEAN
      /\ master' \in {"released", "low", "strong"}
  <2>1. master' = master \/ master' = "released"
    BY <1>5
  <2>2. master' \in {"released", "low", "strong"}
    BY <2>1, Zenon DEF PruOwTypeOK
  <2> QED
    BY <1>1, <1>2, <1>4, <2>2, Zenon DEF PruOwTypeOK
<1>8. PruOwTypeOK' /\ Machine' /\ Slotted' /\ StrongWhenDone'
  BY <1>1, <1>5, <1>6, <1>7, ResetParts, Zenon
<1>9. Seen'
  BY <1>6, SMT DEF Seen, BitStates
<1>10. SoundOperation' /\ LetGo'
  <2>1. owSt' = "idle" => master' # "low"
    BY <1>5
  <2>2. sound' = sound
    BY Zenon DEF ResetKeeps
  <2> QED
    BY <1>5, <2>1, <2>2, Zenon DEF SoundOperation, Whole, LetGo
<1> QED
  BY <1>8, <1>9, <1>10, Zenon DEF WireSound

(* ow_init: the pulse.                                                      *)
LEMMA ResetFinishedKeeps ==
  ASSUME PInv, NEW now \in Passed(since), NEW hold \in Holds(now), ResetFinished(now, hold), ResetKeeps
  PROVE  PInv'
<1> USE DEF PInv
<1>1. owSt = "reset" /\ owSt \in ResetStates /\ since' = now
  BY Zenon DEF ResetFinished, ResetStates
<1>2. now \in Durations /\ hold \in BOOLEAN
  BY PassedIs, Held, Zenon DEF PruOwTypeOK
<1>3. \/ owSt' = "presence" /\ owSaid' = owSaid /\ master' = "released" /\ sensor' = present
      \/ owSt' = "reset" /\ owSaid' = owSaid /\ master' = master /\ sensor' = hold
  BY Zenon DEF ResetFinished, Goes
<1>4. owSt' \in {"presence", "reset"} /\ owSaid' = owSaid /\ (master' # master => master' = "released")
      /\ (owSt' \in {"presence", "cleared", "recovery"} => master' = "released")
  BY <1>3
<1>5. owSt' \in ResetStates \cup {"idle"} /\ owSt' \notin BitStates /\ owSt' # "idle"
      /\ owSt' # "cleared" /\ owSt' # "recovery"
  BY <1>4 DEF ResetStates, BitStates
<1>6. owSaid' \in Seq(OwAnswerCodes) /\ since' \in Durations /\ sensor' \in BOOLEAN
      /\ master' \in {"released", "low", "strong"}
  <2>1. master' = master \/ master' = "released"
    BY <1>4
  <2>2. master' \in {"released", "low", "strong"}
    BY <2>1, Zenon DEF PruOwTypeOK
  <2> QED
    BY <1>1, <1>2, <1>3, <2>2, Zenon DEF PruOwTypeOK
<1>7. PruOwTypeOK' /\ Machine' /\ Slotted' /\ StrongWhenDone'
  BY <1>1, <1>4, <1>5, <1>6, ResetParts, Zenon
<1>8. Seen'
  <2>1. owSt' = "presence" => (sensor' <=> present')
    <3>1. owSt' = "presence" => owSt' # "reset"
      OBVIOUS
    <3>2. present' = present
      BY Zenon DEF ResetKeeps
    <3> QED
      BY <1>3, <3>1, <3>2, Zenon
  <2> QED
    BY <1>5, <2>1, Zenon DEF Seen
<1>9. SoundOperation' /\ LetGo'
  BY <1>5, Zenon DEF SoundOperation, Whole, LetGo
<1> QED
  BY <1>7, <1>8, <1>9, Zenon DEF WireSound

(* ow_init: until the presence pulse.                                       *)
LEMMA WaitPresenceKeeps ==
  ASSUME PInv, NEW now \in Passed(since), NEW hold \in Holds(now), WaitPresence(now, hold), ResetKeeps
  PROVE  PInv'
<1> USE DEF PInv
<1>1. /\ owSt = "presence" /\ owSt \in ResetStates /\ owSt \in {"presence", "cleared", "recovery"}
      /\ sensor' = hold /\ master' = master
  BY Zenon DEF WaitPresence, ResetStates
<1>2. now \in Durations /\ 0 \in Durations /\ hold \in BOOLEAN /\ (hold <=> sensor)
  <2>1. 0 \in Durations
    BY SMT DEF Durations, PresenceT
  <2> QED
    BY <1>1, <2>1, PassedIs, Held, Zenon DEF PruOwTypeOK
<1>3. \/ owSt' = "cleared" /\ owSaid' = owSaid /\ since' = 0
      \/ owSt' = "presence" /\ owSaid' = owSaid /\ since' = now
  BY Zenon DEF WaitPresence, Goes
<1>4. owSt' \in {"presence", "cleared"} /\ owSaid' = owSaid /\ (owSt' = "cleared" => since' = 0)
  BY <1>3
<1>5. owSt' \in ResetStates \cup {"idle"} /\ owSt' \notin BitStates /\ owSt' # "idle" /\ owSt' # "recovery"
  BY <1>4 DEF ResetStates, BitStates
<1>6. owSaid' \in Seq(OwAnswerCodes) /\ since' \in Durations /\ sensor' \in BOOLEAN
      /\ master' \in {"released", "low", "strong"} /\ master' = "released"
  BY <1>1, <1>2, <1>3, Zenon DEF PruOwTypeOK, Machine
<1>7. PruOwTypeOK' /\ Machine' /\ Slotted' /\ StrongWhenDone'
  BY <1>1, <1>4, <1>5, <1>6, ResetParts, Zenon
<1>8. Seen'
  <2>1. sound' /\ taken' = 0 => (sensor' <=> present')
    <3>1. present' = present /\ sound' = sound /\ taken' = taken
      BY Zenon DEF ResetKeeps
    <3>2. sound /\ taken = 0 => (sensor <=> present)
      BY <1>1, Zenon DEF Seen
    <3> SUFFICES ASSUME sound', taken' = 0 PROVE sensor' <=> present'
      OBVIOUS
    <3> QED
      BY <1>1, <1>2, <3>1, <3>2, Zenon
  <2> QED
    BY <1>4, <1>5, <2>1, Zenon DEF Seen
<1>9. SoundOperation' /\ LetGo'
  BY <1>5, Zenon DEF SoundOperation, Whole, LetGo
<1> QED
  BY <1>7, <1>8, <1>9, Zenon DEF WireSound

(* ow_init: until the presence pulse is over.                               *)
LEMMA PresenceClearedKeeps ==
  ASSUME PInv, NEW now \in Passed(since), NEW hold \in Holds(now), PresenceCleared(now, hold), ResetKeeps
  PROVE  PInv'
<1> USE DEF PInv
<1>1. /\ owSt = "cleared" /\ owSt \in ResetStates /\ owSt \in {"presence", "cleared", "recovery"}
      /\ sensor' = hold /\ master' = master /\ since' = now /\ owSaid = <<>>
  <2>1. owSt = "cleared" /\ owSt # "idle"
    BY Zenon DEF PresenceCleared
  <2> QED
    BY <2>1, Zenon DEF PresenceCleared, ResetStates, Machine
<1>2. /\ now \in Durations /\ now \in Nat /\ hold \in BOOLEAN
      /\ ~sensor => ~hold
      /\ sensor /\ now < Sample => hold
      /\ now >= PresenceMax => ~hold
  BY <1>1, PassedIs, Held, Zenon DEF PruOwTypeOK
<1>3. now = since \/ now = since + 1
  BY PassedIs, Zenon DEF PruOwTypeOK
<1>4. "BusFailureTimeout" \in OwAnswerCodes /\ "NoPresence" \in OwAnswerCodes
  BY DEF OwAnswerCodes
<1>5. master = "released" /\ (sound => ~short)
  BY <1>1, Zenon DEF Machine
<1>6. sound => (Active(hold) <=> hold)
  <2>1. master # "low"
    BY <1>5
  <2> QED
    BY <1>5, <2>1, Zenon DEF Active
<1>7. sound /\ taken = 0 => (sensor <=> present) /\ (~present => since = 0)
  BY <1>1, Zenon DEF Seen
<1>8. \/ Active(hold) /\ now >= PresenceMax /\ owSt' = "idle" /\ owSaid' = <<"BusFailureTimeout">>
         /\ owSaid' \in Seq(OwAnswerCodes)
      \/ Active(hold) /\ owSt' = "cleared" /\ owSaid' = owSaid
      \/ ~Active(hold) /\ now < Sample /\ owSt' = "idle" /\ owSaid' = <<"NoPresence">>
         /\ owSaid' \in Seq(OwAnswerCodes)
      \/ ~Active(hold) /\ ~(now < Sample) /\ owSt' = "recovery" /\ owSaid' = owSaid
  BY <1>1, <1>4, OwAnswers, Zenon DEF PresenceCleared, Goes, Early
<1>9. owSt' \in {"idle", "cleared", "recovery"} /\ (owSt' # "idle" => owSaid' = owSaid)
  BY <1>8
<1>10. owSt' \in ResetStates \cup {"idle"} /\ owSt' \notin BitStates /\ owSt' # "presence"
  BY <1>9 DEF ResetStates, BitStates
<1>11. owSaid' \in Seq(OwAnswerCodes) /\ since' \in Durations /\ sensor' \in BOOLEAN
       /\ master' \in {"released", "low", "strong"} /\ master' = "released"
  BY <1>1, <1>2, <1>5, <1>8, Zenon DEF PruOwTypeOK
<1>12. PruOwTypeOK' /\ Machine' /\ Slotted' /\ StrongWhenDone' /\ op' = "init"
  BY <1>1, <1>9, <1>10, <1>11, ResetParts, Zenon
<1>13. present' = present /\ sound' = sound /\ taken' = taken
  BY Zenon DEF ResetKeeps
<1>14. ASSUME sound, taken = 0
       PROVE  \/ owSt' = "cleared" /\ hold /\ present
              \/ owSt' = "idle" /\ owSaid' = <<"NoPresence">> /\ ~present
              \/ owSt' = "recovery" /\ present
  <2>1. CASE present
    <3>1. ~Active(hold) => ~(now < Sample)
      BY <1>2, <1>6, <1>7, <1>14, <2>1, Zenon
    <3>2. Active(hold) => ~(now >= PresenceMax)
      BY <1>2, <1>6, <1>14, Zenon
    <3> QED
      BY <1>6, <1>8, <1>14, <2>1, <3>1, <3>2, Zenon
  <2>2. CASE ~present
    <3>1. ~Active(hold)
      BY <1>2, <1>6, <1>7, <1>14, <2>2, Zenon
    <3>2. now < Sample
      <4>1. since = 0
        BY <1>7, <1>14, <2>2, Zenon
      <4> QED
        BY <1>3, <4>1, SMT DEF Sample
    <3> QED
      BY <1>8, <2>2, <3>1, <3>2, Zenon
  <2> QED
    BY <2>1, <2>2, Zenon
<1>15. Seen'
  <2> SUFFICES ASSUME sound, taken = 0 PROVE Seen'
    BY <1>13, Zenon DEF Seen
  <2>1. owSt' = "cleared" => (sensor' <=> present') /\ present'
    <3> SUFFICES ASSUME owSt' = "cleared" PROVE hold /\ present
      BY <1>1, <1>13, Zenon
    <3>1. owSt' # "idle" /\ owSt' # "recovery"
      OBVIOUS
    <3> QED
      BY <1>14, <3>1, Zenon
  <2>2. owSt' = "recovery" => present'
    <3> SUFFICES ASSUME owSt' = "recovery" PROVE present
      BY <1>13, Zenon
    <3>1. owSt' # "idle"
      OBVIOUS
    <3> QED
      BY <1>14, <3>1, Zenon
  <2> QED
    BY <1>10, <2>1, <2>2, Zenon DEF Seen
<1>16. SoundOperation' /\ LetGo'
  <2>1. LetGo'
    <3>1. master' # "low"
      BY <1>11
    <3> QED
      BY <3>1, Zenon DEF LetGo
  <2>2. SoundOperation'
    <3> SUFFICES ASSUME owSt' = "idle", sound, taken = 0 PROVE SoundOperation'
      BY <1>13, Zenon DEF SoundOperation, Whole
    <3>1. owSt' # "cleared" /\ owSt' # "recovery"
      OBVIOUS
    <3>2. owSaid' = <<IF present' THEN "PresenceOk" ELSE "NoPresence">>
      BY <1>13, <1>14, <3>1, Zenon
    <3> QED
      BY <1>12, <3>2, Zenon DEF SoundOperation
  <2> QED
    BY <2>1, <2>2, Zenon
<1> QED
  BY <1>12, <1>15, <1>16, Zenon DEF WireSound

(* ow_init: until the next operation may begin.                             *)
LEMMA RecoveryKeeps ==
  ASSUME PInv, NEW now \in Passed(since), NEW hold \in Holds(now), Recovery(now, hold), ResetKeeps
  PROVE  PInv'
<1> USE DEF PInv
<1>1. /\ owSt = "recovery" /\ owSt \in ResetStates /\ owSt \in {"presence", "cleared", "recovery"}
      /\ sensor' = hold /\ master' = master /\ since' = now /\ owSaid = <<>>
  <2>1. owSt = "recovery" /\ owSt # "idle"
    BY Zenon DEF Recovery
  <2> QED
    BY <2>1, Zenon DEF Recovery, ResetStates, Machine
<1>2. now \in Durations /\ hold \in BOOLEAN
  BY PassedIs, Held, Zenon DEF PruOwTypeOK
<1>3. "PresenceOk" \in OwAnswerCodes
  BY DEF OwAnswerCodes
<1>4. \/ owSt' = "idle" /\ owSaid' = <<"PresenceOk">> /\ owSaid' \in Seq(OwAnswerCodes)
      \/ owSt' = "recovery" /\ owSaid' = owSaid
  BY <1>1, <1>3, OwAnswers, Zenon DEF Recovery, Goes
<1>5. owSt' \in {"idle", "recovery"} /\ (owSt' # "idle" => owSaid' = owSaid)
      /\ (owSt' = "idle" => owSaid' = <<"PresenceOk">>)
  BY <1>4
<1>6. owSt' \in ResetStates \cup {"idle"} /\ owSt' \notin BitStates /\ owSt' # "presence" /\ owSt' # "cleared"
  BY <1>5 DEF ResetStates, BitStates
<1>7. owSaid' \in Seq(OwAnswerCodes) /\ since' \in Durations /\ sensor' \in BOOLEAN
      /\ master' \in {"released", "low", "strong"} /\ master' = "released"
  BY <1>1, <1>2, <1>4, Zenon DEF PruOwTypeOK, Machine
<1>8. PruOwTypeOK' /\ Machine' /\ Slotted' /\ StrongWhenDone' /\ op' = "init"
  BY <1>1, <1>5, <1>6, <1>7, ResetParts, Zenon
<1>9. present' = present /\ sound' = sound /\ taken' = taken
  BY Zenon DEF ResetKeeps
<1>10. sound /\ taken = 0 => present
  BY <1>1, Zenon DEF Seen
<1>11. Seen'
  BY <1>6, <1>9, <1>10, Zenon DEF Seen
<1>12. SoundOperation' /\ LetGo'
  <2>1. master' # "low"
    BY <1>7
  <2>2. owSt' = "idle" /\ sound /\ taken = 0 => owSaid' = <<IF present' THEN "PresenceOk" ELSE "NoPresence">>
    BY <1>5, <1>9, <1>10, Zenon
  <2> QED
    BY <1>8, <1>9, <2>1, <2>2, Zenon DEF SoundOperation, Whole, LetGo
<1> QED
  BY <1>8, <1>11, <1>12, Zenon DEF WireSound

-----------------------------------------------------------------------------
(* A turn without a command.                                                *)
LEMMA TurnKeeps == PInv /\ Turn => PInv'
<1> SUFFICES ASSUME PInv, Turn PROVE PInv'
  OBVIOUS
<1>1. short' = short /\ present' = present /\ sound' = sound
  BY Zenon DEF Turn
<1> DEFINE A(now, hold) ==
        Idle(now, hold) \/ ResetSteps(now, hold) \/ WriteBits(now, hold) \/ ReadBits(now, hold)
        \/ Triplet(now, hold)
<1>0. PICK now \in Passed(since) : \E hold \in Holds(now) : A(now, hold)
  BY Zenon DEF Turn
<1>2. PICK hold \in Holds(now) :
        Idle(now, hold) \/ ResetSteps(now, hold) \/ WriteBits(now, hold) \/ ReadBits(now, hold)
        \/ Triplet(now, hold)
  BY <1>0, Zenon
<1>3. CASE ResetSteps(now, hold)
  <2>1. ResetKeeps
    BY <1>1, <1>3, Zenon DEF ResetSteps, ResetKeeps
  <2> QED
    BY <1>3, <2>1, FallingEdgeKeeps, ResetFinishedKeeps, WaitPresenceKeeps, PresenceClearedKeeps,
       RecoveryKeeps, Zenon DEF ResetSteps
<1>4. CASE WriteBits(now, hold)
  BY <1>1, <1>4, WriteBitsKeeps, Zenon
<1>5. CASE ReadBits(now, hold)
  BY <1>1, <1>5, ReadBitsKeeps, Zenon
<1>6. CASE Triplet(now, hold)
  BY <1>1, <1>6, TripletReads, TripletWrites, Zenon
<1>7. CASE Idle(now, hold)
  <2>1. /\ owSt = "idle" /\ sensor' = hold
        /\ owSt' = owSt /\ bitIo' = bitIo /\ owIdx' = owIdx /\ power' = power /\ bits' = bits /\ dir' = dir
        /\ bitsCount' = bitsCount /\ since' = since /\ master' = master /\ op' = op /\ owSaid' = owSaid
        /\ slots' = slots /\ taken' = taken
    BY <1>7, Zenon DEF Idle
  <2>2. sensor' \in BOOLEAN
    BY <2>1, PassedIs, Held, Zenon DEF PInv, PruOwTypeOK
  <2>3. PruOwTypeOK'
    BY <1>1, <2>1, <2>2, Zenon DEF PInv, PruOwTypeOK
  <2>4. Machine'
    BY <1>1, <2>1, Zenon DEF PInv, Machine, Finished
  <2>5. owSt' \notin BitStates /\ owSt' \notin {"presence", "cleared", "recovery"}
    BY <2>1 DEF BitStates
  <2>6. Slotted' /\ Seen'
    BY <2>5, SMT DEF Slotted, Seen
  <2>7. WireSound'
    <3>1. SlotsDone' = SlotsDone
      BY <2>1, Zenon DEF SlotsDone
    <3>2. SoundOperation'
      BY <1>1, <2>1, <3>1, Zenon DEF PInv, WireSound, SoundOperation, Whole
    <3> QED
      BY <2>1, <3>2, Zenon DEF PInv, WireSound, StrongWhenDone, LetGo
  <2> QED
    BY <2>3, <2>4, <2>6, <2>7, Zenon DEF PInv
<1> QED
  BY <1>2, <1>3, <1>4, <1>5, <1>6, <1>7, Zenon

(* A wire that is shorted is sound no more.                                 *)
LEMMA ShortKeeps == PInv /\ ShortChanges => PInv'
<1> SUFFICES ASSUME PInv, ShortChanges PROVE PInv'
  OBVIOUS
<1> USE DEF PInv
<1>1. /\ short' = ~short /\ sound' = FALSE /\ present' = present /\ sensor' = sensor
      /\ owSt' = owSt /\ bitIo' = bitIo /\ owIdx' = owIdx /\ power' = power /\ bits' = bits /\ dir' = dir
      /\ bitsCount' = bitsCount /\ since' = since /\ master' = master /\ op' = op /\ owSaid' = owSaid
      /\ slots' = slots /\ taken' = taken
  BY Zenon DEF ShortChanges
<1>2. PruOwTypeOK'
  <2>1. short' \in BOOLEAN /\ sound' \in BOOLEAN
    BY <1>1, Zenon
  <2>2. /\ present' = present /\ sensor' = sensor
        /\ owSt' = owSt /\ bitIo' = bitIo /\ owIdx' = owIdx /\ power' = power /\ bits' = bits /\ dir' = dir
        /\ bitsCount' = bitsCount /\ since' = since /\ master' = master /\ op' = op /\ owSaid' = owSaid
        /\ slots' = slots /\ taken' = taken
    BY <1>1, Zenon
  <2> QED
    BY <2>1, <2>2, Zenon DEF PruOwTypeOK
<1>3. Machine'
  BY <1>1, Zenon DEF Machine, Finished
<1>4. Slotted'
  BY <1>1, Zenon DEF Slotted, InRead, Finished
<1>5. Seen' /\ SoundOperation'
  BY <1>1, Zenon DEF Seen, SoundOperation, Whole
<1>6. StrongWhenDone' /\ LetGo'
  BY <1>1, Zenon DEF WireSound, StrongWhenDone, LetGo
<1> QED
  BY <1>2, <1>3, <1>4, <1>5, <1>6, Zenon DEF WireSound

-----------------------------------------------------------------------------
(* An operation begins where the last one left the wire; one that is taken  *)
(* over is promised nothing.                                                *)
LEMMA BeginsClean ==
  ASSUME PInv, Takes,
         owSt' \in BitStates, owIdx' = 0, slots' = <<>>, owSaid' = <<>>, UNCHANGED <<bitIo, master, since, sensor>>,
         owSt' = "write" => power' \in {"none", "asked"}
  PROVE  Slotted' /\ Seen' /\ WireSound'
<1> USE DEF PInv
<1>1. CASE owSt # "idle" \/ taken # 0
  <2>1. taken' # 0
    <3>1. taken \in Nat
      BY PruOneWireAssumption, SMT DEF PruOwTypeOK
    <3>2. taken' = IF owSt = "idle" THEN taken ELSE taken + 1
      BY Zenon DEF Takes
    <3> QED
      BY <1>1, <3>1, <3>2, SMT
  <2> QED
    BY <2>1, TakenOver, Zenon
<1>2. CASE owSt = "idle" /\ taken = 0
  <2>1. owSt \notin BitStates
    BY <1>2 DEF BitStates
  <2>2. Finished /\ bitIo \notin {"pulse", "sample", "slotEnd"} /\ master # "low"
    <3>1. Finished /\ master # "low"
      BY <1>2, <2>1, Zenon DEF Machine, WireSound, LetGo
    <3> QED
      BY <3>1 DEF Finished
  <2>3. Finished' /\ bitIo' # "slotEnd" /\ bitIo' # "pulse" /\ bitIo' # "sample" /\ bitIo' \notin {"pulse", "sample"}
        /\ master' # "low" /\ Len(slots') = 0
    BY <2>2 DEF Finished
  <2>4. Slotted'
    <3>1. Len(slots') = owIdx' + IF bitIo' = "slotEnd" \/ (InRead' /\ ~Finished') THEN 1 ELSE 0
      <4>1. ~(bitIo' = "slotEnd" \/ (InRead' /\ ~Finished'))
        BY <2>3, Zenon
      <4>2. Len(slots') = owIdx' + 0
        BY <2>3, SMT
      <4> QED
        BY <4>1, <4>2, Zenon
    <3>2. owSt' = "write" /\ power' = "keep" => owIdx' = bitsCount' - 1 /\ bitIo' = "sample"
      OBVIOUS
    <3> QED
      BY <2>3, <3>1, <3>2, Zenon DEF Slotted
  <2>5. Seen'
    <3>1. sound' => ~sensor
      BY <1>2, Zenon DEF Takes
    <3>2. sound' => ~sensor'
      BY <3>1, Zenon
    <3>3. \A i \in 0..(owIdx' - 1) : FALSE
      BY SMT
    <3>4. owIdx' # 2 /\ owSt' \notin {"presence", "cleared", "recovery"}
      BY DEF BitStates
    <3>5. Timed'
      BY <2>3, Zenon DEF Timed
    <3> QED
      BY <2>3, <3>2, <3>3, <3>4, <3>5, Zenon DEF Seen
  <2>6. owSt' # "idle"
    BY DEF BitStates
  <2> QED
    BY <2>4, <2>5, <2>6, Zenon DEF WireSound, SoundOperation, Whole, StrongWhenDone, LetGo
<1> QED
  BY <1>1, <1>2, Zenon

(* A command that takes over is counted.                                    *)
LEMMA TakesTypes ==
  ASSUME PInv, Takes
  PROVE  taken' \in 0..(MaxTakings + 1) /\ sound' \in BOOLEAN
<1>1. sound' \in BOOLEAN
  BY Zenon DEF Takes
<1>2. owSt = "idle" \/ taken < MaxTakings
  BY Zenon DEF Takes
<1>3. taken' = IF owSt = "idle" THEN taken ELSE taken + 1
  BY Zenon DEF Takes
<1>4. taken \in 0..(MaxTakings + 1)
  BY Zenon DEF PInv, PruOwTypeOK
<1>5. taken' \in 0..(MaxTakings + 1)
  <2>1. CASE owSt = "idle"
    BY <1>3, <1>4, <2>1
  <2>2. CASE owSt # "idle"
    BY <1>2, <1>3, <1>4, <2>2, PruOneWireAssumption, SMT
  <2> QED
    BY <2>1, <2>2, Zenon
<1> QED
  BY <1>1, <1>5, Zenon

(* A read.                                                                  *)
LEMMA CmdReadKeeps ==
  ASSUME PInv, NEW n \in OwCounts, CmdRead(n)
  PROVE  PInv'
<1> USE DEF PInv
<1>1. /\ Takes /\ op' = "read" /\ owSaid' = <<>> /\ slots' = <<>> /\ owSt' = "read" /\ owIdx' = 0
      /\ bitsCount' = n /\ bitIo' = bitIo /\ power' = power /\ bits' = bits /\ dir' = dir
      /\ since' = since /\ master' = master /\ sensor' = sensor /\ short' = short /\ present' = present
  BY Zenon DEF CmdRead, Begin
<1>2. 0 < n /\ n \in Nat
  BY PruOneWireAssumption, SMT
<1>3. PruOwTypeOK'
  <2>1. owSt' \in {"idle", "falling", "reset", "presence", "cleared", "recovery", "read", "write", "search"}
        /\ op' \in Ops /\ owIdx' \in Indexes /\ slots' \in Seq({0, 1}) /\ owSaid' \in Seq(OwAnswerCodes)
        /\ bitsCount' \in OwCounts \cup {0}
    BY <1>1, IndexOf, SMT DEF Ops
  <2>2. taken' \in 0..(MaxTakings + 1) /\ sound' \in BOOLEAN
    BY <1>1, TakesTypes
  <2> QED
    BY <1>1, <2>1, <2>2, Zenon DEF PruOwTypeOK
<1>4. sound' => ~short'
  BY <1>1, Zenon DEF Takes
<1>5. Machine'
  <2>1. owSt' \in BitStates /\ owSt' \notin ResetStates /\ owSt' # "write" /\ owSt' # "search"
        /\ owSt' \notin {"presence", "cleared", "recovery"}
    BY <1>1 DEF BitStates, ResetStates
  <2>2. bitsCount' \in OwCounts /\ owIdx' < bitsCount'
    BY <1>1, <1>2
  <2> QED
    BY <1>1, <1>4, <2>1, <2>2, Zenon DEF Machine
<1>6. Slotted' /\ Seen' /\ WireSound'
  <2>1. owSt' \in BitStates /\ owSt' # "write"
    BY <1>1 DEF BitStates
  <2> QED
    BY <1>1, <2>1, BeginsClean, Zenon
<1> QED
  BY <1>3, <1>5, <1>6, Zenon

(* A write, with the pull-up after it or without.                           *)
LEMMA CmdWriteKeeps ==
  ASSUME PInv, NEW n \in OwCounts, NEW w \in DataOf(n), NEW p \in BOOLEAN, CmdWrite(n, w, p)
  PROVE  PInv'
<1> USE DEF PInv
<1>1. /\ Takes /\ owSaid' = <<>> /\ slots' = <<>> /\ owSt' = "write" /\ owIdx' = 0
      /\ bitsCount' = n /\ bitIo' = bitIo /\ bits' = w /\ dir' = dir
      /\ since' = since /\ master' = master /\ sensor' = sensor /\ short' = short /\ present' = present
      /\ op' = (IF p THEN "powerWrite" ELSE "write") /\ power' = (IF p THEN "asked" ELSE "none")
  BY Zenon DEF CmdWrite, Begin
<1>2. 0 < n /\ n \in Nat
  BY PruOneWireAssumption, SMT
<1>3. /\ op' \in {"write", "powerWrite"} /\ (power' # "none" => op' = "powerWrite")
      /\ power' \in {"none", "asked"}
  <2>1. CASE p
    BY <1>1, <2>1
  <2>2. CASE ~p
    BY <1>1, <2>2
  <2> QED
    BY <2>1, <2>2, Zenon
<1>4. PruOwTypeOK'
  <2>1. owSt' \in {"idle", "falling", "reset", "presence", "cleared", "recovery", "read", "write", "search"}
        /\ op' \in Ops /\ owIdx' \in Indexes /\ slots' \in Seq({0, 1}) /\ owSaid' \in Seq(OwAnswerCodes)
        /\ bitsCount' \in OwCounts \cup {0} /\ power' \in {"none", "asked", "keep"}
    BY <1>1, <1>3, IndexOf, SMT DEF Ops
  <2>2. taken' \in 0..(MaxTakings + 1) /\ sound' \in BOOLEAN
    BY <1>1, TakesTypes
  <2>3. bits' \in OwWords
    BY <1>1, Zenon DEF DataOf
  <2> QED
    BY <1>1, <2>1, <2>2, <2>3, Zenon DEF PruOwTypeOK
<1>5. sound' => ~short'
  BY <1>1, Zenon DEF Takes
<1>6. Machine'
  <2>1. owSt' \in BitStates /\ owSt' \notin ResetStates /\ owSt' # "read" /\ owSt' # "search"
        /\ owSt' \notin {"presence", "cleared", "recovery"}
    BY <1>1 DEF BitStates, ResetStates
  <2>2. bitsCount' \in OwCounts /\ owIdx' < bitsCount'
    BY <1>1, <1>2
  <2> QED
    BY <1>1, <1>3, <1>5, <2>1, <2>2, Zenon DEF Machine
<1>7. Slotted' /\ Seen' /\ WireSound'
  <2>1. owSt' \in BitStates
    BY <1>1 DEF BitStates
  <2> QED
    BY <1>1, <1>3, <2>1, BeginsClean, Zenon
<1> QED
  BY <1>4, <1>6, <1>7, Zenon

(* A triplet.                                                               *)
LEMMA CmdSearchKeeps ==
  ASSUME PInv, NEW d \in {0, 1}, CmdSearch(d)
  PROVE  PInv'
<1> USE DEF PInv
<1>1. /\ Takes /\ op' = "search" /\ owSaid' = <<>> /\ slots' = <<>> /\ owSt' = "search" /\ owIdx' = 0
      /\ bitsCount' = bitsCount /\ bitIo' = bitIo /\ power' = power /\ bits' = bits /\ dir' = d
      /\ since' = since /\ master' = master /\ sensor' = sensor /\ short' = short /\ present' = present
  BY Zenon DEF CmdSearch, Begin
<1>2. PruOwTypeOK'
  <2>1. owSt' \in {"idle", "falling", "reset", "presence", "cleared", "recovery", "read", "write", "search"}
        /\ op' \in Ops /\ owIdx' \in Indexes /\ slots' \in Seq({0, 1}) /\ owSaid' \in Seq(OwAnswerCodes)
    BY <1>1, IndexOf, SMT DEF Ops
  <2>2. taken' \in 0..(MaxTakings + 1) /\ sound' \in BOOLEAN
    BY <1>1, TakesTypes
  <2> QED
    BY <1>1, <2>1, <2>2, Zenon DEF PruOwTypeOK
<1>3. sound' => ~short'
  BY <1>1, Zenon DEF Takes
<1>4. Machine'
  <2>1. owSt' \in BitStates /\ owSt' \notin ResetStates /\ owSt' # "write" /\ owSt' # "read"
        /\ owSt' \notin {"presence", "cleared", "recovery"} /\ owSt' \notin {"read", "write"}
    BY <1>1 DEF BitStates, ResetStates
  <2>2. owIdx' <= 2
    BY <1>1
  <2> QED
    BY <1>1, <1>3, <2>1, <2>2, Zenon DEF Machine
<1>5. Slotted' /\ Seen' /\ WireSound'
  <2>1. owSt' \in BitStates /\ owSt' # "write"
    BY <1>1 DEF BitStates
  <2> QED
    BY <1>1, <2>1, BeginsClean, Zenon
<1> QED
  BY <1>2, <1>4, <1>5, Zenon

(* A reset.                                                                 *)
LEMMA CmdInitKeeps == PInv /\ CmdInit => PInv'
<1> SUFFICES ASSUME PInv, CmdInit PROVE PInv'
  OBVIOUS
<1> USE DEF PInv
<1>1. /\ owSt = "idle" /\ taken' = 0 /\ op' = "init" /\ slots' = <<>>
      /\ bitIo' = bitIo /\ owIdx' = owIdx /\ power' = power /\ bits' = bits /\ dir' = dir
      /\ bitsCount' = bitsCount /\ short' = short /\ present' = present
  BY Zenon DEF CmdInit
<1>2. sound' = ~Active(sensor)
  BY Zenon DEF CmdInit
<1>3. Finished
  <2>1. owSt \notin BitStates
    BY <1>1 DEF BitStates
  <2> QED
    BY <2>1, Zenon DEF Machine
<1>4. \/ /\ owSt' = "idle" /\ owSaid' = <<"BusFailure0">> /\ master' = "released"
         /\ sensor' \in {sensor, present} /\ since' = since /\ ~sound'
      \/ owSt' = "falling" /\ owSaid' = <<>> /\ master' = "low" /\ since' = 0 /\ sensor' = sensor
  BY <1>1, Zenon DEF CmdInit
<1>5. /\ owSt' = "idle" \/ owSt' = "falling"
      /\ owSt' = "idle" => ~sound' /\ master' = "released"
      /\ owSt' # "idle" => owSaid' = <<>>
      /\ master' \in {"released", "low"} /\ owSaid' \in Seq(OwAnswerCodes)
  <2>1. "BusFailure0" \in OwAnswerCodes
    BY DEF OwAnswerCodes
  <2>2. <<"BusFailure0">> \in Seq(OwAnswerCodes) /\ <<>> \in Seq(OwAnswerCodes)
    BY <2>1, SMT
  <2>3. CASE owSt' = "idle"
    <3>1. owSt' # "falling"
      BY <2>3
    <3>2. owSaid' = <<"BusFailure0">> /\ master' = "released" /\ ~sound'
      BY <1>4, <3>1, Zenon
    <3> QED
      BY <2>2, <2>3, <3>2, Zenon
  <2>4. CASE owSt' # "idle"
    <3>1. owSt' = "falling" /\ owSaid' = <<>> /\ master' = "low"
      BY <1>4, <2>4, Zenon
    <3> QED
      BY <2>2, <2>4, <3>1, Zenon
  <2> QED
    BY <2>3, <2>4, Zenon
<1>6. since' \in Durations /\ sensor' \in BOOLEAN
  <2>1. 0 \in Durations
    BY SMT DEF Durations, PresenceT
  <2> QED
    BY <1>4, <2>1, Zenon DEF PruOwTypeOK
<1>7. PruOwTypeOK'
  <2>1. owSt' \in {"idle", "falling", "reset", "presence", "cleared", "recovery", "read", "write", "search"}
        /\ op' \in Ops /\ slots' \in Seq({0, 1}) /\ master' \in {"released", "low", "strong"}
    BY <1>1, <1>5, SMT DEF Ops
  <2>2. taken' \in 0..(MaxTakings + 1)
    BY <1>1, PruOneWireAssumption, SMT
  <2>3. sound' \in BOOLEAN
    BY <1>2, Zenon DEF Active
  <2> QED
    BY <1>1, <1>5, <1>6, <2>1, <2>2, <2>3, Zenon DEF PruOwTypeOK
<1>8. owSt' \notin BitStates /\ owSt' # "read" /\ owSt' # "write" /\ owSt' # "search" /\ owSt' # "presence"
      /\ owSt' # "cleared" /\ owSt' # "recovery"
      /\ owSt' \notin {"presence", "cleared", "recovery"} /\ owSt' \notin {"read", "write"}
  BY <1>5 DEF BitStates
<1>9. Machine'
  <2>1. sound' => ~short'
    BY <1>1, <1>2, Zenon DEF Active
  <2> QED
    BY <1>1, <1>3, <1>5, <1>8, <2>1, Zenon DEF Machine, Finished
<1>10. Slotted' /\ Seen'
  BY <1>8, Zenon DEF Slotted, Seen
<1>11. WireSound'
  <2>1. LetGo'
    <3>1. owSt' = "idle" => master' # "low"
      BY <1>5
    <3> QED
      BY <3>1, Zenon DEF LetGo
  <2> QED
    BY <1>1, <1>5, <2>1, Zenon DEF WireSound, SoundOperation, Whole, StrongWhenDone
<1> QED
  BY <1>7, <1>9, <1>10, <1>11, Zenon

-----------------------------------------------------------------------------
(* A machine that has done nothing yet.                                     *)
LEMMA PruOwInitPInv == PruOwInit => PInv
<1> SUFFICES ASSUME PruOwInit PROVE PInv
  OBVIOUS
<1>1. /\ owSt = "idle" /\ bitIo = "ok" /\ owIdx = 0 /\ power = "none"
      /\ bits = [i \in Indexes |-> 0] /\ dir = 0 /\ bitsCount = 0 /\ since = PresenceT
      /\ master = "released" /\ sensor = FALSE /\ short = FALSE /\ present \in BOOLEAN
      /\ op = "none" /\ owSaid = <<>> /\ slots = <<>> /\ taken = 0 /\ sound = TRUE
  BY Zenon DEF PruOwInit
<1>2. PruOwTypeOK
  <2>1. bits \in OwWords
    BY <1>1, SMT DEF OwWords
  <2>2. /\ owSt \in {"idle", "falling", "reset", "presence", "cleared", "recovery", "read", "write", "search"}
        /\ bitIo \in {"ok", "error", "pulse", "sample", "slotEnd"}
        /\ owIdx \in Indexes /\ power \in {"none", "asked", "keep"}
        /\ dir \in {0, 1} /\ bitsCount \in OwCounts \cup {0}
        /\ since \in Durations /\ master \in {"released", "low", "strong"}
        /\ op \in Ops /\ owSaid \in Seq(OwAnswerCodes) /\ slots \in Seq({0, 1})
    BY <1>1, IndexOf, SMT DEF Ops, Durations, PresenceT
  <2>3. taken \in 0..(MaxTakings + 1)
    BY <1>1, PruOneWireAssumption, SMT
  <2>4. sensor \in BOOLEAN /\ short \in BOOLEAN /\ sound \in BOOLEAN
    BY <1>1, Zenon
  <2> QED
    BY <1>1, <2>1, <2>2, <2>3, <2>4, Zenon DEF PruOwTypeOK
<1>3. owSt \notin BitStates /\ owSt \notin ResetStates /\ owSt # "read" /\ owSt # "write" /\ owSt # "search"
      /\ owSt # "presence" /\ owSt # "cleared" /\ owSt # "recovery"
      /\ owSt \notin {"read", "write"} /\ owSt \notin {"presence", "cleared", "recovery"}
      /\ bitIo \in {"ok", "error"} /\ ~short /\ master # "low" /\ master # "strong"
  BY <1>1 DEF BitStates, ResetStates
<1>4. Machine
  BY <1>1, <1>3, Zenon DEF Machine, Finished
<1>5. Slotted /\ Seen
  BY <1>3, Zenon DEF Slotted, Seen
<1>6. WireSound
  BY <1>1, <1>3, Zenon DEF WireSound, SoundOperation, Whole, StrongWhenDone, LetGo
<1> QED
  BY <1>2, <1>4, <1>5, <1>6, Zenon DEF PInv

(* A step of the machine keeps what it takes for granted.                   *)
LEMMA PruOwNextPInv == PInv /\ [PruOwNext]_pruOwVars => PInv'
<1> SUFFICES ASSUME PInv, [PruOwNext]_pruOwVars PROVE PInv'
  OBVIOUS
<1>1. CASE Turn
  BY <1>1, TurnKeeps, Zenon
<1>2. CASE ShortChanges
  BY <1>2, ShortKeeps, Zenon
<1>3. CASE CmdInit
  BY <1>3, CmdInitKeeps, Zenon
<1>4. CASE \E d \in {0, 1} : CmdSearch(d)
  BY <1>4, CmdSearchKeeps, Zenon
<1>5. CASE \E n \in OwCounts : CmdRead(n) \/ \E w \in DataOf(n), p \in BOOLEAN : CmdWrite(n, w, p)
  <2>1. PICK n \in OwCounts : CmdRead(n) \/ \E w \in DataOf(n), p \in BOOLEAN : CmdWrite(n, w, p)
    BY <1>5, Zenon
  <2>2. CASE CmdRead(n)
    BY <2>2, CmdReadKeeps, Zenon
  <2>3. CASE \E w \in DataOf(n), p \in BOOLEAN : CmdWrite(n, w, p)
    BY <2>3, CmdWriteKeeps, Zenon
  <2> QED
    BY <2>1, <2>2, <2>3, Zenon
<1>6. CASE UNCHANGED pruOwVars
  <2>1. /\ short' = short /\ present' = present /\ sound' = sound /\ sensor' = sensor
        /\ owSt' = owSt /\ bitIo' = bitIo /\ owIdx' = owIdx /\ power' = power /\ bits' = bits /\ dir' = dir
        /\ bitsCount' = bitsCount /\ since' = since /\ master' = master /\ op' = op /\ owSaid' = owSaid
        /\ slots' = slots /\ taken' = taken
    BY <1>6, Zenon DEF pruOwVars
  <2>2. PruOwTypeOK'
    BY <1>6, SMT DEF PInv, PruOwTypeOK, pruOwVars
  <2>3. Machine' /\ Slotted'
    BY <2>1, Zenon DEF PInv, Machine, Slotted, InRead, Finished
  <2>4. Seen'
    BY <2>1, Zenon DEF PInv, Seen, Timed, InRead, Finished, Branch
  <2>5. WireSound'
    <3>1. SlotsDone' = SlotsDone
      BY <2>1, Zenon DEF SlotsDone
    <3>2. SoundOperation'
      BY <2>1, <3>1, Zenon DEF PInv, WireSound, SoundOperation, Whole
    <3> QED
      BY <2>1, <3>2, Zenon DEF PInv, WireSound, StrongWhenDone, LetGo
  <2> QED
    BY <2>2, <2>3, <2>4, <2>5, Zenon DEF PInv
<1> QED
  BY <1>1, <1>2, <1>3, <1>4, <1>5, <1>6, Zenon DEF PruOwNext, OwCommand

-----------------------------------------------------------------------------
(* The OpenTherm half of the firmware (PruOpenTherm).                       *)

(* Where the machine is in the frame it writes or reads.                    *)
IndexRight ==
  /\ otSt = "write" => otIdx \in -1..OtBits
  /\ otSt = "read" => otIdx \in -1..OtBits

(* While it writes, the levels heard so far are the bits of the request,    *)
(* and in the second half of a bit the wire has the level of the bit.       *)
WrittenSoFar ==
  otSt = "write" =>
    /\ Len(otHeard) = OtBits - otIdx
    /\ \A k \in 1..Len(otHeard) : otHeard[k] = BitAt(otValue, OtBits + 1 - k)
    /\ t0 >= Half => otOut = BitAt(otValue, otIdx)

OtIInv == OtTypeOK /\ AnsweredOnce /\ IndexRight /\ WrittenSoFar /\ WrittenAsAsked

(* The order of the durations.                                              *)
LEMMA OtDurations ==
  /\ OtBits \in Nat \ {0} /\ Half \in Nat \ {0} /\ Jitter \in Nat /\ Bit \in Nat /\ Bit = 2 * Half
  /\ Response \in Nat /\ ErrorFrame \in Nat /\ SlaveGap \in Nat /\ WaitGap \in Nat
  /\ CapMin \in Nat /\ CapMax \in Nat /\ ErrorGap \in Nat
  /\ Half + Jitter < CapMin /\ CapMin <= Bit /\ Bit + Jitter < CapMax /\ CapMax < ErrorGap /\ ErrorGap < ErrorFrame
  /\ MaxT \in Nat /\ Response <= MaxT /\ ErrorFrame <= MaxT
<1>1. Half \in Nat /\ Jitter \in Nat /\ Response \in Nat /\ ErrorFrame \in Nat /\ ErrorGap \in Nat
      /\ SlaveGap \in Nat /\ WaitGap \in Nat /\ OtBits \in Nat \ {0}
  BY OtAssumption
<1>2. Bit = 2 * Half /\ Bit \in Nat
  BY <1>1 DEF Bit
<1>3. CapMin \in Nat /\ Half + Jitter < CapMin /\ CapMin <= Bit
  BY <1>1, <1>2, OtAssumption
<1>4. CapMax \in Nat /\ Bit + Jitter < CapMax /\ CapMax < ErrorGap /\ ErrorGap < ErrorFrame
  BY <1>1, <1>2, OtAssumption
<1>5. MaxT \in Nat /\ Response <= MaxT /\ ErrorFrame <= MaxT
  BY <1>1 DEF MaxT
<1>6. Half # 0
  BY <1>1, <1>2, <1>3
<1> QED BY <1>1, <1>2, <1>3, <1>4, <1>5, <1>6

(* Time saturates.                                                          *)
LEMMA OtLater ==
  ASSUME NEW t \in 0..MaxT
  PROVE  Later(t) \in 0..MaxT /\ Later(t) <= t + 1 /\ Later(t) >= t
BY OtDurations DEF Later

(* A bit is a level.                                                        *)
LEMMA OtBitLevel ==
  ASSUME NEW w \in Words, NEW i
  PROVE  BitAt(w, i) \in {0, 1}
BY DEF BitAt, Words

(* An idle machine owes nothing.                                            *)
LEMMA OtInitIInv == OtInit => OtIInv
<1> SUFFICES ASSUME OtInit PROVE OtIInv
  OBVIOUS
<1>1. NoWord \in Words
  BY DEF NoWord, Words
<1>2. 0 \in -2..OtBits /\ 0 \in 0..MaxT /\ 0 \in 0..(SlaveGap + Bit) /\ 0 \in 0..Halves /\ Len(<<>>) <= OtBits + 2
  BY OtDurations DEF Halves
<1>3. otHeard \in Seq({0, 1}) /\ Len(otHeard) <= OtBits + 2
  BY <1>2 DEF OtInit
<1>4. said[2] \in Words
  BY <1>1 DEF OtInit
<1>5. OtTypeOK
  <2>1. otIdx \in -2..OtBits /\ t0 \in 0..MaxT /\ t0Frame \in 0..MaxT /\ boiler \in 0..Halves /\ boilerT \in 0..(SlaveGap + Bit)
    BY <1>2, Zenon DEF OtInit
  <2>2. prevV \in {0, 1} /\ otOut \in {0, 1} /\ owed \in 0..1
    BY DEF OtInit
  <2>3. otValue \in Words /\ reply \in Words /\ otSt = "idle" /\ asked \in BOOLEAN /\ whole \in BOOLEAN /\ noiseless \in BOOLEAN
    BY <1>1, Zenon DEF OtInit
  <2> QED BY <1>3, <1>4, <2>1, <2>2, <2>3, Zenon DEF OtTypeOK
<1> QED BY <1>5 DEF OtInit, OtIInv, AnsweredOnce, IndexRight, WrittenSoFar, WrittenAsAsked

(* A request is accepted.                                                   *)
LEMMA OtTransmitKeeps ==
  ASSUME OtIInv, NEW w \in Words, Transmit(w)
  PROVE  OtIInv'
<1>1. /\ OtBits \in -2..OtBits /\ OtBits \in -1..OtBits /\ 0 \in 0..MaxT /\ OtBits - OtBits = 0 /\ 0 <= OtBits + 2 /\ ~(0 >= Half)
  BY OtDurations
<1>2. /\ otSt = "idle" /\ otSt' = "write" /\ otIdx' = OtBits /\ t0' = 0 /\ otValue' = w /\ otHeard' = <<>>
      /\ owed' = owed + 1 /\ owed = 0
  BY DEF Transmit, First, OtIInv, AnsweredOnce
<1>3. otHeard' \in Seq({0, 1}) /\ Len(otHeard') = 0 /\ owed' = 1
  BY <1>2
<1>4. OtTypeOK'
  <2>1. OtTypeOK /\ UNCHANGED <<t0Frame, prevV, otOut, boiler, boilerT, reply, asked, said, noiseless>> /\ whole' = FALSE
    BY DEF Transmit, OtIInv
  <2>2. otIdx' \in -2..OtBits /\ t0' \in 0..MaxT
    BY <1>1, <1>2, Zenon
  <2>3. Len(otHeard') <= OtBits + 2 /\ owed' \in 0..1
    BY <1>1, <1>3
  <2>4. otValue' \in Words
    BY <1>2
  <2> QED BY <1>2, <1>3, <2>1, <2>2, <2>3, <2>4, Zenon DEF OtTypeOK
<1>5. WrittenSoFar'
  BY <1>1, <1>2, <1>3 DEF WrittenSoFar
<1> QED BY <1>1, <1>2, <1>3, <1>4, <1>5 DEF OtIInv, AnsweredOnce, IndexRight, WrittenAsAsked

(* What the boiler does in a unit of time.                                  *)
LEMMA OtBoilerTypes ==
  ASSUME OtTypeOK, BoilerMoves \/ BoilerAsked
  PROVE  boiler' \in 0..Halves /\ boilerT' \in 0..(SlaveGap + Bit) /\ reply' \in Words /\ asked' \in BOOLEAN
<1>1. /\ SlaveGap \in Nat \ {0} /\ Bit \in Nat /\ Half \in Nat /\ Jitter \in Nat /\ Half + Jitter < Bit /\ Halves \in Nat /\ Halves >= 1
  BY OtDurations, OtAssumption DEF Halves
<1>2. boiler \in 0..Halves /\ boilerT \in 0..(SlaveGap + Bit) /\ reply \in Words /\ asked \in BOOLEAN
  BY DEF OtTypeOK
<1>3. CASE BoilerMoves
  <2>1. CASE boiler = 0 /\ UNCHANGED <<boiler, reply, asked>> /\ boilerT' = IF boilerT < SlaveGap THEN boilerT + 1 ELSE boilerT
    <3>1. \A i \in 0..(SlaveGap + Bit) : i < SlaveGap => i + 1 \in 0..(SlaveGap + Bit)
      BY <1>1
    <3>2. boilerT' \in 0..(SlaveGap + Bit)
      BY <1>2, <2>1, <3>1, Zenon
    <3> QED BY <1>2, <2>1, <3>2, Zenon
  <2>2. CASE boiler' = 1 /\ boilerT' = 0 /\ asked' = FALSE /\ reply' \in Words
    <3>1. 1 \in 0..Halves /\ 0 \in 0..(SlaveGap + Bit)
      BY <1>1
    <3> QED BY <2>2, <3>1, Zenon
  <2>3. CASE boiler > 0 /\ UNCHANGED <<reply, asked>> /\ boilerT + 1 < Half + (IF boiler % 2 = 0 THEN Jitter ELSE 0)
             /\ boilerT' = boilerT + 1 /\ UNCHANGED boiler
    <3>1. (IF boiler % 2 = 0 THEN Jitter ELSE 0) <= Jitter
      BY <1>1
    <3>2. \A i \in Nat : i + 1 < Half + (IF boiler % 2 = 0 THEN Jitter ELSE 0) => i + 1 \in 0..(SlaveGap + Bit)
      BY <1>1, <3>1
    <3>3. boilerT' \in 0..(SlaveGap + Bit)
      BY <1>2, <2>3, <3>2
    <3> QED BY <1>2, <2>3, <3>3
  <2>4. CASE UNCHANGED <<reply, asked>> /\ boilerT' = 0 /\ boiler' = IF boiler = Halves THEN 0 ELSE boiler + 1
    BY <1>1, <1>2, <2>4
  <2> QED BY <1>3, <2>1, <2>2, <2>3, <2>4 DEF BoilerMoves
<1>4. CASE boiler = 0 /\ boilerT' = 0 /\ asked' = TRUE /\ UNCHANGED <<boiler, reply>>
  BY <1>1, <1>2, <1>4
<1> QED BY <1>3, <1>4 DEF BoilerAsked

(* The level of the boiler's frame at any half bit is a level.              *)
LEMMA OtBoilerLevel ==
  ASSUME NEW k, NEW w \in Words
  PROVE  BoilerLevel(k, w) \in {0, 1}
<1> DEFINE b == BitAt(w, OtBits - (k - 1) \div 2)
<1>1. b \in {0, 1}
  BY OtBitLevel
<1> HIDE DEF b
<1>2. (IF k = 0 THEN 0 ELSE IF k % 2 = 1 THEN b ELSE 1 - b) \in {0, 1}
  BY <1>1
<1> QED BY <1>2 DEF BoilerLevel, b

(* The types of the machine.                                                *)
OtMachine ==
  /\ otSt \in {"idle", "write", "gap", "wait", "read", "errorGap"}
  /\ otIdx \in -2..OtBits /\ t0 \in 0..MaxT /\ t0Frame \in 0..MaxT
  /\ prevV \in {0, 1} /\ otOut \in {0, 1} /\ otValue \in Words
  /\ otHeard \in Seq({0, 1}) /\ Len(otHeard) <= OtBits + 2
  /\ owed \in 0..1 /\ said[2] \in Words
OtCore == OtMachine /\ AnsweredOnce /\ IndexRight /\ WrittenSoFar /\ WrittenAsAsked

(* Writing: each bit that is over was the wire's level in its second half.  *)
LEMMA OtWriteKeeps ==
  ASSUME OtCore, NEW now \in 0..MaxT, now <= t0 + 1, WriteFrame(now)
  PROVE  OtCore'
<1> DEFINE cur == BitAt(otValue, otIdx)
<1>1. /\ otSt = "write" /\ otIdx \in -1..OtBits /\ OtBits \in Nat /\ Half \in Nat \ {0} /\ Bit = 2 * Half
      /\ otHeard \in Seq({0, 1}) /\ Len(otHeard) = OtBits - otIdx /\ otOut \in {0, 1} /\ otValue \in Words
      /\ t0 \in 0..MaxT /\ MaxT \in Nat
  BY OtDurations DEF WriteFrame, OtCore, OtMachine, IndexRight, WrittenSoFar
<1>2. cur \in {0, 1}
  BY <1>1, OtBitLevel
<1>3. /\ UNCHANGED <<owed, said, t0Frame, prevV, otValue>> /\ owed \in 0..1 /\ said[2] \in Words /\ owed = 1
      /\ t0Frame \in 0..MaxT /\ prevV \in {0, 1}
  BY <1>1 DEF WriteFrame, Silent, OtCore, OtMachine, AnsweredOnce
<1>4. CASE now >= Bit
  <2>1. /\ otOut' = 1 - cur /\ t0' = 0 /\ otIdx' = otIdx - 1 /\ otHeard' = Append(otHeard, otOut)
        /\ otSt' = IF otIdx - 1 < -1 THEN "gap" ELSE otSt
    BY <1>4 DEF WriteFrame
  <2>2. otOut = cur
    <3>1. t0 >= Half
      BY <1>1, <1>4
    <3> QED BY <1>1, <3>1 DEF OtCore, WrittenSoFar
  <2>3. 1 - cur \in {0, 1} /\ otIdx - 1 \in -2..OtBits /\ 0 \in 0..MaxT /\ ~(0 >= Half)
        /\ Len(otHeard) + 1 = OtBits - (otIdx - 1) /\ OtBits - (otIdx - 1) <= OtBits + 2
    BY <1>1, <1>2
  <2>4. /\ otHeard' \in Seq({0, 1}) /\ Len(otHeard') = Len(otHeard) + 1
        /\ \A k \in 1..Len(otHeard) : otHeard'[k] = otHeard[k]
        /\ otHeard'[Len(otHeard) + 1] = otOut
    <3>1. /\ Append(otHeard, otOut) \in Seq({0, 1}) /\ Len(Append(otHeard, otOut)) = Len(otHeard) + 1
          /\ \A k \in 1..Len(otHeard) : Append(otHeard, otOut)[k] = otHeard[k]
          /\ Append(otHeard, otOut)[Len(otHeard) + 1] = otOut
      BY <1>1, Appended
    <3>2. otHeard' = Append(otHeard, otOut)
      BY <2>1
    <3> QED BY <3>1, <3>2, Zenon
  <2>5. \A k \in 1..(Len(otHeard) + 1) : otHeard'[k] = BitAt(otValue, OtBits + 1 - k)
    <3>1. TAKE k \in 1..(Len(otHeard) + 1)
    <3>2. CASE k = Len(otHeard) + 1
      <4>1. OtBits + 1 - k = otIdx
        BY <1>1, <3>2
      <4>2. otHeard'[k] = otOut
        <5>1. otHeard'[k] = otHeard'[Len(otHeard) + 1]
          BY <3>2, Zenon
        <5> QED BY <2>4, <5>1, Zenon
      <4>3. BitAt(otValue, OtBits + 1 - k) = BitAt(otValue, otIdx)
        BY <4>1, Zenon
      <4> QED BY <2>2, <4>2, <4>3, Zenon
    <3>3. CASE k # Len(otHeard) + 1
      <4>1. k \in 1..Len(otHeard)
        BY <1>1, <3>3
      <4> QED BY <1>1, <2>4, <4>1 DEF OtCore, WrittenSoFar
    <3> QED BY <3>2, <3>3
  <2>6. OtMachine'
    <3>1. otIdx' \in -2..OtBits /\ t0' \in 0..MaxT /\ otOut' \in {0, 1}
      BY <2>1, <2>3, Zenon
    <3>2. Len(otHeard') <= OtBits + 2
      BY <2>3, <2>4, Zenon
    <3>3. otSt' \in {"gap", "write"}
      BY <1>1, <2>1
    <3> QED BY <1>1, <1>3, <2>4, <3>1, <3>2, <3>3 DEF OtMachine
  <2>7. CASE otIdx = -1
    <3>1. otSt' = "gap" /\ Len(otHeard) + 1 = OtBits + 2
      BY <1>1, <2>1, <2>7
    <3>2. WrittenAsAsked'
      <4>1. otHeard' = [k \in 1..(OtBits + 2) |-> otHeard'[k]]
        BY <2>4, <3>1
      <4> QED BY <1>3, <2>5, <3>1, <4>1 DEF WrittenAsAsked
    <3> QED BY <1>1, <1>3, <2>6, <3>1, <3>2 DEF OtCore, AnsweredOnce, IndexRight, WrittenSoFar
  <2>8. CASE otIdx # -1
    <3>1. otSt' = "write" /\ otIdx - 1 \in -1..OtBits
      BY <1>1, <2>1, <2>8
    <3>2. WrittenSoFar'
      <4>1. Len(otHeard') = OtBits - otIdx'
        BY <2>1, <2>3, <2>4, Zenon
      <4>2. \A k \in 1..Len(otHeard') : otHeard'[k] = BitAt(otValue', OtBits + 1 - k)
        BY <1>3, <2>4, <2>5, Zenon
      <4>3. ~(t0' >= Half)
        BY <2>1, <2>3, Zenon
      <4> QED BY <4>1, <4>2, <4>3, Zenon DEF WrittenSoFar
    <3>3. IndexRight'
      BY <2>1, <3>1, Zenon DEF IndexRight
    <3> QED BY <1>1, <1>3, <2>6, <3>1, <3>2, <3>3 DEF OtCore, AnsweredOnce, WrittenAsAsked
  <2> QED BY <2>7, <2>8
<1>5. CASE ~(now >= Bit)
  <2>1. /\ otOut' = IF now >= Half THEN cur ELSE otOut
        /\ t0' = now /\ UNCHANGED <<otSt, otIdx, otHeard>>
    BY <1>5 DEF WriteFrame
  <2>2. OtMachine'
    BY <1>1, <1>2, <1>3, <2>1 DEF OtCore, OtMachine
  <2>3. WrittenSoFar'
    BY <1>1, <1>3, <2>1 DEF OtCore, WrittenSoFar
  <2> QED BY <1>1, <1>3, <2>1, <2>2, <2>3 DEF OtCore, AnsweredOnce, IndexRight, WrittenAsAsked
<1> QED BY <1>4, <1>5

(* Waiting for an answer: nothing is answered but that none came.           *)
LEMMA OtWaitKeeps ==
  ASSUME OtCore, NEW now \in 0..MaxT, NEW bus \in {0, 1}, FrameWaitGap(now) \/ WaitFrame(now, bus)
  PROVE  OtCore'
<1>1. /\ OtMachine /\ otSt \in {"gap", "wait"} /\ OtBits \in Nat \ {0} /\ Half \in 0..MaxT /\ 0 \in 0..MaxT
      /\ OtBits \in -2..OtBits /\ OtBits \in -1..OtBits /\ NoWord \in Words /\ owed = 1
  BY OtDurations DEF FrameWaitGap, WaitFrame, OtCore, OtMachine, AnsweredOnce, NoWord, Words
<1>2. CASE FrameWaitGap(now)
  <2>1. /\ otSt' \in {"gap", "wait"} /\ t0' = now
        /\ UNCHANGED <<owed, said, otIdx, t0Frame, prevV, otValue, otOut, otHeard>>
        /\ otSt' = "gap" => otSt = "gap"
    BY <1>1, <1>2 DEF FrameWaitGap, Silent
  <2>2. OtMachine'
    BY <1>1, <2>1 DEF OtMachine
  <2> QED BY <1>1, <2>1, <2>2 DEF OtCore, AnsweredOnce, IndexRight, WrittenSoFar, WrittenAsAsked
<1>3. CASE WaitFrame(now, bus) /\ bus = 1
  <2>1. /\ otSt' = "read" /\ t0' = Half /\ t0Frame' = 0 /\ otIdx' = OtBits /\ prevV' = 1 /\ otValue' = NoWord
        /\ UNCHANGED <<owed, said, otOut, otHeard>>
    BY <1>3 DEF WaitFrame, Silent
  <2>2. OtMachine'
    <3>1. otIdx' \in -2..OtBits /\ t0' \in 0..MaxT /\ t0Frame' \in 0..MaxT /\ otValue' \in Words
      BY <1>1, <2>1, Zenon
    <3> QED BY <1>1, <2>1, <3>1 DEF OtMachine
  <2> QED BY <1>1, <2>1, <2>2 DEF OtCore, AnsweredOnce, IndexRight, WrittenSoFar, WrittenAsAsked
<1>4. CASE WaitFrame(now, bus) /\ bus # 1
  <2>1. /\ t0' = now /\ UNCHANGED <<otIdx, t0Frame, prevV, otValue, otOut, otHeard>>
    BY <1>4 DEF WaitFrame
  <2>2. \/ otSt' = "idle" /\ owed' = owed - 1 /\ said' = <<"noResponse", NoWord>>
        \/ otSt' = "wait" /\ UNCHANGED <<owed, said>>
    BY <1>4 DEF WaitFrame, OtAnswer, Silent
  <2>3. owed' = (IF otSt' = "idle" THEN 0 ELSE 1) /\ said'[2] \in Words /\ otSt' \in {"idle", "wait"}
    BY <1>1, <2>2 DEF OtMachine
  <2>4. OtMachine'
    BY <1>1, <2>1, <2>3 DEF OtMachine
  <2> QED BY <2>3, <2>4 DEF OtCore, AnsweredOnce, IndexRight, WrittenSoFar, WrittenAsAsked
<1> QED BY <1>2, <1>3, <1>4 DEF WaitFrame

(* Reading: whichever way a frame ends, it is answered once.                *)
LEMMA OtReadKeeps ==
  ASSUME OtCore, NEW now \in 0..MaxT, NEW bus \in {0, 1}, ReadFrame(now, bus)
  PROVE  OtCore'
<1>1. /\ OtMachine /\ otSt = "read" /\ OtBits \in Nat \ {0} /\ 0 \in 0..MaxT /\ owed = 1 /\ otIdx \in -1..OtBits
      /\ t0Frame' \in 0..MaxT /\ UNCHANGED <<otOut, otHeard>>
  BY OtDurations, OtLater DEF ReadFrame, OtCore, OtMachine, AnsweredOnce, IndexRight
<1>2. CASE bus # prevV /\ TooEarly(now)
  <2>1. prevV' = 1 - prevV /\ t0' = now /\ UNCHANGED <<owed, said, otSt, otIdx, otValue>>
    BY <1>2 DEF ReadFrame, ReadEdge, Silent
  <2>2. OtMachine'
    BY <1>1, <2>1 DEF OtMachine
  <2> QED BY <1>1, <2>1, <2>2 DEF OtCore, AnsweredOnce, IndexRight, WrittenSoFar, WrittenAsAsked
<1>3. CASE bus # prevV /\ ~TooEarly(now)
  <2>1. /\ prevV' = 1 - prevV /\ t0' = 0 /\ otIdx' = otIdx - 1
        /\ otValue' = IF StartOrStop THEN otValue ELSE [otValue EXCEPT ![otIdx] = prevV]
    BY <1>3 DEF ReadFrame, ReadEdge
  <2>2. \/ otSt' = "errorGap" /\ UNCHANGED <<owed, said>>
        \/ otSt' = "idle" /\ owed' = owed - 1 /\ said' = <<"ok", otValue>>
        \/ otIdx # -1 /\ otSt' = "read" /\ UNCHANGED <<owed, said>>
    BY <1>1, <1>3 DEF ReadFrame, ReadEdge, OtAnswer, Silent
  <2>3. otIdx - 1 \in -2..OtBits /\ (otIdx # -1 => otIdx - 1 \in -1..OtBits)
    BY <1>1
  <2>4. otValue' \in Words
    BY <1>1, <2>1 DEF OtMachine, Words, StartOrStop
  <2>5. /\ owed' = (IF otSt' = "idle" THEN 0 ELSE 1) /\ said'[2] \in Words /\ otSt' \in {"idle", "errorGap", "read"}
        /\ otSt' = "read" => otIdx # -1
    BY <1>1, <2>2 DEF OtMachine
  <2>6. otIdx' \in -2..OtBits /\ (otSt' = "read" => otIdx' \in -1..OtBits)
    BY <2>1, <2>3, <2>5, Zenon
  <2>7. OtMachine'
    <3>1. prevV' \in {0, 1} /\ t0' \in 0..MaxT
      BY <1>1, <2>1 DEF OtMachine
    <3> QED BY <1>1, <2>4, <2>5, <2>6, <3>1 DEF OtMachine
  <2> QED BY <2>5, <2>6, <2>7 DEF OtCore, AnsweredOnce, IndexRight, WrittenSoFar, WrittenAsAsked
<1>4. CASE bus = prevV
  <2>1. otSt' \in {"read", "errorGap"} /\ t0' = now /\ UNCHANGED <<owed, said, otIdx, prevV, otValue>>
    BY <1>1, <1>4 DEF ReadFrame, Silent
  <2>2. OtMachine'
    BY <1>1, <2>1 DEF OtMachine
  <2> QED BY <1>1, <2>1, <2>2 DEF OtCore, AnsweredOnce, IndexRight, WrittenSoFar, WrittenAsAsked
<1> QED BY <1>2, <1>3, <1>4

(* After a broken frame: once the wire is quiet, or too late, it is         *)
(* answered.                                                                *)
LEMMA OtErrorKeeps ==
  ASSUME OtCore, NEW now \in 0..MaxT, NEW bus \in {0, 1}, FrameErrorWaitGap(now, bus)
  PROVE  OtCore'
<1>1. /\ OtMachine /\ otSt = "errorGap" /\ owed = 1 /\ 0 \in 0..MaxT /\ NoWord \in Words
      /\ t0Frame' \in 0..MaxT /\ UNCHANGED <<otIdx, otValue, otOut, otHeard>>
  <2>1. OtMachine /\ otSt = "errorGap" /\ owed = 1
    BY DEF FrameErrorWaitGap, OtCore, AnsweredOnce
  <2>2. 0 \in 0..MaxT /\ NoWord \in Words
    BY OtDurations DEF NoWord, Words
  <2>3. t0Frame' = Later(t0Frame) /\ UNCHANGED <<otIdx, otValue, otOut, otHeard>>
    BY DEF FrameErrorWaitGap
  <2>4. t0Frame \in 0..MaxT
    BY <2>1 DEF OtMachine
  <2> QED BY <2>1, <2>2, <2>3, <2>4, OtLater
<1>2. /\ t0' \in {0, now} /\ prevV' \in {prevV, bus}
      /\ \/ otSt' = otSt /\ UNCHANGED <<owed, said>>
         \/ otSt' = "idle" /\ owed' = owed - 1 /\ said'[2] = NoWord
  BY DEF FrameErrorWaitGap, OtAnswer, Silent
<1>3. owed' = (IF otSt' = "idle" THEN 0 ELSE 1) /\ said'[2] \in Words /\ otSt' \in {"idle", "errorGap"}
  BY <1>1, <1>2 DEF OtMachine
<1>4. OtMachine'
  <2>1. t0' \in 0..MaxT /\ prevV' \in {0, 1}
    BY <1>1, <1>2 DEF OtMachine
  <2> QED BY <1>1, <1>3, <2>1 DEF OtMachine
<1> QED BY <1>3, <1>4 DEF OtCore, AnsweredOnce, IndexRight, WrittenSoFar, WrittenAsAsked

(* Every step keeps the types, the index and what is on the wire.           *)
LEMMA OtNextIInv == OtIInv /\ [OtNext]_otVars => OtIInv'
<1> SUFFICES ASSUME OtIInv, [OtNext]_otVars PROVE OtIInv'
  OBVIOUS
<1>1. ASSUME NEW noise \in BOOLEAN, OtTick(noise) PROVE OtIInv'
  <2> DEFINE bus == IF noise THEN 1 - BoilerLevel(boiler', reply') ELSE BoilerLevel(boiler', reply')
             now == Later(t0)
  <2>1. boiler' \in 0..Halves /\ boilerT' \in 0..(SlaveGap + Bit) /\ reply' \in Words /\ asked' \in BOOLEAN
    BY <1>1, OtBoilerTypes DEF OtTick, OtIInv
  <2>2. bus \in {0, 1}
    <3>1. BoilerLevel(boiler', reply') \in {0, 1}
      BY <2>1, OtBoilerLevel
    <3> QED BY <3>1
  <2>3. now \in 0..MaxT /\ now <= t0 + 1
    BY OtLater DEF OtIInv, OtTypeOK
  <2>4. OtCore
    BY DEF OtIInv, OtTypeOK, OtCore, OtMachine
  <2>5. \/ Idling \/ WriteFrame(now) \/ FrameWaitGap(now) \/ WaitFrame(now, bus) \/ ReadFrame(now, bus)
        \/ FrameErrorWaitGap(now, bus)
    BY <1>1, Zenon DEF OtTick
  <2>6. ASSUME Idling PROVE OtCore'
    <3>1. UNCHANGED <<otSt, otIdx, t0, t0Frame, prevV, otValue, otOut, otHeard, owed, said>>
      BY <2>6 DEF Idling, Silent
    <3>2. OtMachine'
      BY <2>4, <3>1, Zenon DEF OtCore, OtMachine
    <3>3. AnsweredOnce' /\ IndexRight' /\ WrittenAsAsked'
      BY <2>4, <3>1, Zenon DEF OtCore, AnsweredOnce, IndexRight, WrittenAsAsked
    <3>4. WrittenSoFar'
      BY <2>6 DEF Idling, WrittenSoFar
    <3> QED BY <3>2, <3>3, <3>4 DEF OtCore
  <2> HIDE DEF bus, now
  <2>7. OtCore'
    <3>1. CASE WriteFrame(now)
      BY <2>3, <2>4, <3>1, OtWriteKeeps
    <3>2. CASE FrameWaitGap(now) \/ WaitFrame(now, bus)
      BY <2>2, <2>3, <2>4, <3>2, OtWaitKeeps
    <3>3. CASE ReadFrame(now, bus)
      BY <2>2, <2>3, <2>4, <3>3, OtReadKeeps
    <3>4. CASE FrameErrorWaitGap(now, bus)
      BY <2>2, <2>3, <2>4, <3>4, OtErrorKeeps
    <3> QED BY <2>5, <2>6, <3>1, <3>2, <3>3, <3>4, Zenon
  <2>8. whole' \in BOOLEAN /\ noiseless' \in BOOLEAN
    BY <1>1 DEF OtTick, OtIInv, OtTypeOK
  <2> QED BY <2>1, <2>7, <2>8 DEF OtCore, OtMachine, OtIInv, OtTypeOK
<1>2. CASE UNCHANGED otVars
  BY <1>2 DEF otVars, OtIInv, OtTypeOK, AnsweredOnce, IndexRight, WrittenSoFar, WrittenAsAsked
<1> QED BY <1>1, <1>2, OtTransmitKeeps DEF OtNext

-----------------------------------------------------------------------------
(* The frames of the boiler (PruOpenTherm).                                 *)

(* The boiler answers once, and holds each half bit as long as it may.      *)
BoilerOnTime ==
  boiler > 0 => ~asked /\ boilerT < Half + (IF boiler % 2 = 0 THEN Jitter ELSE 0)

(* How many edges the machine has taken as the middle of a bit.             *)
Accepted == OtBits - otIdx

(* The machine is in step with the boiler: it has taken the middle of every *)
(* bit so far, and its clock runs since the last of them.                   *)
InStep ==
  /\ boiler > 0 /\ Accepted = boiler \div 2
  /\ \A i \in 0..(OtBits - 1) : i > otIdx => otValue[i] = reply[i]
  /\ IF boiler = 1 THEN t0 <= Half + boilerT
     ELSE IF boiler % 2 = 0 THEN t0 = boilerT
     ELSE t0 \in (Half + boilerT)..(Half + Jitter + boilerT)

(* Or it has missed one and will not make up for it: edges it takes are at  *)
(* least two half bits apart, and the boiler's frame ends before it has     *)
(* taken enough of them.                                                    *)
Trailing ==
  \/ boiler = 0 \/ boiler > 2 * Accepted + 1
  \/ boiler = 2 * Accepted + 1 /\ t0 <= boilerT

(* While nothing disturbs the line, the machine sees the boiler's levels.   *)
Followed == ~asked /\ prevV = BoilerLevel(boiler, reply) /\ (InStep \/ Trailing)
WholeFrame == InStep /\ (boiler = 1 => t0 = Half + boilerT)
FramesFollowed ==
  /\ whole => otSt \in {"read", "idle"}
  /\ otSt = "read" /\ (whole \/ noiseless) => Followed
  /\ otSt = "read" /\ whole => WholeFrame
FrameInv == BoilerOnTime /\ FramesFollowed

(* The bit a half bit belongs to.                                           *)
LEMMA HalfBits ==
  ASSUME NEW k \in Nat
  PROVE  /\ k \div 2 \in Nat /\ k % 2 \in {0, 1} /\ k % 2 = k - 2 * (k \div 2)
         /\ k % 2 = 0 => (k + 1) \div 2 = k \div 2 /\ (k + 1) % 2 = 1
         /\ k % 2 = 1 => (k + 1) \div 2 = k \div 2 + 1 /\ (k + 1) % 2 = 0 /\ (k - 1) \div 2 = k \div 2
         /\ k % 2 = 0 => (k - 1) \div 2 = k \div 2 - 1
<1>1. k \div 2 \in Nat
  OBVIOUS
<1>2. k % 2 \in {0, 1}
  OBVIOUS
<1>3. k % 2 = k - 2 * (k \div 2)
  OBVIOUS
<1>4. k % 2 = 0 => (k + 1) \div 2 = k \div 2 /\ (k + 1) % 2 = 1 /\ (k - 1) \div 2 = k \div 2 - 1
  OBVIOUS
<1>5. k % 2 = 1 => (k + 1) \div 2 = k \div 2 + 1 /\ (k + 1) % 2 = 0 /\ (k - 1) \div 2 = k \div 2
  OBVIOUS
<1> QED BY <1>1, <1>2, <1>3, <1>4, <1>5

(* The levels of the frame: the second half of a bit is the inverse of the  *)
(* first, and the last one is low like the silence after it.                *)
LEMMA OtLevels ==
  ASSUME NEW w \in Words
  PROVE  /\ BoilerLevel(0, w) = 0 /\ BoilerLevel(Halves, w) = 0 /\ BoilerLevel(1, w) = 1
         /\ \A k \in 1..Halves : k % 2 = 1 =>
              /\ BoilerLevel(k, w) = BitAt(w, OtBits - k \div 2)
              /\ BoilerLevel(k + 1, w) = 1 - BoilerLevel(k, w)
<1>1. OtBits \in Nat \ {0} /\ Halves = 2 * (OtBits + 2) /\ Halves \in Nat
  BY OtDurations DEF Halves
<1>2. BoilerLevel(0, w) = 0
  BY DEF BoilerLevel
<1>3. BoilerLevel(Halves, w) = 0
  <2>1. Halves % 2 = 0 /\ Halves # 0 /\ OtBits - (Halves - 1) \div 2 = -1
    BY <1>1
  <2>2. BitAt(w, -1) = 1
    BY <1>1 DEF BitAt
  <2> QED BY <2>1, <2>2 DEF BoilerLevel
<1>4. ASSUME NEW k \in 1..Halves, k % 2 = 1
      PROVE  /\ BoilerLevel(k, w) = BitAt(w, OtBits - k \div 2)
             /\ BoilerLevel(k + 1, w) = 1 - BoilerLevel(k, w)
  <2>1. (k - 1) \div 2 = k \div 2 /\ k # 0
    BY <1>1, <1>4, HalfBits
  <2>2. (k + 1) - 1 = k /\ k + 1 # 0 /\ (k + 1) % 2 = 0
    BY <1>1, <1>4, HalfBits
  <2>3. BoilerLevel(k, w) = BitAt(w, OtBits - k \div 2)
    BY <1>4, <2>1, Zenon DEF BoilerLevel
  <2>4. BoilerLevel(k + 1, w) = 1 - BitAt(w, OtBits - k \div 2)
    <3>1. (k + 1) % 2 # 1
      BY <2>2
    <3> QED BY <2>2, <3>1, Zenon DEF BoilerLevel
  <2> QED BY <2>3, <2>4
<1>5. BoilerLevel(1, w) = 1
  <2>1. 1 \in 1..Halves /\ 1 % 2 = 1 /\ OtBits - 1 \div 2 = OtBits
    BY <1>1
  <2>2. BitAt(w, OtBits) = 1
    BY <1>1 DEF BitAt
  <2>3. BoilerLevel(1, w) = BitAt(w, OtBits - 1 \div 2)
    BY <1>4, <2>1
  <2> QED BY <2>1, <2>2, <2>3
<1> QED BY <1>2, <1>3, <1>4, <1>5

(* What the boiler may do in a unit of time, and when.                      *)
BoilerSilent == boiler = 0 /\ boiler' = 0 /\ UNCHANGED <<reply, asked>>
BoilerBegins == boiler = 0 /\ asked /\ boiler' = 1 /\ boilerT' = 0 /\ ~asked' /\ reply' \in Words
BoilerHolds  == boiler > 0 /\ UNCHANGED <<boiler, reply, asked>> /\ boilerT' = boilerT + 1
BoilerTurns ==
  /\ boiler > 0 /\ UNCHANGED <<reply, asked>> /\ boilerT' = 0
  /\ boiler' = IF boiler = Halves THEN 0 ELSE boiler + 1
  /\ boilerT + 1 \in Half..(Half + Jitter) /\ (boiler % 2 = 1 => boilerT + 1 = Half)
(* The boiler does one of the four, and stays on time.                      *)
LEMMA OtBoilerSteps ==
  ASSUME OtTypeOK, BoilerOnTime, BoilerMoves
  PROVE  BoilerOnTime' /\ (BoilerSilent \/ BoilerBegins \/ BoilerHolds \/ BoilerTurns)
<1>1. /\ Half \in Nat \ {0} /\ Jitter \in Nat /\ Halves \in Nat /\ Halves >= 1
      /\ boiler \in 0..Halves /\ boilerT \in Nat
  BY OtDurations DEF OtTypeOK, Halves
<1>2. boiler % 2 \in {0, 1}
  BY <1>1, HalfBits
<1> DEFINE Longest == Half + (IF boiler % 2 = 0 THEN Jitter ELSE 0)
<1>3. Longest \in Half..(Half + Jitter) /\ (boiler % 2 = 1 => Longest = Half)
  BY <1>1, <1>2
<1>4. CASE boiler = 0 /\ UNCHANGED <<boiler, reply, asked>>
  BY <1>1, <1>4 DEF BoilerOnTime, BoilerSilent
<1>5. CASE boiler = 0 /\ asked /\ boiler' = 1 /\ boilerT' = 0 /\ asked' = FALSE /\ reply' \in Words
  BY <1>1, <1>5 DEF BoilerOnTime, BoilerBegins
<1>6. CASE boiler > 0 /\ UNCHANGED <<reply, asked>> /\ boilerT + 1 < Longest /\ boilerT' = boilerT + 1 /\ UNCHANGED boiler
  BY <1>6 DEF BoilerOnTime, BoilerHolds
<1>7. CASE boiler > 0 /\ UNCHANGED <<reply, asked>> /\ boilerT + 1 >= Half /\ boilerT' = 0
           /\ boiler' = IF boiler = Halves THEN 0 ELSE boiler + 1
  <2>1. ~asked /\ boilerT < Longest
    BY <1>7 DEF BoilerOnTime
  <2>2. boilerT + 1 \in Half..(Half + Jitter) /\ (boiler % 2 = 1 => boilerT + 1 = Half)
    BY <1>1, <1>3, <1>7, <2>1
  <2>3. BoilerOnTime'
    BY <1>1, <1>7, <2>1 DEF BoilerOnTime
  <2> QED BY <1>7, <2>2, <2>3 DEF BoilerTurns
<1> QED BY <1>4, <1>5, <1>6, <1>7 DEF BoilerMoves

(* What the machine does with a poll while it reads: nothing has changed,   *)
(* an edge between two bits, or the edge in the middle of one.              *)
NoEdge(now) ==
  t0' = now /\ UNCHANGED <<otIdx, otValue, said>> /\ otSt' = IF now >= CapMax THEN "errorGap" ELSE "read"
BetweenBits(now) == now < CapMin /\ t0' = now /\ UNCHANGED <<otIdx, otValue, otSt, said>>
MidBit(now) ==
  /\ now >= CapMin /\ t0' = 0 /\ otIdx' = otIdx - 1
  /\ otValue' = IF otIdx \in 0..(OtBits - 1) THEN [otValue EXCEPT ![otIdx] = prevV] ELSE otValue
  /\ \/ otIdx \notin 0..(OtBits - 1) /\ prevV = 0 /\ otSt' = "errorGap"
     \/ otIdx = -1 /\ prevV = 1 /\ otSt' = "idle" /\ said' = <<"ok", otValue>>
     \/ otIdx # -1 /\ otSt' = "read" /\ said' = said
(* Each poll is one of the three.                                           *)
LEMMA OtReadSteps ==
  ASSUME OtIInv, NEW now \in 0..MaxT, NEW bus \in {0, 1}, ReadFrame(now, bus)
  PROVE  /\ prevV' = bus
         /\ IF bus = prevV THEN NoEdge(now) ELSE BetweenBits(now) \/ MidBit(now)
<1>1. /\ prevV \in {0, 1} /\ otIdx \in -1..OtBits /\ otSt = "read" /\ OtBits \in Nat \ {0}
      /\ now \in Nat /\ CapMin \in Nat
  BY OtDurations DEF ReadFrame, OtIInv, OtTypeOK, IndexRight
<1>2. CASE bus = prevV
  BY <1>1, <1>2 DEF ReadFrame, Silent, NoEdge
<1>3. CASE bus # prevV
  <2>1. prevV' = bus
    BY <1>1, <1>3 DEF ReadFrame, ReadEdge
  <2>2. CASE TooEarly(now)
    BY <1>1, <1>3, <2>1, <2>2 DEF ReadFrame, ReadEdge, Silent, BetweenBits, TooEarly
  <2>3. CASE ~TooEarly(now)
    <3>1. StartOrStop <=> otIdx \notin 0..(OtBits - 1)
      BY <1>1 DEF StartOrStop
    <3>2. now >= CapMin /\ t0' = 0 /\ otIdx' = otIdx - 1 /\ otValue' = IF StartOrStop THEN otValue ELSE [otValue EXCEPT ![otIdx] = prevV]
      BY <1>1, <1>3, <2>3 DEF ReadFrame, ReadEdge, TooEarly
    <3>3. \/ StartOrStop /\ prevV = 0 /\ otSt' = "errorGap"
          \/ StartOrStop /\ prevV # 0 /\ otIdx = -1 /\ otSt' = "idle" /\ said' = <<"ok", otValue>>
          \/ otIdx # -1 /\ otSt' = "read" /\ said' = said
      BY <1>1, <1>3, <2>3 DEF ReadFrame, ReadEdge, Silent, OtAnswer, StartOrStop
    <3> QED BY <1>1, <1>3, <2>1, <3>1, <3>2, <3>3 DEF MidBit
  <2> QED BY <1>3, <2>2, <2>3
<1> QED BY <1>2, <1>3

(* Where the boiler is when the machine is in step with it.                 *)
LEMMA OtInStep ==
  ASSUME OtIInv, BoilerOnTime, otSt = "read", InStep
  PROVE  /\ boiler \in 1..(Halves - 1) /\ otIdx = OtBits - boiler \div 2 /\ boilerT \in Nat /\ t0 \in 0..MaxT
         /\ t0 + 1 <= Bit + Jitter /\ Later(t0) = t0 + 1
<1>1. /\ otIdx \in -1..OtBits /\ boiler \in 0..Halves /\ t0 \in 0..MaxT /\ boilerT \in Nat
      /\ Halves = 2 * (OtBits + 2) /\ OtBits \in Nat \ {0}
  BY OtDurations DEF OtIInv, OtTypeOK, IndexRight, Halves
<1>2. boiler > 0 /\ OtBits - otIdx = boiler \div 2
  BY DEF InStep, Accepted
<1>3. boiler \div 2 \in Nat /\ boiler % 2 \in {0, 1} /\ boiler % 2 = boiler - 2 * (boiler \div 2)
  BY <1>1, HalfBits
<1>4. boiler # Halves
  BY <1>1, <1>2, <1>3
<1>5. t0 + 1 <= Bit + Jitter
  <2>1. boilerT < Half + (IF boiler % 2 = 0 THEN Jitter ELSE 0)
    BY <1>2 DEF BoilerOnTime
  <2>2. Half \in Nat \ {0} /\ Jitter \in Nat /\ Bit = 2 * Half
    BY OtDurations
  <2>3. CASE boiler = 1
    <3>1. boiler % 2 # 0
      BY <2>3
    <3>2. boilerT < Half
      BY <2>1, <2>2, <3>1
    <3> QED BY <1>1, <2>2, <2>3, <3>2 DEF InStep
  <2>4. CASE boiler # 1 /\ boiler % 2 = 0
    BY <1>1, <2>1, <2>2, <2>4 DEF InStep
  <2>5. CASE boiler # 1 /\ boiler % 2 = 1
    <3>1. boilerT < Half
      BY <2>1, <2>2, <2>5
    <3>2. t0 <= Half + Jitter + boilerT
      BY <2>2, <2>5, <1>1 DEF InStep
    <3> QED BY <1>1, <2>2, <3>1, <3>2
  <2> QED BY <1>3, <2>3, <2>4, <2>5
<1>6. Later(t0) = t0 + 1
  <2>1. t0 < MaxT
    BY <1>1, <1>5, OtDurations
  <2> QED BY <2>1 DEF Later
<1> QED BY <1>1, <1>2, <1>4, <1>5, <1>6

(* A poll in the middle of a bit is on time in step, and reads the bit.     *)
LEMMA OtMiddle ==
  ASSUME OtIInv, BoilerOnTime, BoilerOnTime', otSt = "read", Followed, InStep, BoilerTurns, boiler % 2 = 1,
         ReadFrame(Later(t0), BoilerLevel(boiler', reply'))
  PROVE  /\ WholeFrame => MidBit(t0 + 1)
         /\ MidBit(t0 + 1) \/ (boiler = 1 /\ otSt' = "read" /\ Followed')
         /\ MidBit(t0 + 1) =>
              \/ otSt' = "read" /\ InStep' /\ Followed' /\ boiler' # 1
              \/ otSt' = "idle" /\ said' = <<"ok", reply>>
<1> DEFINE bus == BoilerLevel(boiler', reply')
<1>1. /\ boiler \in 1..(Halves - 1) /\ otIdx = OtBits - boiler \div 2 /\ boilerT \in Nat /\ t0 \in 0..MaxT
      /\ Later(t0) = t0 + 1 /\ t0 + 1 \in 0..MaxT
  BY OtInStep, OtLater
<1>2. /\ Half \in Nat \ {0} /\ Jitter \in Nat /\ Bit = 2 * Half /\ Halves \in Nat /\ OtBits \in Nat \ {0}
      /\ CapMin \in Nat /\ CapMin <= Bit /\ MaxT \in Nat
  BY OtDurations DEF Halves
<1>3. /\ boiler' = boiler + 1 /\ boilerT' = 0 /\ boilerT + 1 = Half /\ UNCHANGED <<reply, asked>>
  BY <1>1, <1>2 DEF BoilerTurns
<1>4. reply \in Words /\ otValue \in Words /\ prevV \in {0, 1} /\ otIdx \in -1..OtBits
  BY DEF OtIInv, OtTypeOK, IndexRight
<1>5. prevV = BitAt(reply, otIdx) /\ bus = 1 - prevV
  <2>1. BoilerLevel(boiler, reply) = BitAt(reply, OtBits - boiler \div 2)
        /\ BoilerLevel(boiler + 1, reply) = 1 - BoilerLevel(boiler, reply)
    BY <1>1, <1>2, <1>4, OtLevels
  <2> QED BY <1>1, <1>3, <2>1 DEF Followed
<1>6. bus # prevV /\ bus \in {0, 1}
  BY <1>4, <1>5
<1>7. prevV' = bus /\ (BetweenBits(t0 + 1) \/ MidBit(t0 + 1))
  BY <1>1, <1>6, OtReadSteps
<1>8. boiler # 1 => t0 + 1 >= Bit
  BY <1>1, <1>2, <1>3 DEF InStep
<1>9. WholeFrame => t0 + 1 >= Bit
  BY <1>1, <1>2, <1>3, <1>8 DEF WholeFrame
<1>10. BetweenBits(t0 + 1) => t0 + 1 < Bit
  BY <1>1, <1>2 DEF BetweenBits
<1>11. boiler \div 2 \in Nat /\ (boiler + 1) \div 2 = boiler \div 2 + 1 /\ (boiler + 1) % 2 = 0
  BY <1>1, <1>2, HalfBits
<1>12. ~asked' /\ prevV' = BoilerLevel(boiler', reply')
  BY <1>3, <1>7 DEF Followed
<1>13. ASSUME BetweenBits(t0 + 1) PROVE boiler = 1 /\ otSt' = "read" /\ Followed'
  <2>1. boiler = 1 /\ otSt' = "read" /\ otIdx' = otIdx
    BY <1>1, <1>2, <1>8, <1>10, <1>13 DEF BetweenBits
  <2>2. boiler' > 2 * (OtBits - otIdx') + 1
    <3>1. 1 \div 2 = 0
      OBVIOUS
    <3> QED BY <1>1, <1>2, <1>3, <2>1, <3>1
  <2> QED BY <1>12, <2>1, <2>2 DEF Followed, Trailing, Accepted
<1>14. ASSUME MidBit(t0 + 1)
       PROVE  \/ otSt' = "read" /\ InStep' /\ Followed' /\ boiler' # 1
              \/ otSt' = "idle" /\ said' = <<"ok", reply>>
  <2>1. otIdx \notin 0..(OtBits - 1) => prevV = 1
    BY <1>5, Zenon DEF BitAt
  <2>2. \A i \in 0..(OtBits - 1) : i > otIdx => otValue[i] = reply[i]
    BY DEF InStep
  <2>3. CASE otIdx = -1
    <3>1. otIdx \notin 0..(OtBits - 1)
      BY <1>2, <2>3
    <3>2. otSt' = "idle" /\ said' = <<"ok", otValue>>
      BY <1>14, <2>1, <2>3, <3>1 DEF MidBit
    <3>3. otValue = reply
      BY <1>2, <1>4, <2>2, <2>3 DEF Words
    <3> QED BY <3>2, <3>3
  <2>4. CASE otIdx # -1
    <3>1. otSt' = "read" /\ otIdx' = otIdx - 1 /\ t0' = 0
      BY <1>14, <2>1, <2>4 DEF MidBit
    <3>2. \A i \in 0..(OtBits - 1) : i > otIdx' => otValue'[i] = reply'[i]
      <4>1. SUFFICES ASSUME NEW i \in 0..(OtBits - 1), i > otIdx' PROVE otValue'[i] = reply[i]
        BY <1>3
      <4>2. CASE i = otIdx
        <5>1. otValue' = [otValue EXCEPT ![otIdx] = prevV]
          BY <1>14, <4>2 DEF MidBit
        <5>2. prevV = reply[i]
          BY <1>5, <4>2 DEF BitAt
        <5> QED BY <1>4, <4>2, <5>1, <5>2 DEF Words
      <4>3. CASE i # otIdx
        <5>1. i > otIdx
          BY <1>2, <1>4, <3>1, <4>1, <4>3
        <5>2. otValue'[i] = otValue[i]
          BY <1>4, <1>14, <4>3 DEF MidBit, Words
        <5> QED BY <2>2, <5>1, <5>2
      <4> QED BY <4>2, <4>3
    <3>3. boiler' > 0 /\ boiler' # 1 /\ OtBits - otIdx' = boiler' \div 2 /\ boiler' % 2 = 0 /\ t0' = boilerT'
      BY <1>1, <1>2, <1>3, <1>4, <1>11, <3>1
    <3>4. InStep'
      BY <3>2, <3>3, Zenon DEF InStep, Accepted
    <3> QED BY <1>12, <3>1, <3>3, <3>4 DEF Followed
  <2> QED BY <2>3, <2>4
<1>15. WholeFrame => ~BetweenBits(t0 + 1)
  BY <1>1, <1>2, <1>9, <1>10
<1> QED BY <1>7, <1>13, <1>14, <1>15, Zenon

(* In a quiet unit of time in step with the boiler the machine stays so, or *)
(* has read the frame to its end; or it missed the first edge, but not when *)
(* it has listened from the frame's start.                                  *)
LEMMA OtInStepFollows ==
  ASSUME OtIInv, BoilerOnTime, BoilerOnTime', otSt = "read", Followed, InStep, BoilerMoves,
         ReadFrame(Later(t0), BoilerLevel(boiler', reply'))
  PROVE  /\ otSt' = "read" => Followed'
         /\ WholeFrame => \/ otSt' = "read" /\ WholeFrame'
                          \/ otSt' = "idle" /\ said' = <<"ok", reply>>
<1> DEFINE bus == BoilerLevel(boiler', reply')
<1>1. /\ boiler \in 1..(Halves - 1) /\ otIdx = OtBits - boiler \div 2 /\ boilerT \in Nat /\ t0 \in 0..MaxT
      /\ t0 + 1 <= Bit + Jitter /\ Later(t0) = t0 + 1 /\ t0 + 1 \in 0..MaxT
  BY OtInStep, OtLater
<1>2. /\ Half \in Nat \ {0} /\ Jitter \in Nat /\ Bit = 2 * Half /\ Halves \in Nat
      /\ CapMin \in Nat /\ Half + Jitter < CapMin /\ CapMax \in Nat /\ Bit + Jitter < CapMax /\ MaxT \in Nat
  BY OtDurations DEF Halves
<1>3. BoilerHolds \/ BoilerTurns
  BY <1>1, OtBoilerSteps DEF OtIInv, BoilerSilent, BoilerBegins
<1>4. reply \in Words /\ reply' = reply /\ asked' = asked /\ ~asked /\ prevV = BoilerLevel(boiler, reply)
  BY <1>3 DEF BoilerHolds, BoilerTurns, Followed, OtIInv, OtTypeOK
<1>5. bus \in {0, 1} /\ prevV \in {0, 1}
  BY <1>4, OtBoilerLevel DEF OtIInv, OtTypeOK
<1>6. prevV' = bus /\ IF bus = prevV THEN NoEdge(t0 + 1) ELSE BetweenBits(t0 + 1) \/ MidBit(t0 + 1)
  BY <1>1, <1>5, OtReadSteps
<1>7. NoEdge(t0 + 1) \/ BetweenBits(t0 + 1) =>
        otSt' = "read" /\ t0' = t0 + 1 /\ otIdx' = otIdx /\ otValue' = otValue
  BY <1>1, <1>2 DEF NoEdge, BetweenBits
<1>8. CASE BoilerHolds
  <2>1. boiler' = boiler /\ boilerT' = boilerT + 1 /\ bus = prevV
    BY <1>4, <1>8 DEF BoilerHolds
  <2>2. otSt' = "read" /\ t0' = t0 + 1 /\ otIdx' = otIdx /\ otValue' = otValue
    BY <1>6, <1>7, <2>1
  <2>3. IF boiler = 1 THEN t0' <= Half + boilerT'
        ELSE IF boiler % 2 = 0 THEN t0' = boilerT'
        ELSE t0' \in (Half + boilerT')..(Half + Jitter + boilerT')
    <3>1. CASE boiler = 1
      BY <1>1, <1>2, <2>1, <2>2, <3>1 DEF InStep
    <3>2. CASE boiler # 1 /\ boiler % 2 = 0
      BY <1>1, <1>2, <2>1, <2>2, <3>2 DEF InStep
    <3>3. CASE boiler # 1 /\ boiler % 2 # 0
      BY <1>1, <1>2, <2>1, <2>2, <3>3 DEF InStep
    <3> QED BY <3>1, <3>2, <3>3
  <2>4. InStep'
    BY <1>4, <2>1, <2>2, <2>3 DEF InStep, Accepted
  <2>5. WholeFrame => WholeFrame'
    BY <1>1, <1>2, <2>1, <2>2, <2>4 DEF WholeFrame
  <2> QED BY <1>4, <1>6, <2>2, <2>4, <2>5 DEF Followed
<1>9. CASE BoilerTurns /\ boiler % 2 = 1
  BY <1>1, <1>9, OtMiddle DEF WholeFrame
<1>10. CASE BoilerTurns /\ boiler % 2 = 0
  <2>1. boiler' = boiler + 1 /\ boilerT' = 0 /\ boilerT + 1 \in Half..(Half + Jitter)
    BY <1>1, <1>2, <1>10 DEF BoilerTurns
  <2>2. boiler # 1
    BY <1>10
  <2>3. t0 = boilerT
    BY <1>10, <2>2 DEF InStep
  <2>4. ~MidBit(t0 + 1)
    BY <1>1, <1>2, <2>1, <2>3 DEF MidBit
  <2>5. otSt' = "read" /\ t0' = t0 + 1 /\ otIdx' = otIdx /\ otValue' = otValue
    BY <1>6, <1>7, <2>4
  <2>6. (boiler + 1) \div 2 = boiler \div 2 /\ (boiler + 1) % 2 = 1
    BY <1>1, <1>2, <1>10, HalfBits
  <2>7. boiler' > 0 /\ boiler' # 1 /\ boiler' % 2 # 0 /\ OtBits - otIdx' = boiler' \div 2
    BY <1>1, <1>2, <2>1, <2>5, <2>6 DEF InStep, Accepted
  <2>8. t0' \in (Half + boilerT')..(Half + Jitter + boilerT')
    BY <1>1, <1>2, <2>1, <2>3, <2>5
  <2>9. InStep'
    BY <1>4, <2>5, <2>7, <2>8 DEF InStep, Accepted
  <2> QED BY <1>4, <1>6, <2>5, <2>7, <2>9 DEF Followed, WholeFrame
<1>11. boiler % 2 \in {0, 1}
  BY <1>1, <1>2, HalfBits
<1> QED BY <1>3, <1>8, <1>9, <1>10, <1>11

(* A machine that has missed an edge does not make up for it.               *)
LEMMA OtTrailingFollows ==
  ASSUME OtIInv, BoilerOnTime, otSt = "read", Followed, Trailing, BoilerMoves,
         ReadFrame(Later(t0), BoilerLevel(boiler', reply'))
  PROVE  otSt' = "read" => Followed'
<1> DEFINE bus == BoilerLevel(boiler', reply')
           now == Later(t0)
<1>1. /\ boiler \in 0..Halves /\ otIdx \in -1..OtBits /\ boilerT \in Nat /\ t0 \in 0..MaxT
      /\ now \in 0..MaxT /\ now <= t0 + 1
  BY OtLater, OtDurations DEF OtIInv, OtTypeOK, IndexRight
<1>2. /\ Half \in Nat \ {0} /\ Jitter \in Nat /\ Halves \in Nat /\ OtBits \in Nat
      /\ CapMin \in Nat /\ Half + Jitter < CapMin /\ MaxT \in Nat
  BY OtDurations DEF Halves
<1>3. BoilerSilent \/ BoilerHolds \/ BoilerTurns
  BY OtBoilerSteps DEF OtIInv, BoilerBegins, Followed
<1>4. reply \in Words /\ reply' = reply /\ asked' = asked /\ ~asked /\ prevV = BoilerLevel(boiler, reply)
  BY <1>3 DEF BoilerSilent, BoilerHolds, BoilerTurns, Followed, OtIInv, OtTypeOK
<1>5. bus \in {0, 1} /\ prevV \in {0, 1}
  BY <1>4, OtBoilerLevel DEF OtIInv, OtTypeOK
<1>6. prevV' = bus /\ IF bus = prevV THEN NoEdge(now) ELSE BetweenBits(now) \/ MidBit(now)
  BY <1>1, <1>5, OtReadSteps
<1> HIDE DEF now
<1>7. NoEdge(now) \/ BetweenBits(now) => t0' = now /\ otIdx' = otIdx
  BY DEF NoEdge, BetweenBits
<1>8. CASE BoilerSilent \/ BoilerHolds
  <2>1. boiler' = boiler /\ (boiler # 0 => boilerT' = boilerT + 1) /\ bus = prevV
    BY <1>4, <1>8 DEF BoilerSilent, BoilerHolds
  <2>2. t0' = now /\ otIdx' = otIdx
    BY <1>6, <1>7, <2>1
  <2>3. Trailing'
    BY <1>1, <1>2, <2>1, <2>2 DEF Trailing, Accepted
  <2> QED BY <1>4, <1>6, <2>3 DEF Followed
<1>9. CASE BoilerTurns /\ boiler = Halves
  BY <1>4, <1>6, <1>9 DEF Followed, Trailing, BoilerTurns
<1>10. CASE BoilerTurns /\ boiler # Halves
  <2>1. boiler' = boiler + 1 /\ boiler > 0 /\ boilerT' = 0 /\ boilerT + 1 <= Half + Jitter
    BY <1>1, <1>2, <1>10 DEF BoilerTurns
  <2>2. CASE NoEdge(now) \/ BetweenBits(now)
    <3>1. boiler' > 2 * (OtBits - otIdx') + 1
      BY <1>1, <1>2, <1>7, <2>1, <2>2 DEF Trailing, Accepted
    <3> QED BY <1>4, <1>6, <3>1 DEF Followed, Trailing, Accepted
  <2>3. CASE MidBit(now)
    <3>1. now >= CapMin /\ t0' = 0 /\ otIdx' = otIdx - 1
      BY <2>3 DEF MidBit
    <3>2. boiler > 2 * (OtBits - otIdx) + 1
      BY <1>1, <1>2, <2>1, <3>1 DEF Trailing, Accepted
    <3>3. boiler' > 2 * (OtBits - otIdx') + 1 \/ boiler' = 2 * (OtBits - otIdx') + 1
      BY <1>1, <1>2, <2>1, <3>1, <3>2
    <3>4. t0' <= boilerT'
      BY <2>1, <3>1
    <3> QED BY <1>4, <1>6, <3>3, <3>4 DEF Followed, Trailing, Accepted
  <2> QED BY <1>6, <2>2, <2>3
<1> QED BY <1>3, <1>8, <1>9, <1>10

(* Words with the same bits are the same.                                   *)
LEMMA OtSameWord ==
  ASSUME NEW v \in Words, NEW w \in Words, \A i \in 0..(OtBits - 1) : v[i] = w[i]
  PROVE  v = w
<1>1. v = [i \in 0..(OtBits - 1) |-> v[i]] /\ w = [i \in 0..(OtBits - 1) |-> w[i]]
  BY Zenon DEF Words
<1>2. [i \in 0..(OtBits - 1) |-> v[i]] = [i \in 0..(OtBits - 1) |-> w[i]]
  OBVIOUS
<1> QED BY <1>1, <1>2, Zenon

(* Whatever the last poll shows, only a whole frame is answered as one.     *)
LEMMA OtOkIsWhole ==
  ASSUME OtIInv, BoilerOnTime, otSt = "read", Followed, otSt' = "idle",
         NEW bus \in {0, 1}, ReadFrame(Later(t0), bus)
  PROVE  said' = <<"ok", reply>>
<1>1. /\ boiler \in 0..Halves /\ otIdx \in -1..OtBits /\ boilerT \in Nat /\ t0 \in 0..MaxT
      /\ Later(t0) \in 0..MaxT /\ Later(t0) <= t0 + 1 /\ reply \in Words /\ otValue \in Words
  BY OtLater, OtDurations DEF OtIInv, OtTypeOK, IndexRight
<1>2. /\ Half \in Nat \ {0} /\ Jitter \in Nat /\ Halves = 2 * (OtBits + 2) /\ OtBits \in Nat \ {0}
      /\ CapMin \in Nat /\ Half + Jitter < CapMin /\ MaxT \in Nat
  BY OtDurations DEF Halves
<1>3. IF bus = prevV THEN NoEdge(Later(t0)) ELSE BetweenBits(Later(t0)) \/ MidBit(Later(t0))
  BY <1>1, OtReadSteps
<1>4. otIdx = -1 /\ prevV = 1 /\ said' = <<"ok", otValue>> /\ Later(t0) >= CapMin
  BY <1>3 DEF NoEdge, BetweenBits, MidBit
<1>5. CASE InStep
  <2>1. \A i \in 0..(OtBits - 1) : otValue[i] = reply[i]
    BY <1>2, <1>4, <1>5 DEF InStep
  <2>2. otValue = reply
    BY <1>1, <2>1, OtSameWord
  <2> QED BY <1>4, <2>2
<1>6. CASE Trailing
  <2>1. BoilerLevel(boiler, reply) = 1
    BY <1>4 DEF Followed
  <2>2. boiler # 0 /\ boiler # Halves
    BY <1>1, <2>1, OtLevels
  <2>3. boiler = 2 * (OtBits + 1) + 1 /\ t0 <= boilerT
    BY <1>1, <1>2, <1>4, <1>6, <2>2 DEF Trailing, Accepted
  <2>4. boilerT < Half + Jitter
    BY <1>1, <1>2, <2>2 DEF BoilerOnTime
  <2> QED BY <1>1, <1>2, <1>4, <2>3, <2>4
<1> QED BY <1>5, <1>6 DEF Followed

(* A poll of a quiet line that ends the wait is in the frame's first half   *)
(* bit, or the machine has come too late for it.                            *)
LEMMA OtListens ==
  ASSUME OtIInv, BoilerOnTime', otSt = "wait", ~whole, BoilerMoves, otSt' = "read",
         WaitFrame(Later(t0), BoilerLevel(boiler', reply'))
  PROVE  Followed' /\ (boiler = 0 => WholeFrame')
<1> DEFINE bus == BoilerLevel(boiler', reply')
<1>1. /\ OtBits \in Nat \ {0} /\ Half \in Nat \ {0} /\ Halves \in Nat
      /\ boiler \in 0..Halves /\ boilerT \in Nat
      /\ boiler' \in 0..Halves /\ boilerT' \in Nat /\ reply' \in Words
  BY OtDurations, OtBoilerTypes DEF OtIInv, OtTypeOK, Halves
<1>2. bus = 1 /\ t0' = Half /\ otIdx' = OtBits /\ prevV' = 1
  BY DEF WaitFrame, OtAnswer
<1>3. boiler' > 0
  BY <1>1, <1>2, OtLevels
<1>4. ~asked'
  BY <1>3 DEF BoilerOnTime
<1>5. CASE boiler' = 1
  <2>1. boiler' \div 2 = 0 /\ OtBits - otIdx' = 0
    <3>1. 1 \div 2 = 0
      OBVIOUS
    <3>2. boiler' \div 2 = 0
      BY <1>5, <3>1, Zenon
    <3>3. OtBits - otIdx' = 0
      BY <1>1, <1>2
    <3> QED BY <3>2, <3>3
  <2>2. t0' <= Half + boilerT'
    <3>1. \A t \in Nat : Half <= Half + t
      BY <1>1
    <3> QED BY <1>1, <1>2, <3>1, Zenon
  <2>3. \A i \in 0..(OtBits - 1) : ~(i > otIdx')
    BY <1>1, <1>2
  <2>4. InStep'
    <3>1. Accepted' = boiler' \div 2
      BY <2>1 DEF Accepted
    <3> QED BY <1>3, <1>5, <2>2, <2>3, <3>1 DEF InStep
  <2>5. boiler = 0 => boilerT' = 0
    BY <1>5 DEF BoilerMoves
  <2>6. boiler = 0 => t0' = Half + boilerT'
    BY <1>1, <1>2, <2>5
  <2> QED BY <1>2, <1>4, <2>4, <2>6 DEF Followed, WholeFrame
<1>6. CASE boiler' # 1
  <2>1. boiler' > 2 * (OtBits - otIdx') + 1 /\ boiler # 0
    BY <1>1, <1>2, <1>3, <1>6 DEF BoilerMoves
  <2> QED BY <1>2, <1>4, <2>1 DEF Followed, Trailing, Accepted
<1> QED BY <1>5, <1>6

(* How the machine comes to read, and how it comes to rest with a frame.    *)
LEMMA OtStates ==
  ASSUME NEW now, NEW bus,
         \/ Idling \/ WriteFrame(now) \/ FrameWaitGap(now) \/ WaitFrame(now, bus) \/ ReadFrame(now, bus)
         \/ FrameErrorWaitGap(now, bus)
  PROVE  /\ otSt' = "read" => (otSt = "read" /\ ReadFrame(now, bus)) \/ (otSt = "wait" /\ WaitFrame(now, bus))
         /\ otSt = "read" => ReadFrame(now, bus)
         /\ otSt = "wait" => WaitFrame(now, bus)
         /\ otSt = "idle" => otSt' = "idle"
         /\ otSt # "idle" /\ otSt' = "idle" =>
              \/ otSt = "read" /\ ReadFrame(now, bus)
              \/ otSt \in {"wait", "errorGap"} /\ said'[1] # "ok"
<1>1. CASE Idling
  BY <1>1 DEF Idling
<1>2. CASE WriteFrame(now)
  BY <1>2 DEF WriteFrame
<1>3. CASE FrameWaitGap(now)
  BY <1>3 DEF FrameWaitGap
<1>4. CASE WaitFrame(now, bus)
  BY <1>4 DEF WaitFrame, OtAnswer, Silent
<1>5. CASE ReadFrame(now, bus)
  BY <1>5 DEF ReadFrame
<1>6. CASE FrameErrorWaitGap(now, bus)
  BY <1>6 DEF FrameErrorWaitGap, OtAnswer, Silent
<1> QED BY <1>1, <1>2, <1>3, <1>4, <1>5, <1>6

(* What FramesSound says of a step.                                         *)
FrameRead ==
  otSt # "idle" /\ otSt' = "idle" =>
    /\ whole' => said' = <<"ok", reply'>>
    /\ noiseless /\ said'[1] = "ok" => said'[2] = reply
(* A unit of time keeps the boiler and the frames followed, and a frame is  *)
(* read right.                                                              *)
LEMMA OtTickFollows ==
  ASSUME OtIInv, FrameInv, NEW noise \in BOOLEAN, OtTick(noise)
  PROVE  FrameInv' /\ FrameRead
<1> DEFINE level == BoilerLevel(boiler', reply')
           bus == IF noise THEN 1 - level ELSE level
           now == Later(t0)
<1>1. \/ Idling \/ WriteFrame(now) \/ FrameWaitGap(now) \/ WaitFrame(now, bus) \/ ReadFrame(now, bus)
      \/ FrameErrorWaitGap(now, bus)
  BY Zenon DEF OtTick
<1>2. /\ otSt # "write" => BoilerMoves
      /\ BoilerMoves \/ BoilerAsked
      /\ noiseless' = (noiseless /\ ~noise)
      /\ whole' = (~noise /\ (whole \/ (otSt = "wait" /\ boiler = 0 /\ boiler' = 1)))
  BY DEF OtTick
<1>3. reply' \in Words /\ level \in {0, 1} /\ bus \in {0, 1}
  <2>1. reply' \in Words
    BY <1>2, OtBoilerTypes DEF OtIInv
  <2>2. level \in {0, 1}
    BY <2>1, OtBoilerLevel
  <2> QED BY <2>1, <2>2
<1>4. ~noise => bus = level
  OBVIOUS
<1>5. BoilerOnTime'
  <2>1. CASE BoilerMoves
    BY <2>1, OtBoilerSteps DEF OtIInv, FrameInv
  <2>2. CASE boiler = 0 /\ boiler' = 0
    BY <2>2 DEF BoilerOnTime
  <2> QED BY <1>2, <2>1, <2>2 DEF BoilerAsked
<1> HIDE DEF bus, now, level
<1>6. ASSUME otSt = "read", ~noise, whole \/ noiseless
      PROVE  /\ otSt' = "read" => Followed'
             /\ whole => \/ otSt' = "read" /\ WholeFrame'
                         \/ otSt' = "idle" /\ said' = <<"ok", reply>>
  <2>1. Followed /\ BoilerMoves /\ ReadFrame(Later(t0), BoilerLevel(boiler', reply')) /\ BoilerOnTime
    BY <1>1, <1>2, <1>4, <1>6, OtStates DEF FrameInv, FramesFollowed, bus, now, level
  <2>2. whole => WholeFrame
    BY <1>6 DEF FrameInv, FramesFollowed
  <2>3. CASE InStep
    BY <1>5, <1>6, <2>1, <2>2, <2>3, OtInStepFollows
  <2>4. CASE Trailing /\ ~whole
    BY <1>6, <2>1, <2>4, OtTrailingFollows
  <2> QED BY <2>1, <2>2, <2>3, <2>4 DEF Followed, WholeFrame
<1>7. ASSUME otSt = "wait", ~noise
      PROVE  /\ otSt' = "read" => Followed' /\ (boiler = 0 => WholeFrame')
             /\ boiler = 0 /\ boiler' = 1 => otSt' = "read"
  <2>1. ~whole /\ BoilerMoves /\ WaitFrame(Later(t0), BoilerLevel(boiler', reply'))
    BY <1>1, <1>2, <1>4, <1>7, OtStates DEF FrameInv, FramesFollowed, bus, now, level
  <2>2. otSt' = "read" => Followed' /\ (boiler = 0 => WholeFrame')
    BY <1>5, <1>7, <2>1, OtListens
  <2>3. boiler' = 1 => otSt' = "read"
    <3>1. boiler' = 1 => BoilerLevel(boiler', reply') = 1
      BY <1>3, OtLevels
    <3> QED BY <2>1, <3>1 DEF WaitFrame
  <2> QED BY <2>2, <2>3
<1>8. FramesFollowed'
  <2>1. ASSUME whole' PROVE otSt' \in {"read", "idle"}
    BY <1>1, <1>2, <1>6, <1>7, <2>1, OtStates DEF FrameInv, FramesFollowed
  <2>2. ASSUME otSt' = "read", whole' \/ noiseless' PROVE Followed' /\ (whole' => WholeFrame')
    <3>1. ~noise /\ otSt \in {"read", "wait"}
      BY <1>1, <1>2, <2>2, OtStates
    <3>2. CASE otSt = "read"
      BY <1>2, <1>6, <2>2, <3>1, <3>2
    <3>3. CASE otSt = "wait"
      BY <1>2, <1>7, <2>2, <3>1, <3>3 DEF FrameInv, FramesFollowed
    <3> QED BY <3>1, <3>2, <3>3
  <2> QED BY <2>1, <2>2 DEF FramesFollowed
<1>9. FrameRead
  <2>1. SUFFICES ASSUME otSt # "idle", otSt' = "idle"
                 PROVE  /\ whole' => said' = <<"ok", reply'>>
                        /\ noiseless /\ said'[1] = "ok" => said'[2] = reply
    BY DEF FrameRead
  <2>2. ASSUME whole' PROVE said' = <<"ok", reply'>>
    <3>1. ~noise /\ whole /\ otSt = "read"
      BY <1>2, <1>7, <2>1, <2>2 DEF FrameInv, FramesFollowed
    <3>2. boiler > 0 /\ BoilerMoves
      BY <1>2, <3>1 DEF FrameInv, FramesFollowed, WholeFrame, InStep
    <3>3. reply' = reply
      BY <3>2, OtBoilerSteps DEF OtIInv, FrameInv, BoilerSilent, BoilerBegins, BoilerHolds, BoilerTurns
    <3> QED BY <1>6, <2>1, <3>1, <3>3
  <2>3. ASSUME noiseless, said'[1] = "ok" PROVE said'[2] = reply
    <3>1. otSt = "read" /\ ReadFrame(now, bus)
      BY <1>1, <2>1, <2>3, OtStates
    <3>2. Followed /\ BoilerOnTime
      BY <2>3, <3>1 DEF FrameInv, FramesFollowed
    <3>3. said' = <<"ok", reply>>
      BY <1>3, <2>1, <3>1, <3>2, OtOkIsWhole DEF now
    <3> QED BY <3>3
  <2> QED BY <2>2, <2>3
<1> QED BY <1>5, <1>8, <1>9 DEF FrameInv

(* Every step does.                                                         *)
LEMMA OtNextFollows ==
  ASSUME OtIInv, FrameInv, [OtNext]_otVars
  PROVE  FrameInv' /\ [FrameRead]_otVars
<1>1. CASE \E w \in Words : Transmit(w)
  <2>1. PICK w \in Words : Transmit(w)
    BY <1>1
  <2>2. /\ otSt = "idle" /\ otSt' = "write" /\ whole' = FALSE
        /\ UNCHANGED <<boiler, boilerT, asked>>
    BY <2>1 DEF Transmit
  <2> QED BY <2>2 DEF FrameInv, BoilerOnTime, FramesFollowed, FrameRead
<1>2. CASE UNCHANGED otVars
  BY <1>2 DEF otVars, FrameInv, BoilerOnTime, FramesFollowed, Followed, WholeFrame, InStep, Trailing, Accepted
<1> QED BY <1>1, <1>2, OtTickFollows DEF OtNext

(* Nothing has been heard yet.                                              *)
LEMMA OtInitFollows == OtInit => FrameInv
BY DEF OtInit, FrameInv, BoilerOnTime, FramesFollowed

-----------------------------------------------------------------------------
(* The daemon's measurement (OneWire).                                      *)

(* The answers between the PRU and the client: number 0 is in the mailbox,  *)
(* the others wait for the reader.                                          *)
Item(b, l, i)    == IF i = 0 THEN b ELSE l[i]
Says(b, l, i, c) == Item(b, l, i) # None /\ Item(b, l, i).code = c
Carries(b, l, i) == Item(b, l, i) # None /\ Item(b, l, i).data # None
Of(b, l, i)      == Item(b, l, i).data.sensor
Recent(b, l, i)  == Item(b, l, i).data.fresh
NoReset(b, l, i) == \A j \in 0..Len(l) : j < i => ~Says(b, l, j, "PresenceOk")

(* The PRU is about to read a temperature.                                  *)
Coming == pru # None /\ pru.op = "read" /\ Selected
Busy   == IF pru = None THEN 0 ELSE 1
Full   == IF box = None THEN 0 ELSE 1

(* How many answers there can be between the client and the PRU.            *)
Behind == Len(late) + Full + Busy <= MaxLate + IF waiting THEN 1 ELSE 0

(* A temperature is in the answer of a read.                                *)
ReadsCarry(b, l) == \A i \in 0..Len(l) : Carries(b, l, i) => ~Says(b, l, i, "PresenceOk")

(* What the sensors heard since the reset was answered after the reset was, *)
(* and a temperature after the three writes that selected its sensor.       *)
Clear(h) == \A k \in 1..Len(h) : h[k] # "noise"
HeardAfter(b, l, h) ==
  Clear(h) => \A j \in 0..Len(l) : Says(b, l, j, "PresenceOk") => j + Len(h) <= Len(l)
ReadAfter(b, l) ==
  \A i, j \in 0..Len(l) : j < i /\ Says(b, l, j, "PresenceOk") /\ Carries(b, l, i) => j + 4 <= i

(* While presence is asked for, no reset is answered before a temperature.  *)
AtReset ==
  step = 1 => /\ \A i \in 0..Len(late) : Carries(box, late, i) => NoReset(box, late, i)
              /\ Coming => NoReset(box, late, Len(late) + 1)

(* After that the only temperature on its way is the one being read.        *)
Reading == txn # 0 /\ step = 5 /\ waiting
InTransaction ==
  step # 1 => /\ \A i \in 0..Len(late) : Carries(box, late, i) => Reading /\ Of(box, late, i) = txn
              /\ Coming => Reading /\ pru.txn = txn

InOrder == ReadsCarry(box, late) /\ HeardAfter(box, late, heard) /\ ReadAfter(box, late)
QInv == TypeOK /\ Behind /\ InOrder /\ AtReset /\ InTransaction /\ NotMixedUp

(* Nothing has been logged and nothing was late in this round.              *)
Quiet == ~convertLogged /\ ~tardy
IsAnswered(b, l, c) == \E i \in 0..Len(l) : Says(b, l, i, c)
Own(c) == pru # None => pru.op = c /\ ~pru.garbled

(* While the conversion is asked for without an error, an answer is to the  *)
(* command that was sent last, and the sensors heard what was answered.     *)
AskedToConvert ==
  Quiet /\ txn = 0 /\ (step # 1 \/ waiting) =>
    /\ Len(late) + Full + Busy <= IF waiting THEN 1 ELSE 0
    /\ result = Nothing
    /\ step = 1 /\ IsAnswered(box, late, "PresenceOk") => heard = <<>>
    /\ step = 2 => /\ ~waiting \/ pru # None => heard = <<>>
                   /\ waiting => Own("skip")
                   /\ IsAnswered(box, late, "WriteBitsOk") => heard = <<"skip">>
    /\ step = 3 => /\ ~waiting \/ pru # None => heard = <<"skip">>
                   /\ waiting => Own("convert")
                   /\ IsAnswered(box, late, "WriteBitsOk") => fresh

(* When it has been answered the sensors have converted, and what is read   *)
(* and passed on is of this round.                                          *)
Converted ==
  Quiet /\ txn # 0 => fresh /\ \A i \in 0..Len(late) : Carries(box, late, i) => Recent(box, late, i)
PassedOn ==
  Quiet /\ (txn # 0 \/ (step = 1 /\ ~waiting)) => \A s \in Sensors : result[s] # None => result[s].fresh

RInv == QInv /\ AskedToConvert /\ Converted /\ PassedOn
-----------------------------------------------------------------------------
(* What a sequence is without its first element.                            *)
LEMMA Shortened ==
  ASSUME NEW S, NEW s \in Seq(S), s # <<>>
  PROVE  /\ Tail(s) \in Seq(S) /\ Head(s) \in S /\ Len(s) \in Nat \ {0} /\ Len(Tail(s)) = Len(s) - 1
         /\ Head(s) = s[1] /\ \A k \in 1..(Len(s) - 1) : Tail(s)[k] = s[k + 1]
OBVIOUS

(* What is waiting when an answer is added, delivered or taken.             *)
LEMMA ItemAdded ==
  ASSUME NEW b, NEW l \in Seq(Answers), NEW a \in Answers
  PROVE  /\ Append(l, a) \in Seq(Answers) /\ Len(l) \in Nat /\ Len(Append(l, a)) = Len(l) + 1
         /\ \A i \in 0..Len(l) : Item(b, Append(l, a), i) = Item(b, l, i)
         /\ Item(b, Append(l, a), Len(l) + 1) = a
<1>1. /\ Append(l, a) \in Seq(Answers) /\ Len(l) \in Nat /\ Len(Append(l, a)) = Len(l) + 1
      /\ \A k \in 1..Len(l) : Append(l, a)[k] = l[k]
      /\ Append(l, a)[Len(l) + 1] = a
  BY Appended
<1> DEFINE m == Append(l, a)
<1> HIDE DEF m
<1>2. \A i \in 0..Len(l) : Item(b, m, i) = Item(b, l, i)
  BY <1>1 DEF Item, m
<1>3. Item(b, m, Len(l) + 1) = a
  BY <1>1 DEF Item, m
<1> QED BY <1>1, <1>2, <1>3 DEF m

(* The first of the answers that wait moves into the mailbox, the others    *)
(* up.                                                                      *)
LEMMA ItemDelivered ==
  ASSUME NEW b, NEW l \in Seq(Answers), l # <<>>
  PROVE  /\ Tail(l) \in Seq(Answers) /\ Head(l) \in Answers /\ Len(l) \in Nat \ {0} /\ Len(Tail(l)) = Len(l) - 1
         /\ \A i \in 0..(Len(l) - 1) : Item(Head(l), Tail(l), i) = Item(b, l, i + 1)
<1>1. /\ Tail(l) \in Seq(Answers) /\ Head(l) \in Answers /\ Len(l) \in Nat \ {0} /\ Len(Tail(l)) = Len(l) - 1
      /\ Head(l) = l[1] /\ \A k \in 1..(Len(l) - 1) : Tail(l)[k] = l[k + 1]
  BY Shortened
<1>2. ASSUME NEW i \in 0..(Len(l) - 1) PROVE Item(Head(l), Tail(l), i) = Item(b, l, i + 1)
  <2>1. CASE i = 0
    BY <1>1, <2>1 DEF Item
  <2>2. CASE i # 0
    <3>1. i \in 1..(Len(l) - 1) /\ i + 1 # 0
      BY <1>1, <2>2
    <3>2. Tail(l)[i] = l[i + 1]
      BY <1>1, <3>1
    <3> QED BY <2>2, <3>1, <3>2, Zenon DEF Item
  <2> QED BY <2>1, <2>2
<1> QED BY <1>1, <1>2

(* An empty mailbox has no answer.                                          *)
LEMMA ItemTaken ==
  ASSUME NEW b, NEW l
  PROVE  /\ \A i : i # 0 => Item(None, l, i) = Item(b, l, i)
         /\ \A c : ~Says(None, l, 0, c) /\ ~Carries(None, l, 0)
BY Zenon DEF Item, Says, Carries

(* Taking the answer in the mailbox spoils no order.                        *)
LEMMA TakenInOrder ==
  ASSUME NEW b, NEW l
  PROVE  /\ ReadsCarry(b, l) => ReadsCarry(None, l)
         /\ \A h : HeardAfter(b, l, h) => HeardAfter(None, l, h)
         /\ ReadAfter(b, l) => ReadAfter(None, l)
         /\ \A i : NoReset(b, l, i) => NoReset(None, l, i)
         /\ \A i : Carries(None, l, i) => i # 0 /\ Carries(b, l, i) /\ Of(None, l, i) = Of(b, l, i) /\ Recent(None, l, i) = Recent(b, l, i)
         /\ \A i, c : Says(None, l, i, c) => i # 0 /\ Says(b, l, i, c)
<1>1. \A i, c : Says(None, l, i, c) => i # 0 /\ Says(b, l, i, c)
  BY ItemTaken, Zenon DEF Says
<1>2. \A i : Carries(None, l, i) => i # 0 /\ Carries(b, l, i) /\ Of(None, l, i) = Of(b, l, i) /\ Recent(None, l, i) = Recent(b, l, i)
  BY ItemTaken, Zenon DEF Carries, Of, Recent
<1>3. ReadsCarry(b, l) => ReadsCarry(None, l)
  BY <1>1, <1>2, Zenon DEF ReadsCarry
<1>4. \A h : HeardAfter(b, l, h) => HeardAfter(None, l, h)
  BY <1>1, <1>2, Zenon DEF HeardAfter
<1>5. ReadAfter(b, l) => ReadAfter(None, l)
  BY <1>1, <1>2, Zenon DEF ReadAfter
<1>6. \A i : NoReset(b, l, i) => NoReset(None, l, i)
  BY <1>1, Zenon DEF NoReset
<1> QED BY <1>1, <1>2, <1>3, <1>4, <1>5, <1>6

(* The commands of the transactions.                                        *)
LEMMA Scripts ==
  ASSUME TypeOK
  PROVE  /\ Command \in Commands /\ Len(Script(txn)) = (IF txn = 0 THEN 3 ELSE 5) /\ step \in 1..5
         /\ Command = "init" <=> step = 1
         /\ Command = "read" <=> txn # 0 /\ step = 5
         /\ txn = 0 /\ step = 2 => Command = "skip"
         /\ txn = 0 /\ step = 3 => Command = "convert"
         /\ step \in 1..Len(Script(txn))
<1>1. txn \in Txns /\ step \in 1..Len(Script(txn))
  BY DEF TypeOK
<1>2. CASE txn = 0
  <2>1. Script(txn) = <<"init", "skip", "convert">> /\ Len(Script(txn)) = 3
    BY <1>2 DEF Script
  <2>2. step \in {1, 2, 3}
    BY <1>1, <2>1
  <2> QED BY <1>1, <1>2, <2>1, <2>2 DEF Command, Commands, Writes
<1>3. CASE txn # 0
  <2>1. Script(txn) = <<"init", "match", "rom", "scratchpad", "read">> /\ Len(Script(txn)) = 5
    BY <1>3 DEF Script
  <2>2. step \in {1, 2, 3, 4, 5}
    BY <1>1, <2>1
  <2> QED BY <1>1, <1>3, <2>1, <2>2 DEF Command, Commands, Writes
<1> QED BY <1>2, <1>3

(* Nothing has been sent or answered yet.                                   *)
LEMMA OwInitQInv == Init => QInv
<1> SUFFICES ASSUME Init PROVE QInv
  OBVIOUS
<1>1. /\ txn = 0 /\ step = 1 /\ waiting = FALSE /\ result = Nothing /\ box = None /\ pru = None /\ late = <<>> /\ heard = <<>>
      /\ convertLogged = FALSE /\ fresh = FALSE /\ tardy = FALSE /\ NSensors \in Nat /\ MaxLate \in Nat
  BY OneWireAssumption DEF Init
<1>2. TypeOK
  <2>1. txn \in Txns /\ step \in 1..Len(Script(txn))
    <3>1. Len(Script(0)) = 3
      BY DEF Script
    <3> QED BY <1>1, <3>1 DEF Txns
  <2>2. late \in Seq(Answers) /\ heard \in Seq(Commands \cup {"noise"})
    BY <1>1
  <2>3. result \in [Sensors -> Data \cup {None}]
    BY <1>1 DEF Nothing
  <2> QED BY <1>1, <2>1, <2>2, <2>3, Zenon DEF TypeOK
<1>3. Behind
  BY <1>1 DEF Behind, Full, Busy
<1>4. \A i \in 0..Len(late) : \A c : ~Says(box, late, i, c) /\ ~Carries(box, late, i)
  <2>1. \A i \in 0..Len(late) : i = 0
    BY <1>1
  <2> QED BY <1>1, <2>1, ItemTaken, Zenon
<1>5. ~Coming
  BY <1>1 DEF Coming
<1>6. NotMixedUp
  BY <1>1 DEF NotMixedUp, Nothing
<1>7. InOrder
  BY <1>4, Zenon DEF InOrder, ReadsCarry, HeardAfter, ReadAfter
<1> QED BY <1>1, <1>2, <1>3, <1>4, <1>5, <1>6, <1>7, Zenon DEF QInv, AtReset, InTransaction

(* A command is sent.                                                       *)
LEMMA OwSendTypes ==
  ASSUME TypeOK, Send
  PROVE  TypeOK'
<1>1. Command \in Commands /\ txn \in Txns
  BY Scripts DEF TypeOK
<1>2. pru' \in [op : Commands, txn : Txns, garbled : BOOLEAN]
  BY <1>1 DEF Send, Taken, TypeOK
<1>6. pru'.op = "read" => pru'.txn \in Sensors
  <2>1. Command = "read" => txn \in Sensors
    BY <1>1, Scripts DEF Txns, Sensors
  <2> QED BY <2>1 DEF Send, Taken, TypeOK
<1>3. result' \in [Sensors -> Data \cup {None}]
  BY DEF Send, TypeOK, Nothing
<1>4. convertLogged' \in BOOLEAN /\ fresh' \in BOOLEAN /\ tardy' \in BOOLEAN
  BY DEF Send, TypeOK
<1>5. UNCHANGED <<txn, step, late, heard>> /\ waiting' = TRUE /\ box' \in Answers \cup {None}
  BY DEF Send, TypeOK
<1> QED BY <1>2, <1>3, <1>4, <1>5, <1>6, Zenon DEF TypeOK

(* A command that is sent is one answer more to come, and the mailbox of a  *)
(* reset is empty.                                                          *)
LEMMA OwSendKeeps ==
  ASSUME QInv, Send
  PROVE  QInv'
<1>1. TypeOK /\ TypeOK'
  BY OwSendTypes DEF QInv
<1>2. /\ ~waiting /\ waiting' /\ txn' = txn /\ step' = step /\ late' = late /\ heard' = heard
      /\ pru' = Taken(Command) /\ box' = IF Command = "init" THEN None ELSE box
  BY DEF Send
<1>3. Len(late) \in Nat /\ (box' = box \/ box' = None)
  BY <1>1, <1>2 DEF TypeOK
<1>4. /\ InOrder'
      /\ \A i : NoReset(box, late, i) => NoReset(box', late, i)
      /\ \A i : Carries(box', late, i) => Carries(box, late, i)
  <2>1. CASE box' = box
    BY <1>2, <2>1, Zenon DEF QInv, InOrder
  <2>2. CASE box' = None
    BY <1>2, <2>2, TakenInOrder, Zenon DEF QInv, InOrder
  <2> QED BY <1>3, <2>1, <2>2
<1>5. Behind'
  <2>1. MaxLate \in Nat /\ Full \in {0, 1} /\ Busy \in {0, 1} /\ Full' \in {0, 1} /\ Busy' \in {0, 1}
    BY OneWireAssumption DEF Full, Busy
  <2>2. Len(late) + Full + Busy <= MaxLate
    BY <1>2, <1>3, <2>1 DEF QInv, Behind
  <2>3. Full' <= Full
    BY <1>3 DEF Full
  <2>4. \A n \in Nat, f, b, g, c \in {0, 1} : n + f + b <= MaxLate /\ g <= f => n + g + c <= MaxLate + 1
    BY <2>1
  <2>5. Len(late) + Full' + Busy' <= MaxLate + 1
    BY <1>3, <2>1, <2>2, <2>3, <2>4, Zenon
  <2> QED BY <1>2, <2>5, Zenon DEF Behind
<1>6. CASE step = 1
  <2>1. Coming' => Coming
    <3>1. Command = "init"
      BY <1>1, <1>6, Scripts
    <3>2. CASE pru = None
      <4>1. pru'.op = "init"
        BY <1>2, <3>1, <3>2 DEF Taken
      <4> QED BY <4>1 DEF Coming
    <3>3. CASE pru # None
      <4>1. pru' = pru
        BY <1>2, <3>1, <3>3 DEF Taken
      <4> QED BY <1>2, <4>1, Zenon DEF Coming, Selected
    <3> QED BY <3>2, <3>3
  <2>2. AtReset'
    BY <1>2, <1>4, <1>6, <2>1, Zenon DEF QInv, AtReset
  <2>3. NotMixedUp'
    <3>1. result' = Nothing \/ result' = result
      BY DEF Send
    <3>2. CASE result' = Nothing
      BY <3>2 DEF NotMixedUp, Nothing
    <3>3. CASE result' = result
      BY <3>3, Zenon DEF QInv, NotMixedUp
    <3> QED BY <3>1, <3>2, <3>3
  <2> QED BY <1>1, <1>2, <1>4, <1>5, <1>6, <2>2, <2>3, Zenon DEF QInv, InTransaction
<1>7. CASE step # 1
  <2>1. \A i \in 0..Len(late) : ~Carries(box, late, i)
    BY <1>2, <1>7, Zenon DEF QInv, InTransaction, Reading
  <2>2. Coming' => txn # 0 /\ step = 5 /\ pru'.txn = txn
    <3>1. Command # "init" /\ (Command = "read" <=> txn # 0 /\ step = 5)
      BY <1>1, <1>7, Scripts
    <3>2. pru'.op = Command /\ pru'.txn = txn
      BY <1>2, <3>1 DEF Taken
    <3> QED BY <3>1, <3>2, Zenon DEF Coming
  <2>3. InTransaction'
    BY <1>2, <1>4, <2>1, <2>2, Zenon DEF InTransaction, Reading
  <2>4. NotMixedUp'
    BY <1>7 DEF Send, QInv, NotMixedUp
  <2> QED BY <1>1, <1>2, <1>4, <1>5, <1>7, <2>3, <2>4, Zenon DEF QInv, AtReset
<1> QED BY <1>6, <1>7

(* What the client makes of an answer, or of none.                          *)
LEMMA OwHandledTypes ==
  ASSUME TypeOK, NEW code, NEW data \in Data \cup {None}, Handle(code, data)
  PROVE  /\ txn' \in Txns /\ step' \in 1..Len(Script(txn'))
         /\ result' \in [Sensors -> Data \cup {None}] /\ convertLogged' \in BOOLEAN
<1>1. /\ txn \in Txns /\ step \in 1..Len(Script(txn)) /\ result \in [Sensors -> Data \cup {None}] /\ convertLogged \in BOOLEAN
      /\ NSensors \in Nat \ {0} /\ Len(Script(txn)) = (IF txn = 0 THEN 3 ELSE 5) /\ step \in 1..5
  BY Scripts, OneWireAssumption DEF TypeOK
<1>2. convertLogged' \in BOOLEAN
  <2>1. convertLogged' = (convertLogged \/ (txn = 0 /\ code # IF Command = "init" THEN "PresenceOk" ELSE "WriteBitsOk"))
    BY DEF Handle
  <2> QED BY <2>1
<1>3. ASSUME NEW d \in Data \cup {None}, Finish(d)
      PROVE  txn' \in Txns /\ step' \in 1..Len(Script(txn')) /\ result' \in [Sensors -> Data \cup {None}]
  <2>1. txn' \in Txns /\ txn' = (txn + 1) % (NSensors + 1)
    BY <1>1, <1>3 DEF Finish, Txns
  <2>2. 1 \in 1..Len(Script(txn'))
    <3>1. \A t : Len(Script(t)) \in {3, 5}
      BY DEF Script
    <3>2. \A n \in {3, 5} : 1 \in 1..n
      OBVIOUS
    <3> QED BY <3>1, <3>2, Zenon
  <2>3. result' \in [Sensors -> Data \cup {None}]
    BY <1>1, <1>3 DEF Finish
  <2> QED BY <1>3, <2>1, <2>2, <2>3 DEF Finish
<1>4. ASSUME Continue, step # Len(Script(txn))
      PROVE  txn' \in Txns /\ step' \in 1..Len(Script(txn')) /\ result' \in [Sensors -> Data \cup {None}]
  <2>1. step + 1 \in 1..Len(Script(txn))
    BY <1>1, <1>4
  <2> QED BY <1>1, <1>4, <2>1, Zenon DEF Continue
<1>5. (step = 1 => step # Len(Script(txn))) /\ None \in Data \cup {None}
  BY <1>1
<1>6. CASE Command = "init"
  <2>1. step = 1
    BY <1>6, Scripts
  <2>2. Continue \/ Finish(None)
    BY <1>6 DEF Handle
  <2> QED BY <1>2, <1>3, <1>4, <1>5, <2>1, <2>2
<1>7. CASE Command = "read"
  <2>1. Finish(IF code = "ReadBitsOk" THEN data ELSE None)
    BY <1>7 DEF Handle
  <2>2. (IF code = "ReadBitsOk" THEN data ELSE None) \in Data \cup {None}
    BY <1>5
  <2> QED BY <1>2, <1>3, <2>1, <2>2
<1>8. CASE Command # "init" /\ Command # "read"
  <2>1. Finish(None) \/ (Continue /\ step # Len(Script(txn)))
    BY <1>8 DEF Handle
  <2> QED BY <1>2, <1>3, <1>4, <1>5, <2>1
<1> QED BY <1>6, <1>7, <1>8

(* Whatever answer is taken for its own, or none: a transaction begins when *)
(* nothing on its way can be taken for a temperature of its sensor.         *)
LEMMA OwHandled ==
  ASSUME MaxLate <= 4, QInv, waiting, waiting' = FALSE, box' = None, pru' = pru, late' = late, heard' = heard,
         Len(late) + Busy <= MaxLate, TypeOK',
         NEW code, NEW data, Handle(code, data),
         Present(code) => Says(box, late, 0, "PresenceOk"),
         data # None => Carries(box, late, 0) /\ data.sensor = Of(box, late, 0)
  PROVE  QInv'
<1>1. /\ TypeOK /\ Len(late) \in Nat /\ MaxLate \in Nat /\ Busy \in {0, 1} /\ NSensors \in Nat /\ txn \in Txns
      /\ result \in [Sensors -> Data \cup {None}]
  BY OneWireAssumption DEF QInv, TypeOK, Busy
<1>2. Coming' <=> Coming
  BY Zenon DEF Coming, Selected
<1>3. InOrder'
  BY TakenInOrder, Zenon DEF QInv, InOrder
<1>4. Behind'
  <2>1. Full' = 0 /\ Busy' = Busy
    BY DEF Full, Busy
  <2>2. \A n \in Nat, b \in {0, 1} : n + b <= MaxLate => n + 0 + b <= MaxLate + 0
    BY <1>1
  <2>3. Len(late) + 0 + Busy <= MaxLate + 0
    BY <1>1, <2>2, Zenon
  <2>4. waiting' = FALSE
    OBVIOUS
  <2>5. Len(late) + Full' + Busy' <= MaxLate + IF waiting' THEN 1 ELSE 0
    BY <2>1, <2>3, <2>4
  <2> QED BY <2>5, Zenon DEF Behind
<1>5. ASSUME NEW d, Finish(d), d # None => txn # 0 /\ d.sensor = txn PROVE NotMixedUp' /\ step' = 1
  <2> QED BY <1>1, <1>5 DEF Finish, QInv, NotMixedUp, Txns, Sensors
<1>6. ASSUME Continue PROVE NotMixedUp' /\ txn' = txn /\ step' = step + 1
  BY <1>6, Zenon DEF Continue, QInv, NotMixedUp
<1>7. CASE step = 1
  <2>1. Command = "init"
    BY <1>1, <1>7, Scripts
  <2>2. CASE Present(code)
    <3>1. Continue
      BY <2>1, <2>2 DEF Handle
    <3>2. step' = 2
      BY <1>6, <1>7, <3>1
    <3>3. Says(box, late, 0, "PresenceOk") /\ 0 \in 0..Len(late)
      BY <1>1, <2>2
    <3>4. \A i \in 0..Len(late) : ~Carries(None, late, i)
      <4>1. \A i \in 0..Len(late) : i # 0 => 0 < i
        BY <1>1
      <4>2. \A i \in 0..Len(late) : Carries(box, late, i) => i = 0
        BY <1>7, <3>3, <4>1, Zenon DEF QInv, AtReset, NoReset
      <4> QED BY <4>2, TakenInOrder, Zenon
    <3>5. ~Coming
      <4>1. 0 < Len(late) + 1
        BY <1>1
      <4> QED BY <1>7, <3>3, <4>1, Zenon DEF QInv, AtReset, NoReset
    <3>6. InTransaction'
      BY <1>2, <3>4, <3>5, Zenon DEF InTransaction
    <3>7. AtReset'
      BY <3>2 DEF AtReset
    <3> QED BY <1>3, <1>4, <1>6, <3>1, <3>6, <3>7, Zenon DEF QInv
  <2>3. CASE ~Present(code)
    <3>1. Finish(None)
      BY <2>1, <2>3 DEF Handle
    <3>2. NotMixedUp' /\ step' = 1
      BY <1>5, <3>1
    <3>3. AtReset'
      BY <1>2, <1>7, TakenInOrder, Zenon DEF QInv, AtReset
    <3> QED BY <1>3, <1>4, <3>2, <3>3, Zenon DEF QInv, InTransaction
  <2> QED BY <2>2, <2>3
<1>8. CASE Command = "read"
  <2>1. txn # 0 /\ step = 5
    BY <1>1, <1>8, Scripts
  <2>2. Finish(IF code = "ReadBitsOk" THEN data ELSE None)
    BY <1>8 DEF Handle
  <2>3. data # None => data.sensor = txn
    <3>1. 0 \in 0..Len(late)
      BY <1>1
    <3> QED BY <2>1, <3>1 DEF QInv, InTransaction
  <2>4. NotMixedUp' /\ step' = 1
    BY <1>5, <2>1, <2>2, <2>3
  <2>5. AtReset'
    <3>1. ASSUME NEW i \in 0..Len(late), Carries(None, late, i) PROVE NoReset(None, late, i)
      <4>1. SUFFICES ASSUME NEW j \in 0..Len(late), j < i, Says(None, late, j, "PresenceOk") PROVE FALSE
        BY DEF NoReset
      <4>2. j # 0 /\ j + 4 <= i
        <5>1. Says(box, late, j, "PresenceOk") /\ Carries(box, late, i) /\ j # 0
          BY <3>1, <4>1, TakenInOrder, Zenon
        <5> QED BY <4>1, <5>1, Zenon DEF QInv, InOrder, ReadAfter
      <4> QED BY <1>1, <4>2
    <3>2. ASSUME Coming PROVE NoReset(None, late, Len(late) + 1)
      <4>1. SUFFICES ASSUME NEW j \in 0..Len(late), Says(None, late, j, "PresenceOk") PROVE FALSE
        BY DEF NoReset
      <4>2. Clear(heard) /\ Len(heard) = 3
        BY <3>2 DEF Coming, Selected, Clear
      <4>3. j # 0 /\ j + 3 <= Len(late)
        <5>1. Says(box, late, j, "PresenceOk") /\ j # 0
          BY <4>1, TakenInOrder, Zenon
        <5> QED BY <4>2, <5>1, Zenon DEF QInv, InOrder, HeardAfter
      <4>4. Busy = 1
        BY <3>2 DEF Coming, Busy
      <4> QED BY <1>1, <4>3, <4>4
    <3> QED BY <1>2, <3>1, <3>2, Zenon DEF AtReset
  <2> QED BY <1>3, <1>4, <2>4, <2>5, Zenon DEF QInv, InTransaction
<1>9. CASE step # 1 /\ Command # "read"
  <2>1. \A i \in 0..Len(late) : ~Carries(box, late, i)
    BY <1>1, <1>9, Scripts, Zenon DEF QInv, InTransaction, Reading
  <2>2. ~Coming
    BY <1>1, <1>9, Scripts, Zenon DEF QInv, InTransaction, Reading
  <2>3. AtReset' /\ InTransaction'
    BY <1>2, <2>1, <2>2, TakenInOrder, Zenon DEF AtReset, InTransaction
  <2>4. Finish(None) \/ Continue
    <3>1. Command # "init"
      BY <1>1, <1>9, Scripts
    <3> QED BY <1>9, <3>1 DEF Handle
  <2>5. NotMixedUp'
    BY <1>5, <1>6, <2>4
  <2> QED BY <1>3, <1>4, <2>3, <2>5, Zenon DEF QInv
<1> QED BY <1>7, <1>8, <1>9

(* An answer is taken from the mailbox.                                     *)
LEMMA OwReceiveKeeps ==
  ASSUME MaxLate <= 4, QInv, Receive
  PROVE  QInv'
<1>1. /\ waiting /\ box # None /\ box \in Answers /\ Handle(box.code, box.data) /\ waiting' = FALSE /\ box' = None
      /\ pru' = pru /\ late' = late /\ heard' = heard /\ fresh' = fresh /\ tardy' = tardy /\ TypeOK
  BY DEF Receive, QInv, TypeOK
<1>2. box.data \in Data \cup {None}
  BY <1>1 DEF Answers
<1>3. TypeOK'
  <2>1. /\ txn' \in Txns /\ step' \in 1..Len(Script(txn')) /\ result' \in [Sensors -> Data \cup {None}] /\ convertLogged' \in BOOLEAN
    BY <1>1, <1>2, OwHandledTypes
  <2>2. waiting' \in BOOLEAN /\ box' \in Answers \cup {None}
    BY <1>1
  <2> QED BY <1>1, <2>1, <2>2, Zenon DEF TypeOK
<1>4. Len(late) + Busy <= MaxLate
  <2>1. Len(late) \in Nat /\ Busy \in {0, 1} /\ Full = 1 /\ MaxLate \in Nat
    BY <1>1, OneWireAssumption DEF TypeOK, Busy, Full
  <2> QED BY <1>1, <2>1 DEF QInv, Behind
<1>5. /\ Present(box.code) => Says(box, late, 0, "PresenceOk")
      /\ box.data # None => Carries(box, late, 0) /\ box.data.sensor = Of(box, late, 0)
  BY <1>1 DEF Present, Says, Carries, Of, Item
<1> QED BY <1>1, <1>3, <1>4, <1>5, OwHandled

(* The client gives up waiting.                                             *)
LEMMA OwTimeoutKeeps ==
  ASSUME MaxLate <= 4, QInv, Timeout
  PROVE  QInv'
<1>1. /\ waiting /\ box = None /\ Handle(None, None) /\ waiting' = FALSE /\ box' = None /\ pru = None
      /\ pru' = pru /\ late' = late /\ heard' = heard /\ fresh' = fresh /\ TypeOK /\ Len(late) <= MaxLate
  BY DEF Timeout, QInv, TypeOK
<1>2. TypeOK'
  <2>1. /\ txn' \in Txns /\ step' \in 1..Len(Script(txn')) /\ result' \in [Sensors -> Data \cup {None}] /\ convertLogged' \in BOOLEAN
    BY <1>1, OwHandledTypes
  <2>2. waiting' \in BOOLEAN /\ box' \in Answers \cup {None} /\ tardy' \in BOOLEAN
    BY <1>1 DEF Timeout, TypeOK
  <2> QED BY <1>1, <2>1, <2>2, Zenon DEF TypeOK
<1>3. Len(late) + Busy <= MaxLate
  <2>1. Len(late) \in Nat /\ Busy = 0 /\ MaxLate \in Nat
    BY <1>1, OneWireAssumption DEF TypeOK, Busy
  <2> QED BY <1>1, <2>1
<1>4. ~Present(None)
  BY NoneAssumption DEF Present, Codes
<1> QED BY <1>1, <1>2, <1>3, <1>4, OwHandled

(* The reader puts an answer into the mailbox.                              *)
LEMMA OwDeliverKeeps ==
  ASSUME QInv, Deliver
  PROVE  QInv'
<1>1. /\ late # <<>> /\ late \in Seq(Answers) /\ box' = Head(late) /\ late' = Tail(late) /\ TypeOK
      /\ txn' = txn /\ step' = step /\ waiting' = waiting /\ result' = result /\ convertLogged' = convertLogged
      /\ pru' = pru /\ heard' = heard /\ fresh' = fresh /\ tardy' = tardy
  BY DEF Deliver, client, QInv, TypeOK
<1>2. /\ late' \in Seq(Answers) /\ box' \in Answers /\ Len(late) \in Nat \ {0} /\ Len(late') = Len(late) - 1
      /\ \A i \in 0..(Len(late) - 1) : Item(box', late', i) = Item(box, late, i + 1)
  BY <1>1, ItemDelivered
<1>3. TypeOK'
  <2>1. box' \in Answers \cup {None}
    BY <1>2
  <2> QED BY <1>1, <1>2, <2>1, Zenon DEF TypeOK
<1>4. \A i \in 0..Len(late') : /\ i + 1 \in 0..Len(late)
                               /\ Carries(box', late', i) => Carries(box, late, i + 1)
                               /\ Of(box', late', i) = Of(box, late, i + 1)
                               /\ \A c : Says(box', late', i, c) => Says(box, late, i + 1, c)
  <2>1. \A i \in 0..Len(late') : i + 1 \in 0..Len(late) /\ i \in 0..(Len(late) - 1)
    BY <1>2
  <2> QED BY <1>2, <2>1, Zenon DEF Carries, Of, Says
<1>5. InOrder'
  <2>1. ReadsCarry(box', late')
    BY <1>4, Zenon DEF QInv, InOrder, ReadsCarry
  <2>2. HeardAfter(box', late', heard')
    <3>1. SUFFICES ASSUME Clear(heard), NEW j \in 0..Len(late'), Says(box', late', j, "PresenceOk")
                   PROVE  j + Len(heard) <= Len(late')
      BY <1>1, Zenon DEF HeardAfter
    <3>2. j + 1 \in 0..Len(late) /\ j + 1 + Len(heard) <= Len(late) /\ Len(heard) \in Nat
      BY <1>1, <1>4, <3>1 DEF QInv, InOrder, HeardAfter, TypeOK
    <3> QED BY <1>2, <3>2
  <2>3. ReadAfter(box', late')
    <3>1. SUFFICES ASSUME NEW i \in 0..Len(late'), NEW j \in 0..Len(late'), j < i, Says(box', late', j, "PresenceOk"), Carries(box', late', i)
                   PROVE  j + 4 <= i
      BY Zenon DEF ReadAfter
    <3>2. i \in Nat /\ j \in Nat /\ j + 1 < i + 1
      BY <1>2, <3>1
    <3>3. j + 1 + 4 <= i + 1
      BY <1>4, <3>1, <3>2, Zenon DEF QInv, InOrder, ReadAfter
    <3> QED BY <3>2, <3>3
  <2> QED BY <2>1, <2>2, <2>3, Zenon DEF InOrder
<1>6. Behind'
  <2>1. MaxLate \in Nat /\ Full \in {0, 1} /\ Full' \in {0, 1} /\ Busy \in {0, 1} /\ Busy' = Busy
    BY <1>1, OneWireAssumption DEF Full, Busy
  <2>2. \A n \in Nat \ {0}, f, g, b \in {0, 1}, m \in Nat : n + f + b <= m => (n - 1) + g + b <= m
    OBVIOUS
  <2>3. MaxLate + (IF waiting THEN 1 ELSE 0) \in Nat /\ Len(late) + Full + Busy <= MaxLate + (IF waiting THEN 1 ELSE 0)
    BY <2>1 DEF QInv, Behind
  <2>4. (Len(late) - 1) + Full' + Busy <= MaxLate + (IF waiting THEN 1 ELSE 0)
    BY <1>2, <2>1, <2>2, <2>3, Zenon
  <2> QED BY <1>1, <1>2, <2>1, <2>4, Zenon DEF Behind
<1>7. Coming' <=> Coming
  BY <1>1, Zenon DEF Coming, Selected
<1>8. ASSUME NEW n \in 0..(Len(late) + 1), NoReset(box, late, n) PROVE NoReset(box', late', n - 1)
  <2>1. SUFFICES ASSUME NEW j \in 0..Len(late'), j < n - 1, Says(box', late', j, "PresenceOk") PROVE FALSE
    BY Zenon DEF NoReset
  <2>2. j + 1 < n
    BY <1>2, <2>1
  <2> QED BY <1>4, <1>8, <2>1, <2>2, Zenon DEF NoReset
<1>9. AtReset'
  <2>1. SUFFICES ASSUME step = 1
                 PROVE  /\ \A i \in 0..Len(late') : Carries(box', late', i) => NoReset(box', late', i)
                        /\ Coming => NoReset(box', late', Len(late') + 1)
    BY <1>1, <1>7, Zenon DEF AtReset
  <2>2. ASSUME NEW i \in 0..Len(late'), Carries(box', late', i) PROVE NoReset(box', late', i)
    <3>1. i + 1 \in 0..(Len(late) + 1) /\ (i + 1) - 1 = i
      BY <1>2
    <3>2. NoReset(box, late, i + 1)
      BY <1>4, <2>1, <2>2, Zenon DEF QInv, AtReset
    <3>3. NoReset(box', late', (i + 1) - 1)
      BY <1>8, <3>1, <3>2
    <3> QED BY <3>1, <3>3
  <2>3. ASSUME Coming PROVE NoReset(box', late', Len(late') + 1)
    <3>1. Len(late) + 1 \in 0..(Len(late) + 1) /\ (Len(late) + 1) - 1 = Len(late') + 1
      BY <1>2
    <3>2. NoReset(box, late, Len(late) + 1)
      BY <2>1, <2>3, Zenon DEF QInv, AtReset
    <3>3. NoReset(box', late', (Len(late) + 1) - 1)
      BY <1>8, <3>1, <3>2
    <3> QED BY <3>1, <3>3
  <2> QED BY <2>2, <2>3
<1>10. InTransaction'
  <2>1. Reading' <=> Reading
    BY <1>1, Zenon DEF Reading
  <2> QED BY <1>1, <1>4, <1>7, <2>1, Zenon DEF QInv, InTransaction
<1>11. NotMixedUp'
  BY <1>1, Zenon DEF QInv, NotMixedUp
<1> QED BY <1>3, <1>5, <1>6, <1>9, <1>10, <1>11, Zenon DEF QInv

(* An answer that carries no temperature and is no reset, or none at all,   *)
(* after which the sensors have heard one thing more.                       *)
LEMMA OwAnswerCounts ==
  ASSUME QInv, pru # None, NEW a \in Answers, pru' = None, late' = Append(late, a), box' = box, waiting' = waiting
  PROVE  Behind' /\ late' \in Seq(Answers) /\ Len(late') = Len(late) + 1 /\ ~Coming'
<1>1. late' \in Seq(Answers) /\ Len(late) \in Nat /\ Len(late') = Len(late) + 1
  BY ItemAdded DEF QInv, TypeOK
<1>2. Busy = 1 /\ Busy' = 0 /\ Full' = Full /\ Full \in {0, 1}
  BY DEF Busy, Full
<1>3. \A n \in Nat, f \in {0, 1} : (n + 1) + f + 0 = n + f + 1
  OBVIOUS
<1>4. Len(late') + Full' + Busy' = Len(late) + Full + Busy
  BY <1>1, <1>2, <1>3, Zenon
<1>5. Behind'
  BY <1>4, Zenon DEF QInv, Behind
<1> QED BY <1>1, <1>5 DEF Coming

(* The PRU answers a reset.                                                 *)
LEMMA OwResetKeeps ==
  ASSUME QInv, NEW ok \in BOOLEAN, Reset(ok)
  PROVE  QInv'
<1> DEFINE a == Say(IF ok THEN "PresenceOk" ELSE "NoPresence")
<1>1. /\ pru # None /\ pru.op = "init" /\ pru' = None /\ late' = Append(late, a) /\ heard' = (IF ok THEN <<>> ELSE <<"noise">>)
      /\ txn' = txn /\ step' = step /\ waiting' = waiting /\ result' = result /\ convertLogged' = convertLogged
      /\ box' = box /\ fresh' = fresh /\ tardy' = tardy /\ late \in Seq(Answers) /\ a \in Answers /\ TypeOK
  BY DEF Reset, Answer, client, QInv, TypeOK, Say, Answers, Codes
<1>2. a.data = None /\ (a.code = "PresenceOk" => ok)
  BY DEF Say
<1> HIDE DEF a
<1>3. Behind' /\ late' \in Seq(Answers) /\ Len(late') = Len(late) + 1 /\ ~Coming'
  BY <1>1, OwAnswerCounts
<1>4. /\ Len(late) \in Nat /\ \A i \in 0..Len(late) : Item(box, late', i) = Item(box, late, i)
      /\ Item(box, late', Len(late) + 1) = a
  BY <1>1, ItemAdded
<1>5. TypeOK'
  <2>1. heard' \in Seq(Commands \cup {"noise"})
    <3>1. <<>> \in Seq(Commands \cup {"noise"}) /\ <<"noise">> \in Seq(Commands \cup {"noise"})
      OBVIOUS
    <3> QED BY <1>1, <3>1, Zenon
  <2> QED BY <1>1, <1>3, <2>1, Zenon DEF TypeOK
<1>6. \A i \in 0..Len(late') : i \in 0..Len(late) \/ i = Len(late) + 1
  BY <1>3, <1>4
<1>7. /\ \A i \in 0..Len(late') : Carries(box, late', i) => i \in 0..Len(late) /\ Carries(box, late, i) /\ Of(box, late', i) = Of(box, late, i)
      /\ \A i \in 0..Len(late) : \A c : Says(box, late', i, c) => Says(box, late, i, c)
  BY <1>2, <1>4, <1>6, Zenon DEF Carries, Of, Says
<1>8. \A i \in 0..Len(late), j \in 0..Len(late') : j < i => j \in 0..Len(late)
  BY <1>4, <1>3
<1>9. \A i \in 0..Len(late) : NoReset(box, late, i) => NoReset(box, late', i)
  BY <1>7, <1>8, Zenon DEF NoReset
<1>10. InOrder'
  <2>1. ReadsCarry(box, late')
    BY <1>7, Zenon DEF QInv, InOrder, ReadsCarry
  <2>2. ReadAfter(box, late')
    BY <1>7, <1>8, Zenon DEF QInv, InOrder, ReadAfter
  <2>3. HeardAfter(box, late', heard')
    <3>1. CASE ok
      <4>1. heard' = <<>> /\ Len(heard') = 0
        BY <1>1, <3>1
      <4>2. \A j \in 0..Len(late') : j + 0 <= Len(late')
        BY <1>3, <1>4
      <4> QED BY <4>1, <4>2, Zenon DEF HeardAfter
    <3>2. CASE ~ok
      <4>1. ~Clear(heard')
        BY <1>1, <3>2 DEF Clear
      <4> QED BY <4>1, Zenon DEF HeardAfter
    <3> QED BY <3>1, <3>2
  <2> QED BY <1>1, <2>1, <2>2, <2>3, Zenon DEF InOrder
<1>11. AtReset'
  BY <1>1, <1>3, <1>7, <1>9, Zenon DEF QInv, AtReset
<1>12. InTransaction'
  BY <1>1, <1>3, <1>7, Zenon DEF QInv, InTransaction, Reading
<1>13. NotMixedUp'
  BY <1>1, Zenon DEF QInv, NotMixedUp
<1> QED BY <1>3, <1>5, <1>10, <1>11, <1>12, <1>13, Zenon DEF QInv

(* What the sensors heard with one thing more: if all of it is clear, all   *)
(* of it was, and the new thing is.                                         *)
LEMMA HeardMore ==
  ASSUME TypeOK, NEW x \in Commands \cup {"noise"}, heard' = Append(heard, x)
  PROVE  /\ heard' \in Seq(Commands \cup {"noise"}) /\ Len(heard) \in Nat /\ Len(heard') = Len(heard) + 1
         /\ Clear(heard') => Clear(heard) /\ x # "noise"
<1>1. /\ heard' \in Seq(Commands \cup {"noise"}) /\ Len(heard) \in Nat /\ Len(heard') = Len(heard) + 1
      /\ \A k \in 1..Len(heard) : heard'[k] = heard[k]
      /\ heard'[Len(heard) + 1] = x
  BY Appended DEF TypeOK
<1>2. Len(heard) + 1 \in 1..Len(heard') /\ \A k \in 1..Len(heard) : k \in 1..Len(heard')
  BY <1>1
<1>3. Clear(heard') => Clear(heard) /\ x # "noise"
  BY <1>1, <1>2, Zenon DEF Clear
<1> QED BY <1>1, <1>3

(* The types of a step.                                                     *)
LEMMA OwNextTypes ==
  ASSUME TypeOK, [Next]_vars
  PROVE  TypeOK'
<1>1. CASE Send
  BY <1>1, OwSendTypes
<1>2. CASE Receive
  <2>1. /\ box \in Answers /\ Handle(box.code, box.data) /\ waiting' = FALSE /\ box' = None
        /\ pru' = pru /\ late' = late /\ heard' = heard /\ fresh' = fresh /\ tardy' = tardy
    BY <1>2 DEF Receive, TypeOK
  <2>2. box.data \in Data \cup {None}
    BY <2>1 DEF Answers
  <2>3. /\ txn' \in Txns /\ step' \in 1..Len(Script(txn'))
        /\ result' \in [Sensors -> Data \cup {None}] /\ convertLogged' \in BOOLEAN
    BY <2>1, <2>2, OwHandledTypes
  <2>4. waiting' \in BOOLEAN /\ box' \in Answers \cup {None}
    BY <2>1
  <2> QED BY <2>1, <2>3, <2>4, Zenon DEF TypeOK
<1>3. CASE Timeout
  <2>1. /\ Handle(None, None) /\ waiting' = FALSE
        /\ box' = box /\ pru' = pru /\ late' = late /\ heard' = heard /\ fresh' = fresh
    BY <1>3 DEF Timeout
  <2>2. /\ txn' \in Txns /\ step' \in 1..Len(Script(txn'))
        /\ result' \in [Sensors -> Data \cup {None}] /\ convertLogged' \in BOOLEAN
    BY <2>1, OwHandledTypes
  <2>3. waiting' \in BOOLEAN /\ tardy' \in BOOLEAN
    BY <1>3 DEF Timeout, TypeOK
  <2> QED BY <2>1, <2>2, <2>3, Zenon DEF TypeOK
<1>4. CASE Deliver
  <2>1. /\ late # <<>> /\ late \in Seq(Answers) /\ box' = Head(late) /\ late' = Tail(late)
        /\ txn' = txn /\ step' = step /\ waiting' = waiting /\ result' = result
        /\ convertLogged' = convertLogged /\ pru' = pru /\ heard' = heard /\ fresh' = fresh /\ tardy' = tardy
    BY <1>4 DEF Deliver, client, TypeOK
  <2>2. late' \in Seq(Answers) /\ box' \in Answers \cup {None}
    BY <2>1, ItemDelivered
  <2> QED BY <2>1, <2>2, Zenon DEF TypeOK
<1>5. ASSUME NEW ok \in BOOLEAN, Reset(ok) PROVE TypeOK'
  <2> DEFINE a == Say(IF ok THEN "PresenceOk" ELSE "NoPresence")
  <2>1. /\ pru' = None /\ late' = Append(late, a) /\ heard' = (IF ok THEN <<>> ELSE <<"noise">>)
        /\ txn' = txn /\ step' = step /\ waiting' = waiting /\ result' = result
        /\ convertLogged' = convertLogged /\ box' = box /\ fresh' = fresh /\ tardy' = tardy
        /\ late \in Seq(Answers) /\ a \in Answers
    BY <1>5 DEF Reset, Answer, client, TypeOK, Say, Answers, Codes
  <2> HIDE DEF a
  <2>2. late' \in Seq(Answers)
    BY <2>1, ItemAdded
  <2>3. heard' \in Seq(Commands \cup {"noise"})
    <3>1. <<>> \in Seq(Commands \cup {"noise"}) /\ <<"noise">> \in Seq(Commands \cup {"noise"})
      OBVIOUS
    <3> QED BY <2>1, <3>1, Zenon
  <2> QED BY <2>1, <2>2, <2>3, Zenon DEF TypeOK
<1>6. ASSUME NEW ok \in BOOLEAN, Write(ok) PROVE TypeOK'
  <2> DEFINE x == IF ok /\ ~pru.garbled THEN pru.op ELSE "noise"
             a == Say("WriteBitsOk")
  <2>1. /\ pru' = None /\ heard' = Append(heard, x) /\ x \in Commands \cup {"noise"}
        /\ txn' = txn /\ step' = step /\ waiting' = waiting /\ result' = result
        /\ convertLogged' = convertLogged /\ box' = box /\ tardy' = tardy
        /\ late \in Seq(Answers) /\ a \in Answers /\ late' = IF ok THEN Append(late, a) ELSE late
    BY <1>6 DEF Write, Answer, client, TypeOK, Say, Answers, Codes, Commands
  <2>2. fresh' \in BOOLEAN
    <3>1. fresh \in BOOLEAN /\ fresh' = (fresh \/ heard' = <<"skip", "convert">>)
      BY <1>6 DEF Write, TypeOK
    <3> QED BY <3>1
  <2> HIDE DEF a, x
  <2>3. late' \in Seq(Answers) /\ heard' \in Seq(Commands \cup {"noise"})
    BY <2>1, ItemAdded, HeardMore
  <2> QED BY <2>1, <2>2, <2>3, Zenon DEF TypeOK
<1>7. ASSUME NEW ok \in BOOLEAN, Read(ok) PROVE TypeOK'
  <2> DEFINE d == IF ok /\ Selected THEN [sensor |-> pru.txn, fresh |-> fresh] ELSE None
             a == [code |-> IF ok THEN "ReadBitsOk" ELSE "ReadBitsFailure", data |-> d]
  <2>1. /\ pru # None /\ pru.op = "read" /\ pru' = None /\ late' = Append(late, a) /\ heard' = heard
        /\ txn' = txn /\ step' = step /\ waiting' = waiting /\ result' = result
        /\ convertLogged' = convertLogged /\ box' = box /\ tardy' = tardy /\ fresh' = fresh
        /\ late \in Seq(Answers)
    BY <1>7 DEF Read, Answer, client, TypeOK
  <2>2. a \in Answers
    <3>1. d # None => d \in Data
      <4>1. pru.txn \in Sensors /\ fresh \in BOOLEAN
        BY <2>1 DEF TypeOK
      <4> QED BY <4>1 DEF Data
    <3> QED BY <3>1 DEF Answers, Codes
  <2> HIDE DEF a, d
  <2>3. late' \in Seq(Answers)
    BY <2>1, <2>2, ItemAdded
  <2> QED BY <2>1, <2>3, Zenon DEF TypeOK
<1>8. CASE UNCHANGED vars
  BY <1>8 DEF vars, client, TypeOK
<1> QED
  BY <1>1, <1>2, <1>3, <1>4, <1>5, <1>6, <1>7, <1>8, Zenon DEF Next, Shorted, Operate

(* The PRU answers a write, or says nothing.                                *)
LEMMA OwWriteKeeps ==
  ASSUME QInv, NEW ok \in BOOLEAN, Write(ok)
  PROVE  QInv'
<1> DEFINE x == IF ok /\ ~pru.garbled THEN pru.op ELSE "noise"
           a == Say("WriteBitsOk")
<1>1. /\ pru # None /\ pru.op \in Writes /\ pru' = None /\ heard' = Append(heard, x) /\ x \in Commands \cup {"noise"}
      /\ txn' = txn /\ step' = step /\ waiting' = waiting /\ result' = result /\ convertLogged' = convertLogged
      /\ box' = box /\ tardy' = tardy /\ late \in Seq(Answers) /\ a \in Answers /\ TypeOK
      /\ late' = IF ok THEN Append(late, a) ELSE late
  BY DEF Write, Answer, client, QInv, TypeOK, Say, Answers, Codes, Commands
<1>2. a.data = None /\ a.code # "PresenceOk" /\ (x # "noise" => ok)
  BY DEF Say
<1>3. fresh' \in BOOLEAN
  <2>1. fresh \in BOOLEAN /\ fresh' = (fresh \/ heard' = <<"skip", "convert">>)
    BY <1>1 DEF Write, TypeOK
  <2> QED BY <2>1
<1>4. ~Coming'
  BY <1>1 DEF Coming
<1>5. /\ heard' \in Seq(Commands \cup {"noise"}) /\ Len(heard) \in Nat /\ Len(heard') = Len(heard) + 1
      /\ Clear(heard') => Clear(heard) /\ x # "noise"
  <2> HIDE DEF x
  <2> QED BY <1>1, HeardMore
<1> HIDE DEF a, x
<1>6. NotMixedUp'
  BY <1>1, Zenon DEF QInv, NotMixedUp
<1>7. CASE ~ok
  <2>1. late' = late
    BY <1>1, <1>7
  <2>2. TypeOK'
    <3>1. late' \in Seq(Answers)
      BY <1>1, <2>1
    <3> QED BY <1>1, <1>3, <1>5, <3>1, Zenon DEF TypeOK
  <2>3. ~Clear(heard')
    BY <1>2, <1>5, <1>7
  <2>4. InOrder'
    BY <1>1, <2>1, <2>3, Zenon DEF QInv, InOrder, HeardAfter
  <2>5. Behind'
    <3>1. Busy = 1 /\ Busy' = 0 /\ Full' = Full /\ Full \in {0, 1} /\ MaxLate \in Nat /\ Len(late) \in Nat
      BY <1>1, OneWireAssumption DEF Busy, Full
    <3>2. \A n, m \in Nat, f \in {0, 1} : n + f + 1 <= m => n + f + 0 <= m
      OBVIOUS
    <3>3. MaxLate + (IF waiting THEN 1 ELSE 0) \in Nat /\ Len(late) + Full + 1 <= MaxLate + (IF waiting THEN 1 ELSE 0)
      BY <3>1 DEF QInv, Behind
    <3>4. Len(late) + Full + 0 <= MaxLate + (IF waiting THEN 1 ELSE 0)
      BY <3>1, <3>2, <3>3, Zenon
    <3> QED BY <1>1, <2>1, <3>1, <3>4, Zenon DEF Behind
  <2>6. AtReset' /\ InTransaction'
    BY <1>1, <1>4, <2>1, Zenon DEF QInv, AtReset, InTransaction, Reading
  <2> QED BY <1>6, <2>2, <2>4, <2>5, <2>6, Zenon DEF QInv
<1>8. CASE ok
  <2>0. late' = Append(late, a)
    BY <1>1, <1>8
  <2>1. Behind' /\ late' \in Seq(Answers) /\ Len(late') = Len(late) + 1
    BY <1>1, <2>0, OwAnswerCounts
  <2>2. TypeOK'
    BY <1>1, <1>3, <1>5, <2>1, Zenon DEF TypeOK
  <2>3. /\ Len(late) \in Nat
        /\ \A i \in 0..Len(late) : Item(box, late', i) = Item(box, late, i)
        /\ Item(box, late', Len(late) + 1) = a
    BY <1>1, <2>0, ItemAdded
  <2>4. \A i \in 0..Len(late') : i \in 0..Len(late) \/ i = Len(late) + 1
    BY <2>1, <2>3
  <2>5. /\ \A i \in 0..Len(late') : Carries(box, late', i) => i \in 0..Len(late) /\ Carries(box, late, i) /\ Of(box, late', i) = Of(box, late, i)
        /\ \A i \in 0..Len(late') : Says(box, late', i, "PresenceOk") => i \in 0..Len(late) /\ Says(box, late, i, "PresenceOk")
    BY <1>2, <2>3, <2>4, Zenon DEF Carries, Of, Says
  <2>6. \A i \in 0..Len(late) : i \in 0..Len(late')
    BY <2>1, <2>3
  <2>7. \A i \in 0..Len(late) : NoReset(box, late, i) => NoReset(box, late', i)
    BY <2>5, Zenon DEF NoReset
  <2>8. InOrder'
    <3>1. ReadsCarry(box, late') /\ ReadAfter(box, late')
      BY <2>5, Zenon DEF QInv, InOrder, ReadsCarry, ReadAfter
    <3>2. HeardAfter(box, late', heard')
      <4>1. SUFFICES ASSUME Clear(heard'), NEW j \in 0..Len(late'), Says(box, late', j, "PresenceOk")
                     PROVE  j + Len(heard') <= Len(late')
        BY Zenon DEF HeardAfter
      <4>2. j \in 0..Len(late) /\ j + Len(heard) <= Len(late)
        BY <1>5, <2>5, <4>1, Zenon DEF QInv, InOrder, HeardAfter
      <4>3. j \in Nat /\ \A n, m, k \in Nat : k + m <= n => k + (m + 1) <= n + 1
        BY <2>3, <4>2
      <4> QED BY <1>5, <2>1, <2>3, <4>2, <4>3, Zenon
    <3> QED BY <1>1, <3>1, <3>2, Zenon DEF InOrder
  <2>9. AtReset' /\ InTransaction'
    BY <1>1, <1>4, <2>5, <2>7, Zenon DEF QInv, AtReset, InTransaction, Reading
  <2> QED BY <1>6, <2>1, <2>2, <2>8, <2>9, Zenon DEF QInv
<1> QED BY <1>7, <1>8

(* The PRU answers a read: a temperature only after the three writes that   *)
(* select its sensor.                                                       *)
LEMMA OwReadKeeps ==
  ASSUME QInv, NEW ok \in BOOLEAN, Read(ok)
  PROVE  QInv'
<1> DEFINE d == IF ok /\ Selected THEN [sensor |-> pru.txn, fresh |-> fresh] ELSE None
           a == [code |-> IF ok THEN "ReadBitsOk" ELSE "ReadBitsFailure", data |-> d]
<1>1. /\ pru # None /\ pru.op = "read" /\ pru' = None /\ late' = Append(late, a) /\ heard' = heard
      /\ txn' = txn /\ step' = step /\ waiting' = waiting /\ result' = result /\ convertLogged' = convertLogged
      /\ box' = box /\ tardy' = tardy /\ fresh' = fresh /\ late \in Seq(Answers) /\ TypeOK
  BY DEF Read, Answer, client, QInv, TypeOK
<1>2. /\ a.code # "PresenceOk" /\ a.data = d
      /\ d # None => Coming /\ d.sensor = pru.txn
  BY <1>1 DEF Coming
<1>3. a \in Answers
  <2>1. d # None => d \in Data
    <3>1. pru.txn \in Sensors /\ fresh \in BOOLEAN
      BY <1>1 DEF TypeOK
    <3> QED BY <3>1 DEF Data
  <2> QED BY <2>1 DEF Answers, Codes
<1> HIDE DEF a, d
<1>4. Behind' /\ late' \in Seq(Answers) /\ Len(late') = Len(late) + 1 /\ ~Coming'
  BY <1>1, <1>3, OwAnswerCounts
<1>5. /\ Len(late) \in Nat
      /\ \A i \in 0..Len(late) : Item(box, late', i) = Item(box, late, i)
      /\ Item(box, late', Len(late) + 1) = a
  BY <1>1, <1>3, ItemAdded
<1>6. /\ \A i \in 0..Len(late') : i \in 0..Len(late) \/ i = Len(late) + 1
      /\ \A i \in 0..Len(late) : i \in 0..Len(late') /\ Len(late) + 1 \notin 0..i
      /\ \A i \in 0..Len(late) : ~(Len(late) + 1 < i)
      /\ ~(Len(late) + 1 < Len(late) + 1)
  BY <1>4, <1>5
<1>7. TypeOK'
  BY <1>1, <1>4, Zenon DEF TypeOK
<1>8. /\ \A i \in 0..Len(late') : Says(box, late', i, "PresenceOk") => i \in 0..Len(late) /\ Says(box, late, i, "PresenceOk")
      /\ \A i \in 0..Len(late) : Carries(box, late', i) => Carries(box, late, i) /\ Of(box, late', i) = Of(box, late, i)
      /\ Carries(box, late', Len(late) + 1) => Coming /\ Of(box, late', Len(late) + 1) = pru.txn
      /\ ~Says(box, late', Len(late) + 1, "PresenceOk")
  BY <1>2, <1>5, <1>6, Zenon DEF Carries, Of, Says
<1>9. ASSUME NEW i, NoReset(box, late, i) PROVE NoReset(box, late', i)
  BY <1>8, <1>9, Zenon DEF NoReset
<1>10. InOrder'
  <2>1. ReadsCarry(box, late')
    BY <1>6, <1>8, Zenon DEF QInv, InOrder, ReadsCarry
  <2>2. ReadAfter(box, late')
    <3>1. SUFFICES ASSUME NEW i \in 0..Len(late'), NEW j \in 0..Len(late), j < i, Says(box, late, j, "PresenceOk"), Carries(box, late', i)
                   PROVE  j + 4 <= i
      BY <1>8, Zenon DEF ReadAfter
    <3>2. CASE i \in 0..Len(late)
      BY <1>8, <3>1, <3>2, Zenon DEF QInv, InOrder, ReadAfter
    <3>3. CASE i = Len(late) + 1
      <4>1. Coming
        BY <1>8, <3>1, <3>3, Zenon
      <4>2. Clear(heard) /\ Len(heard) = 3
        BY <4>1 DEF Coming, Selected, Clear
      <4>3. j + 3 <= Len(late)
        BY <3>1, <4>2, Zenon DEF QInv, InOrder, HeardAfter
      <4> QED BY <1>5, <3>1, <3>3, <4>3
    <3> QED BY <1>6, <3>2, <3>3
  <2>3. HeardAfter(box, late', heard)
    <3>1. SUFFICES ASSUME Clear(heard), NEW j \in 0..Len(late'), Says(box, late', j, "PresenceOk")
                   PROVE  j + Len(heard) <= Len(late')
      BY Zenon DEF HeardAfter
    <3>2. j \in 0..Len(late) /\ j + Len(heard) <= Len(late)
      BY <1>8, <3>1, Zenon DEF QInv, InOrder, HeardAfter
    <3>3. Len(heard) \in Nat
      BY <1>1 DEF TypeOK
    <3> QED BY <1>4, <1>5, <3>2, <3>3
  <2> QED BY <1>1, <2>1, <2>2, <2>3, Zenon DEF InOrder
<1>11. AtReset'
  BY <1>1, <1>4, <1>6, <1>8, <1>9, Zenon DEF QInv, AtReset
<1>12. InTransaction'
  BY <1>1, <1>4, <1>6, <1>8, Zenon DEF QInv, InTransaction, Reading
<1>13. NotMixedUp'
  BY <1>1, Zenon DEF QInv, NotMixedUp
<1> QED BY <1>4, <1>7, <1>10, <1>11, <1>12, <1>13, Zenon DEF QInv

(* Every step keeps the answers in order.                                   *)
LEMMA OwNextQInv ==
  ASSUME MaxLate <= 4, QInv, [Next]_vars
  PROVE  QInv'
<1>1. CASE Send
  BY <1>1, OwSendKeeps
<1>2. CASE Receive
  BY <1>2, OwReceiveKeeps
<1>3. CASE Timeout
  BY <1>3, OwTimeoutKeeps
<1>4. CASE Deliver
  BY <1>4, OwDeliverKeeps
<1>5. ASSUME NEW ok \in BOOLEAN, Operate(ok) PROVE QInv'
  BY <1>5, OwResetKeeps, OwWriteKeeps, OwReadKeeps DEF Operate
<1>6. CASE UNCHANGED vars
  <2>1. /\ txn' = txn /\ step' = step /\ waiting' = waiting /\ result' = result /\ convertLogged' = convertLogged
        /\ box' = box /\ pru' = pru /\ late' = late /\ heard' = heard /\ fresh' = fresh /\ tardy' = tardy
    BY <1>6 DEF vars, client
  <2> QED BY <2>1, Zenon DEF QInv, TypeOK, Behind, Full, Busy, InOrder, AtReset, InTransaction, Coming, Selected, Reading, NotMixedUp
<1> QED BY <1>1, <1>2, <1>3, <1>4, <1>5, <1>6, Zenon DEF Next, Shorted

(* Nothing else is between the PRU and the client when the PRU works on a   *)
(* command the conversion waits for, or an answer to it is in the mailbox.  *)
LEMMA OwAlone ==
  ASSUME TypeOK, Len(late) + Full + Busy <= IF waiting THEN 1 ELSE 0
  PROVE  /\ Len(late) \in Nat
         /\ pru # None => waiting /\ box = None /\ Len(late) = 0
         /\ box # None => waiting /\ pru = None /\ Len(late) = 0
         /\ Len(late) # 0 => waiting /\ pru = None /\ box = None
         /\ ~waiting => pru = None /\ box = None /\ Len(late) = 0
         /\ Len(late) <= 1
<1>1. Len(late) \in Nat
  BY DEF TypeOK
<1>2. /\ Full \in {0, 1} /\ Busy \in {0, 1}
      /\ box # None <=> Full = 1
      /\ pru # None <=> Busy = 1
  BY DEF Full, Busy
<1>3. \A n \in Nat, f, b \in {0, 1} :
        /\ n + f + b <= 1 => n <= 1 /\ (b = 1 => f # 1 /\ n = 0) /\ (f = 1 => b # 1 /\ n = 0) /\ (n # 0 => f # 1 /\ b # 1)
        /\ n + f + b <= 0 => n = 0 /\ f # 1 /\ b # 1 /\ n <= 1
  OBVIOUS
<1>4. CASE waiting
  <2>1. Len(late) + Full + Busy <= 1
    BY <1>4
  <2> QED BY <1>1, <1>2, <1>3, <1>4, <2>1, Zenon
<1>5. CASE ~waiting
  <2>1. Len(late) + Full + Busy <= 0
    BY <1>5
  <2> QED BY <1>1, <1>2, <1>3, <1>5, <2>1, Zenon
<1> QED BY <1>4, <1>5

(* An empty mailbox and no answer on its way answer nothing.                *)
LEMMA NothingAnswered ==
  ASSUME NEW l \in Seq(Answers), Len(l) = 0
  PROVE  \A c : ~IsAnswered(None, l, c)
<1>1. \A i \in 0..Len(l) : i = 0
  OBVIOUS
<1> QED BY <1>1, ItemTaken, Zenon DEF IsAnswered

(* A command is sent: what the round knows of the conversion is not         *)
(* touched.                                                                 *)
LEMMA OwSendFresh ==
  ASSUME RInv, Send
  PROVE  AskedToConvert' /\ Converted' /\ PassedOn'
<1>1. /\ ~waiting /\ waiting' = TRUE /\ txn' = txn /\ step' = step /\ late' = late /\ heard' = heard
      /\ pru' = Taken(Command) /\ box' = (IF Command = "init" THEN None ELSE box)
      /\ TypeOK /\ late \in Seq(Answers) /\ Len(late) \in Nat
  BY DEF Send, RInv, QInv, TypeOK
<1>2. CASE txn = 0 /\ step = 1
  <2>1. result' = Nothing /\ convertLogged' = FALSE /\ tardy' = (late # <<>>) /\ box' = None
    BY <1>1, <1>2, Scripts DEF Send
  <2>2. ASSUME ~tardy' PROVE Len(late') = 0 /\ late' \in Seq(Answers)
    BY <1>1, <2>1, <2>2
  <2>3. AskedToConvert'
    <3>1. SUFFICES ASSUME ~tardy' PROVE (Len(late') + Full' + Busy' <= 1) /\ ~IsAnswered(box', late', "PresenceOk")
      <4>1. step # 2 /\ step # 3
        BY <1>2
      <4> QED BY <1>1, <1>2, <2>1, <4>1, Zenon DEF AskedToConvert, Quiet
    <3>2. Full' = 0 /\ Busy' \in {0, 1} /\ \A b \in {0, 1} : 0 + 0 + b <= 1
      BY <2>1 DEF Full, Busy
    <3>3. ~IsAnswered(box', late', "PresenceOk")
      BY <2>1, <2>2, <3>1, NothingAnswered, Zenon
    <3> QED BY <2>2, <3>1, <3>2, <3>3, Zenon
  <2> QED BY <1>1, <1>2, <2>1, <2>3, Zenon DEF Converted, PassedOn
<1>3. CASE ~(txn = 0 /\ step = 1)
  <2>1. result' = result /\ convertLogged' = convertLogged /\ fresh' = fresh /\ tardy' = tardy
    BY <1>3 DEF Send
  <2>2. AskedToConvert'
    <3>1. SUFFICES ASSUME Quiet, txn = 0, step # 1 PROVE AskedToConvert'
      BY <1>1, <1>3, <2>1, Zenon DEF AskedToConvert, Quiet
    <3>2. /\ Len(late) + Full + Busy <= (IF waiting THEN 1 ELSE 0) /\ result = Nothing
          /\ step = 2 => heard = <<>>
          /\ step = 3 => heard = <<"skip">>
      BY <1>1, <3>1, Zenon DEF RInv, AskedToConvert
    <3>3. pru = None /\ box = None /\ Len(late) = 0
      BY <1>1, <3>2, OwAlone
    <3>4. box' = None /\ pru' = [op |-> Command, txn |-> txn, garbled |-> FALSE]
      BY <1>1, <3>3 DEF Taken
    <3>5. (step = 2 => Own("skip")') /\ (step = 3 => Own("convert")')
      BY <1>1, <3>1, <3>4, Scripts DEF Own
    <3>6. \A c : ~IsAnswered(box', late', c)
      BY <1>1, <3>3, <3>4, NothingAnswered, Zenon
    <3>7. Len(late') + Full' + Busy' <= IF waiting' THEN 1 ELSE 0
      <4>1. Full' = 0 /\ Busy' \in {0, 1} /\ \A b \in {0, 1} : 0 + 0 + b <= IF TRUE THEN 1 ELSE 0
        BY <3>4 DEF Full, Busy
      <4> QED BY <1>1, <3>3, <4>1, Zenon
    <3> QED BY <1>1, <2>1, <3>1, <3>2, <3>5, <3>6, <3>7, Zenon DEF AskedToConvert
  <2>3. Converted'
    <3>1. Quiet' <=> Quiet
      BY <2>1, Zenon DEF Quiet
    <3>2. \A i \in 0..Len(late) : Carries(box', late, i) => Carries(box, late, i) /\ Recent(box', late, i) = Recent(box, late, i)
      <4>1. box' = box \/ box' = None
        BY <1>1
      <4> QED BY <4>1, TakenInOrder, Zenon
    <3> QED BY <1>1, <2>1, <3>1, <3>2, Zenon DEF RInv, Converted
  <2>4. PassedOn'
    BY <1>1, <1>3, <2>1, Zenon DEF RInv, PassedOn, Quiet
  <2> QED BY <2>2, <2>3, <2>4
<1> QED BY <1>2, <1>3

(* An answer is taken for its own: without an error it was, and the sensors *)
(* have heard what it answers.                                              *)
LEMMA OwHandledFresh ==
  ASSUME RInv, waiting, waiting' = FALSE, box' = None, pru' = pru, late' = late, heard' = heard, fresh' = fresh,
         NEW code, NEW data, Handle(code, data), ~tardy' => ~tardy,
         code = None \/ Says(box, late, 0, code),
         data # None => Carries(box, late, 0) /\ data.fresh = Recent(box, late, 0)
  PROVE  AskedToConvert' /\ Converted' /\ PassedOn'
<1>1. TypeOK /\ txn \in Txns /\ NSensors \in Nat \ {0} /\ late \in Seq(Answers) /\ Len(late) \in Nat
  BY OneWireAssumption DEF RInv, QInv, TypeOK
<1>2. Quiet' => Quiet
  BY Zenon DEF Handle, Quiet
<1>3. CASE txn = 0
  <2>1. SUFFICES ASSUME Quiet' PROVE AskedToConvert' /\ Converted' /\ PassedOn'
    BY Zenon DEF AskedToConvert, Converted, PassedOn
  <2>2. step \in {1, 2, 3} /\ Len(Script(txn)) = 3
    <3>1. Len(Script(txn)) = 3 /\ step \in 1..3
      BY <1>1, <1>3, Scripts
    <3> QED BY <3>1
  <2>3. code = IF Command = "init" THEN "PresenceOk" ELSE "WriteBitsOk"
    BY <1>3, <2>1, Zenon DEF Handle, Quiet
  <2>4. code # None
    BY <2>3, NoneAssumption DEF Codes
  <2>5. box # None /\ IsAnswered(box, late, code)
    <3>1. 0 \in 0..Len(late)
      BY <1>1
    <3> QED BY <2>4, <3>1, Zenon DEF IsAnswered, Says, Item
  <2>6. /\ Len(late) + Full + Busy <= (IF waiting THEN 1 ELSE 0) /\ result = Nothing
        /\ step = 1 /\ IsAnswered(box, late, "PresenceOk") => heard = <<>>
        /\ step = 2 /\ IsAnswered(box, late, "WriteBitsOk") => heard = <<"skip">>
        /\ step = 3 /\ IsAnswered(box, late, "WriteBitsOk") => fresh
    BY <1>2, <1>3, <2>1, Zenon DEF RInv, AskedToConvert
  <2>7. pru = None /\ Len(late) = 0
    BY <1>1, <2>5, <2>6, OwAlone
  <2>8. \A c : ~IsAnswered(box', late', c)
    BY <1>1, <2>7, NothingAnswered, Zenon
  <2>9. Len(late') + Full' + Busy' <= IF waiting' THEN 1 ELSE 0
    <3>1. Full' = 0 /\ Busy' = 0 /\ 0 + 0 + 0 <= IF FALSE THEN 1 ELSE 0
      BY <2>7 DEF Full, Busy
    <3> QED BY <2>7, <3>1, Zenon
  <2>10. Command = "init" <=> step = 1
    BY <1>1, Scripts
  <2>11. CASE step = 1
    <3>1. Continue /\ heard = <<>>
      BY <2>3, <2>5, <2>6, <2>10, <2>11 DEF Handle, Present
    <3>2. txn' = 0 /\ step' = 2 /\ result' = Nothing
      BY <1>3, <2>6, <2>11, <3>1 DEF Continue
    <3>3. step' # 1 /\ step' # 3
      BY <3>2
    <3> QED BY <2>8, <2>9, <3>1, <3>2, <3>3, Zenon DEF AskedToConvert, Converted, PassedOn
  <2>12. CASE step = 2
    <3>1. Continue /\ heard = <<"skip">>
      <4>1. Command = "skip"
        BY <1>1, <1>3, <2>12, Scripts
      <4> QED BY <2>2, <2>3, <2>5, <2>6, <2>12, <4>1 DEF Handle
    <3>2. txn' = 0 /\ step' = 3 /\ result' = Nothing
      BY <1>3, <2>6, <2>12, <3>1 DEF Continue
    <3>3. step' # 1 /\ step' # 2
      BY <3>2
    <3> QED BY <2>8, <2>9, <3>1, <3>2, <3>3, Zenon DEF AskedToConvert, Converted, PassedOn
  <2>13. CASE step = 3
    <3>1. Finish(None) /\ fresh
      <4>1. Command = "convert"
        BY <1>1, <1>3, <2>13, Scripts
      <4> QED BY <2>2, <2>3, <2>5, <2>6, <2>13, <4>1 DEF Handle
    <3>2. txn' = 1 /\ result' = Nothing /\ fresh'
      BY <1>1, <1>3, <2>6, <3>1 DEF Finish
    <3>3. \A i \in 0..Len(late') : ~Carries(box', late', i)
      <4>1. \A i \in 0..Len(late') : i = 0
        BY <2>7
      <4> QED BY <4>1, ItemTaken, Zenon
    <3>4. txn' # 0
      BY <3>2
    <3>5. PassedOn'
      <4>1. \A s \in Sensors : Nothing[s] = None
        BY DEF Nothing
      <4> QED BY <3>2, <4>1, Zenon DEF PassedOn
    <3> QED BY <3>2, <3>3, <3>4, <3>5, Zenon DEF AskedToConvert, Converted
  <2> QED BY <2>2, <2>11, <2>12, <2>13
<1>4. CASE txn # 0
  <2>1. (\E d : Finish(d) /\ (d # None => d = data)) \/ Continue
    BY Zenon DEF Handle
  <2>2. AskedToConvert'
    <3>1. ASSUME NEW d, Finish(d) PROVE step' = 1
      BY <3>1 DEF Finish
    <3>2. Continue => txn' = txn
      BY DEF Continue
    <3> QED BY <1>4, <2>1, <3>1, <3>2, Zenon DEF AskedToConvert
  <2>3. Converted'
    BY <1>2, <1>4, TakenInOrder, Zenon DEF RInv, Converted
  <2>4. PassedOn'
    <3>1. CASE Continue
      BY <1>2, <1>4, <3>1, Zenon DEF RInv, PassedOn, Continue
    <3>2. ASSUME NEW d, Finish(d), d # None => d = data PROVE PassedOn'
      <4>1. SUFFICES ASSUME Quiet', NEW s \in Sensors, result'[s] # None PROVE result'[s].fresh
        BY Zenon DEF PassedOn
      <4>2. result' = [result EXCEPT ![txn] = d] /\ result \in [Sensors -> Data \cup {None}]
        BY <1>4, <3>2 DEF Finish, RInv, QInv, TypeOK
      <4>3. result'[s] = IF s = txn THEN d ELSE result[s]
        BY <4>2
      <4>4. CASE s = txn
        <5>1. data # None /\ result'[s] = data /\ 0 \in 0..Len(late)
          BY <1>1, <3>2, <4>1, <4>3, <4>4
        <5> QED BY <1>2, <1>4, <4>1, <5>1, Zenon DEF RInv, Converted
      <4>5. CASE s # txn
        BY <1>2, <1>4, <4>1, <4>3, <4>5, Zenon DEF RInv, PassedOn
      <4> QED BY <4>4, <4>5
    <3> QED BY <2>1, <3>1, <3>2
  <2> QED BY <2>2, <2>3, <2>4
<1> QED BY <1>3, <1>4

(* An answer is taken from the mailbox.                                     *)
LEMMA OwReceiveFresh ==
  ASSUME RInv, Receive
  PROVE  AskedToConvert' /\ Converted' /\ PassedOn'
<1>1. /\ waiting /\ box # None /\ Handle(box.code, box.data) /\ waiting' = FALSE /\ box' = None
      /\ pru' = pru /\ late' = late /\ heard' = heard /\ fresh' = fresh /\ tardy' = tardy
  BY DEF Receive
<1>2. /\ Says(box, late, 0, box.code)
      /\ box.data # None => Carries(box, late, 0) /\ box.data.fresh = Recent(box, late, 0)
  BY <1>1 DEF Says, Carries, Recent, Item
<1> QED BY <1>1, <1>2, OwHandledFresh

(* The client gives up waiting: an error is logged, or an answer was late.  *)
LEMMA OwTimeoutFresh ==
  ASSUME RInv, Timeout
  PROVE  AskedToConvert' /\ Converted' /\ PassedOn'
<1>1. /\ waiting /\ Handle(None, None) /\ waiting' = FALSE /\ box' = None
      /\ pru' = pru /\ late' = late /\ heard' = heard /\ fresh' = fresh /\ (~tardy' => ~tardy)
  BY DEF Timeout
<1> QED BY <1>1, OwHandledFresh

(* The reader puts an answer into the mailbox.                              *)
LEMMA OwDeliverFresh ==
  ASSUME RInv, Deliver
  PROVE  AskedToConvert' /\ Converted' /\ PassedOn'
<1>1. /\ late # <<>> /\ late \in Seq(Answers) /\ box' = Head(late) /\ late' = Tail(late) /\ TypeOK
      /\ txn' = txn /\ step' = step /\ waiting' = waiting /\ result' = result /\ convertLogged' = convertLogged
      /\ pru' = pru /\ heard' = heard /\ fresh' = fresh /\ tardy' = tardy
  BY DEF Deliver, client, RInv, QInv, TypeOK
<1>2. /\ Len(late) \in Nat \ {0} /\ Len(late') = Len(late) - 1
      /\ \A i \in 0..(Len(late) - 1) : Item(box', late', i) = Item(box, late, i + 1)
  BY <1>1, ItemDelivered
<1>3. \A i \in 0..Len(late') : /\ i + 1 \in 0..Len(late)
                               /\ Carries(box', late', i) => Carries(box, late, i + 1)
                               /\ Recent(box', late', i) = Recent(box, late, i + 1)
                               /\ \A c : Says(box', late', i, c) => Says(box, late, i + 1, c)
  <2>1. \A i \in 0..Len(late') : i + 1 \in 0..Len(late) /\ i \in 0..(Len(late) - 1)
    BY <1>2
  <2> QED BY <1>2, <2>1, Zenon DEF Carries, Recent, Says
<1>4. \A c : IsAnswered(box', late', c) => IsAnswered(box, late, c)
  BY <1>3, Zenon DEF IsAnswered
<1>5. /\ Quiet' <=> Quiet
      /\ \A c : Own(c)' <=> Own(c)
  BY <1>1, Zenon DEF Quiet, Own
<1>6. AskedToConvert'
  <2>1. SUFFICES ASSUME Quiet, txn = 0, step # 1 \/ waiting PROVE AskedToConvert'
    BY <1>1, <1>5, Zenon DEF AskedToConvert
  <2>2. Len(late) + Full + Busy <= IF waiting THEN 1 ELSE 0
    BY <2>1, Zenon DEF RInv, AskedToConvert
  <2>3. waiting /\ pru = None /\ Len(late) = 1
    <3>1. waiting /\ pru = None /\ Len(late) <= 1
      BY <1>1, <1>2, <2>2, OwAlone
    <3> QED BY <1>2, <3>1
  <2>4. Len(late') + Full' + Busy' <= IF waiting' THEN 1 ELSE 0
    <3>1. Len(late') = 0 /\ Busy' = 0 /\ Full' \in {0, 1} /\ \A f \in {0, 1} : 0 + f + 0 <= IF TRUE THEN 1 ELSE 0
      BY <1>1, <1>2, <2>3 DEF Full, Busy
    <3> QED BY <1>1, <2>3, <3>1, Zenon
  <2> QED BY <1>1, <1>4, <1>5, <2>1, <2>4, Zenon DEF RInv, AskedToConvert
<1>7. Converted'
  BY <1>1, <1>3, <1>5, Zenon DEF RInv, Converted
<1>8. PassedOn'
  BY <1>1, <1>5, Zenon DEF RInv, PassedOn
<1> QED BY <1>6, <1>7, <1>8

(* When the PRU has finished the command the conversion waits for, its      *)
(* answer is the only one.                                                  *)
LEMMA OwEnded ==
  ASSUME TypeOK, pru # None, Len(late) + Full + Busy <= (IF waiting THEN 1 ELSE 0), pru' = None, box' = box, waiting' = waiting,
         NEW a \in Answers, late' = late \/ late' = Append(late, a)
  PROVE  /\ Len(late') + Full' + Busy' <= IF waiting' THEN 1 ELSE 0
         /\ \A c : IsAnswered(box', late', c) => late' = Append(late, a) /\ a.code = c
<1>1. waiting /\ box = None /\ Len(late) = 0 /\ late \in Seq(Answers)
  BY OwAlone DEF TypeOK
<1>2. Full' = 0 /\ Busy' = 0 /\ 0 + 0 + 0 <= (IF TRUE THEN 1 ELSE 0) /\ 1 + 0 + 0 <= (IF TRUE THEN 1 ELSE 0)
  BY <1>1 DEF Full, Busy
<1>3. CASE late' = late
  BY <1>1, <1>2, <1>3, NothingAnswered, Zenon
<1>4. CASE late' = Append(late, a)
  <2>1. Len(late') = 1 /\ Item(box, late', 1) = a
    <3>1. Len(late') = Len(late) + 1 /\ Item(box, late', Len(late) + 1) = a
      BY <1>1, <1>4, ItemAdded
    <3>2. Len(late) + 1 = 1
      BY <1>1
    <3> QED BY <3>1, <3>2, Zenon
  <2>2. \A i \in 0..Len(late') : i = 0 \/ i = 1
    BY <2>1
  <2>3. \A c : IsAnswered(box', late', c) => a.code = c
    BY <1>1, <2>1, <2>2, ItemTaken, Zenon DEF IsAnswered, Says
  <2> QED BY <1>1, <1>2, <1>4, <2>1, <2>3, Zenon
<1> QED BY <1>3, <1>4

(* ... and an operation that answers no temperature spoils nothing that has *)
(* been read.                                                               *)
LEMMA OwEndedPassed ==
  ASSUME RInv, txn' = txn, step' = step, waiting' = waiting, result' = result, convertLogged' = convertLogged, tardy' = tardy, box' = box,
         fresh => fresh', NEW a \in Answers, late' = late \/ late' = Append(late, a),
         Quiet /\ txn # 0 /\ a.data # None => a.data.fresh
  PROVE  Converted' /\ PassedOn'
<1>1. late \in Seq(Answers) /\ (Quiet' <=> Quiet)
  BY Zenon DEF RInv, QInv, TypeOK, Quiet
<1>2. PassedOn'
  BY <1>1, Zenon DEF RInv, PassedOn
<1>3. CASE late' = late
  BY <1>1, <1>2, <1>3, Zenon DEF RInv, Converted
<1>4. CASE late' = Append(late, a)
  <2>1. /\ Len(late) \in Nat /\ Len(late') = Len(late) + 1
        /\ \A i \in 0..Len(late) : Item(box, late', i) = Item(box, late, i)
        /\ Item(box, late', Len(late) + 1) = a
    BY <1>1, <1>4, ItemAdded
  <2>2. \A i \in 0..Len(late') : i \in 0..Len(late) \/ i = Len(late) + 1
    BY <2>1
  <2>3. /\ \A i \in 0..Len(late) : Carries(box, late', i) => Carries(box, late, i) /\ Recent(box, late', i) = Recent(box, late, i)
        /\ Carries(box, late', Len(late) + 1) => a.data # None /\ Recent(box, late', Len(late) + 1) = a.data.fresh
    BY <2>1, Zenon DEF Carries, Recent
  <2>4. Converted'
    BY <1>1, <2>2, <2>3, Zenon DEF RInv, Converted
  <2> QED BY <1>2, <2>4
<1> QED BY <1>3, <1>4

(* A reset: the sensors hear nothing of what was before it.                 *)
LEMMA OwResetFresh ==
  ASSUME RInv, NEW ok \in BOOLEAN, Reset(ok)
  PROVE  AskedToConvert' /\ Converted' /\ PassedOn'
<1> DEFINE a == Say(IF ok THEN "PresenceOk" ELSE "NoPresence")
<1>1. /\ pru # None /\ pru.op = "init" /\ pru' = None /\ late' = Append(late, a) /\ heard' = (IF ok THEN <<>> ELSE <<"noise">>)
      /\ txn' = txn /\ step' = step /\ waiting' = waiting /\ result' = result /\ convertLogged' = convertLogged
      /\ box' = box /\ fresh' = fresh /\ tardy' = tardy /\ a \in Answers /\ TypeOK
      /\ a.data = None /\ (a.code = "PresenceOk" => heard' = <<>>) /\ a.code # "WriteBitsOk"
  BY DEF Reset, Answer, client, RInv, QInv, TypeOK, Say, Answers, Codes
<1> HIDE DEF a
<1>2. Converted' /\ PassedOn'
  BY <1>1, OwEndedPassed, Zenon
<1>3. AskedToConvert'
  <2>1. SUFFICES ASSUME Quiet, txn = 0, step # 1 \/ waiting PROVE AskedToConvert'
    BY <1>1, Zenon DEF AskedToConvert, Quiet
  <2>2. /\ Len(late) + Full + Busy <= (IF waiting THEN 1 ELSE 0) /\ result = Nothing
        /\ step = 2 \/ step = 3 => ~waiting
    <3>1. "init" # "skip" /\ "init" # "convert"
      OBVIOUS
    <3> QED BY <1>1, <2>1, <3>1, Zenon DEF RInv, AskedToConvert, Own
  <2>3. /\ Len(late') + Full' + Busy' <= (IF waiting' THEN 1 ELSE 0)
        /\ \A c : IsAnswered(box', late', c) => a.code = c
    BY <1>1, <2>2, OwEnded, Zenon
  <2>4. waiting
    BY <1>1, <2>2, OwAlone
  <2> QED BY <1>1, <2>2, <2>3, <2>4, Zenon DEF AskedToConvert
<1> QED BY <1>2, <1>3

(* Two writes, one after the other.                                         *)
LEMMA TwoWrites == Append(<<"skip">>, "convert") = <<"skip", "convert">>
<1> DEFINE c == "convert"
           s == <<"skip">>
           t == <<"skip", c>>
           S == {"skip", c}
<1>1. s \in Seq(S) /\ t \in Seq(S) /\ c \in S /\ Len(s) = 1 /\ Len(t) = 2 /\ t[1] = s[1] /\ t[2] = c
  OBVIOUS
<1>0. s \in Seq(S) /\ c \in S
  OBVIOUS
<1> HIDE DEF c, s, t, S
<1> DEFINE a == Append(s, c)
<1>2. /\ a \in Seq(S) /\ Len(a) = Len(s) + 1
      /\ \A k \in 1..Len(s) : a[k] = s[k]
      /\ a[Len(s) + 1] = c
  BY <1>0, Appended
<1>3. Len(s) + 1 = 2 /\ 1 \in 1..Len(s)
  BY <1>1
<1>4. a \in Seq(S) /\ Len(a) = 2 /\ a[1] = t[1] /\ a[2] = t[2]
  BY <1>1, <1>2, <1>3, Zenon
<1> HIDE DEF a
<1>5. \A i \in 1..Len(a) : a[i] = t[i]
  <2>1. \A i \in 1..Len(a) : i = 1 \/ i = 2
    BY <1>4
  <2> QED BY <1>4, <2>1, Zenon
<1>6. a = t
  BY <1>1, <1>4, <1>5, SeqEqual, Zenon
<1> QED BY <1>6 DEF a, c, s, t

(* A write: the sensors convert when they have heard both commands.         *)
LEMMA OwWriteFresh ==
  ASSUME RInv, NEW ok \in BOOLEAN, Write(ok)
  PROVE  AskedToConvert' /\ Converted' /\ PassedOn'
<1> DEFINE a == Say("WriteBitsOk")
<1>1. /\ pru # None /\ pru.op \in Writes /\ pru' = None /\ late' = (IF ok THEN Append(late, a) ELSE late)
      /\ heard' = Append(heard, IF ok /\ ~pru.garbled THEN pru.op ELSE "noise")
      /\ fresh' = (fresh \/ heard' = <<"skip", "convert">>)
      /\ txn' = txn /\ step' = step /\ waiting' = waiting /\ result' = result /\ convertLogged' = convertLogged
      /\ box' = box /\ tardy' = tardy /\ a \in Answers /\ TypeOK
      /\ a.data = None /\ a.code # "PresenceOk"
  BY DEF Write, Answer, client, RInv, QInv, TypeOK, Say, Answers, Codes
<1> HIDE DEF a
<1>2. late' = late \/ late' = Append(late, a)
  BY <1>1
<1>3. Converted' /\ PassedOn'
  BY <1>1, <1>2, OwEndedPassed, Zenon
<1>4. AskedToConvert'
  <2>1. SUFFICES ASSUME Quiet, txn = 0, step # 1 \/ waiting PROVE AskedToConvert'
    BY <1>1, Zenon DEF AskedToConvert, Quiet
  <2>2. /\ Len(late) + Full + Busy <= (IF waiting THEN 1 ELSE 0) /\ result = Nothing
        /\ step = 2 => heard = <<>> /\ (waiting => pru.op = "skip" /\ ~pru.garbled)
        /\ step = 3 => heard = <<"skip">> /\ (waiting => pru.op = "convert" /\ ~pru.garbled)
    BY <1>1, <2>1, Zenon DEF RInv, AskedToConvert, Own
  <2>3. /\ Len(late') + Full' + Busy' <= (IF waiting' THEN 1 ELSE 0)
        /\ \A c : IsAnswered(box', late', c) => late' = Append(late, a) /\ a.code = c
    BY <1>1, <1>2, <2>2, OwEnded, Zenon
  <2>4. waiting /\ Len(late) = 0 /\ late \in Seq(Answers)
    BY <1>1, <2>2, OwAlone DEF TypeOK
  <2>5. \A c : IsAnswered(box', late', c) => ok
    <3>1. late # Append(late, a)
      <4>1. Len(Append(late, a)) = Len(late) + 1
        BY <1>1, <2>4, Appended
      <4> QED BY <2>4, <4>1
    <3> QED BY <1>1, <2>3, <3>1, Zenon
  <2>6. ok /\ step = 2 => heard' = <<"skip">>
    BY <1>1, <2>2, <2>4
  <2>7. ok /\ step = 3 => fresh'
    <3>1. Append(<<"skip">>, "convert") = <<"skip", "convert">>
      BY TwoWrites
    <3>2. ok /\ step = 3 => heard' = Append(<<"skip">>, "convert")
      BY <1>1, <2>2, <2>4, Zenon
    <3> QED BY <1>1, <3>1, <3>2, Zenon
  <2> QED BY <1>1, <2>2, <2>3, <2>4, <2>5, <2>6, <2>7, Zenon DEF AskedToConvert, Own
<1> QED BY <1>3, <1>4

(* A read: the temperature is as fresh as the sensors'.                     *)
LEMMA OwReadFresh ==
  ASSUME RInv, NEW ok \in BOOLEAN, Read(ok)
  PROVE  AskedToConvert' /\ Converted' /\ PassedOn'
<1> DEFINE d == IF ok /\ Selected THEN [sensor |-> pru.txn, fresh |-> fresh] ELSE None
           a == [code |-> IF ok THEN "ReadBitsOk" ELSE "ReadBitsFailure", data |-> d]
<1>1. /\ pru # None /\ pru.op = "read" /\ pru' = None /\ late' = Append(late, a) /\ heard' = heard
      /\ txn' = txn /\ step' = step /\ waiting' = waiting /\ result' = result /\ convertLogged' = convertLogged
      /\ box' = box /\ tardy' = tardy /\ fresh' = fresh /\ TypeOK
      /\ a.code # "PresenceOk" /\ a.code # "WriteBitsOk" /\ (a.data # None => a.data.fresh = fresh)
  BY DEF Read, Answer, client, RInv, QInv, TypeOK
<1>2. a \in Answers
  <2>1. pru.txn \in Sensors /\ fresh \in BOOLEAN
    BY <1>1 DEF TypeOK
  <2>2. d \in Data \cup {None}
    BY <2>1 DEF Data
  <2> QED BY <2>2 DEF Answers, Codes
<1> HIDE DEF a, d
<1>3. Converted' /\ PassedOn'
  <2>1. Quiet /\ txn # 0 /\ a.data # None => a.data.fresh
    BY <1>1, Zenon DEF RInv, Converted
  <2> QED BY <1>1, <1>2, <2>1, OwEndedPassed, Zenon
<1>4. AskedToConvert'
  <2>1. SUFFICES ASSUME Quiet, txn = 0, step # 1 \/ waiting PROVE AskedToConvert'
    BY <1>1, Zenon DEF AskedToConvert, Quiet
  <2>2. /\ Len(late) + Full + Busy <= (IF waiting THEN 1 ELSE 0) /\ result = Nothing
        /\ step = 2 \/ step = 3 => ~waiting
    <3>1. "read" # "skip" /\ "read" # "convert"
      OBVIOUS
    <3> QED BY <1>1, <2>1, <3>1, Zenon DEF RInv, AskedToConvert, Own
  <2>3. /\ Len(late') + Full' + Busy' <= (IF waiting' THEN 1 ELSE 0)
        /\ \A c : IsAnswered(box', late', c) => a.code = c
    BY <1>1, <1>2, <2>2, OwEnded, Zenon
  <2>4. waiting
    BY <1>1, <2>2, OwAlone
  <2> QED BY <1>1, <2>2, <2>3, <2>4, Zenon DEF AskedToConvert
<1> QED BY <1>3, <1>4

(* Before the first round.                                                  *)
LEMMA OwInitRInv == Init => RInv
<1> SUFFICES ASSUME Init PROVE RInv
  OBVIOUS
<1>1. QInv /\ txn = 0 /\ step = 1 /\ ~waiting /\ result = Nothing
  BY OwInitQInv DEF Init
<1>2. PassedOn
  BY <1>1 DEF PassedOn, Nothing
<1> QED BY <1>1, <1>2, Zenon DEF RInv, AskedToConvert, Converted

(* Every step keeps the round true.                                         *)
LEMMA OwNextRInv ==
  ASSUME MaxLate <= 4, RInv, [Next]_vars
  PROVE  RInv'
<1>1. QInv'
  BY OwNextQInv DEF RInv
<1>2. AskedToConvert' /\ Converted' /\ PassedOn'
  <2>1. ASSUME NEW ok \in BOOLEAN, Operate(ok) PROVE AskedToConvert' /\ Converted' /\ PassedOn'
    BY <2>1, OwResetFresh, OwWriteFresh, OwReadFresh DEF Operate
  <2>2. CASE UNCHANGED vars
    <3>1. /\ txn' = txn /\ step' = step /\ waiting' = waiting /\ result' = result /\ convertLogged' = convertLogged
          /\ box' = box /\ pru' = pru /\ late' = late /\ heard' = heard /\ fresh' = fresh /\ tardy' = tardy
      BY <2>2 DEF vars, client
    <3> QED BY <3>1, Zenon DEF RInv, AskedToConvert, Converted, PassedOn, Quiet, Full, Busy, Own
  <2> QED BY <2>1, <2>2, OwSendFresh, OwReceiveFresh, OwTimeoutFresh, OwDeliverFresh, Zenon DEF Next, Shorted
<1> QED BY <1>1, <1>2 DEF RInv

(* The invariant holds what a round promises.                               *)
LEMMA OwRInvImplies == RInv => RoundsTrue
<1>1. SUFFICES ASSUME RInv PROVE StaleIsLogged
  BY DEF RInv, QInv, RoundsTrue
<1>2. SUFFICES ASSUME NEW s \in Sensors, result[s] # None, Quiet PROVE result[s].fresh
  BY Zenon DEF StaleIsLogged, Quiet
<1>3. result # Nothing
  BY <1>2 DEF Nothing
<1> QED BY <1>1, <1>2, <1>3, Zenon DEF RInv, AskedToConvert, PassedOn

-----------------------------------------------------------------------------
(* The daemon's search (OwSearch).                                          *)

(* Two codes are the same in their first k bits; one comes before the other *)
(* in the order of the search, by its first k bits.                         *)
Agree(s, r, k)  == \A i \in 0..(k - 1) : s[i] = r[i]
Before(s, r, k) == \E i \in 0..(k - 1) : Agree(s, r, i) /\ s[i] = 0 /\ r[i] = 1

(* There is a sensor where the code of the search went by with a zero.      *)
Forks(w, r, i) == r[i] = 0 /\ \E s \in w : Agree(s, r, i) /\ s[i] = 1
LastFork(w, r, k, z) ==
  /\ z \in -1..(k - 1)
  /\ z # -1 => Forks(w, r, z)
  /\ \A i \in 0..(k - 1) : i > z => ~Forks(w, r, i)

(* A code with one bit written.                                             *)
Put(r, k, v) == [r EXCEPT ![k] = v]

(* The bit written after a triplet.                                         *)
Written(res) == IF res = 1 \/ (res = 0 /\ Direction) THEN 1 ELSE 0

(* Those that take part are the sensors that agree with the bits written.   *)
(* After a misread bit there may be none, but one had agreed until then.    *)
InPass ==
  schSt = "bits" =>
    /\ selected = {s \in wired : Agree(s, rc, bitidx)}
    /\ selected = {} => /\ noisy /\ misread = Misreads /\ bitidx # 0
                       /\ \E s \in wired : Agree(s, rc, bitidx - 1)

(* What was found by a search without a fault: all sensors up to the code   *)
(* of the pass that ended, and after it there is one exactly if it forked.  *)
Counted == IsFiniteSet(Range(schFound)) /\ (~noisy => Cardinality(Range(schFound)) = Len(schFound))
Walked == /\ rc \in wired /\ LastFork(wired, rc, RomBits, lastBranch)
          /\ Range(schFound) = {s \in wired : Before(s, rc, RomBits) \/ s = rc}
Progress ==
  ~noisy => /\ schSt = "pass" => IF lastBranch = -1 THEN schFound = <<>> ELSE Walked
            /\ schSt = "bits" => /\ LastFork(wired, rc, bitidx, lastZero)
                                /\ IF bitidx <= lastBranch THEN Walked
                                   ELSE Range(schFound) = {s \in wired : Before(s, rc, bitidx)}
            /\ schSt \in {"compare", "started"} => Range(schFound) = wired

Started == schSt = "started" => IsInjective(schFound) /\ Match(schFound)
SInv == OwSearchTypeOK /\ InPass /\ NoneInvented /\ Counted /\ Progress /\ Started
-----------------------------------------------------------------------------
(* A set of naturals has a least element.                                   *)
LEMMA Least ==
  ASSUME NEW T, T \subseteq Nat, T # {}
  PROVE  \E m \in T : \A k \in T : ~(k < m)
<1> DEFINE R == OpToRel(<, Nat)
<1>1. IsWellFoundedOn(R, Nat)
  BY NatLessThanWellFounded, Zenon
<1>2. \A k, n \in Nat : k < n => <<k, n>> \in R
  BY DEF OpToRel
<1> HIDE DEF R
<1>3. PICK m \in T : \A k \in T : <<k, m>> \notin R
  BY <1>1, WFMin, Zenon
<1> QED BY <1>2, <1>3

(* Codes that differ have a first bit in which they do.                     *)
LEMMA FirstDifference ==
  ASSUME NEW s \in Roms, NEW r \in Roms, s # r
  PROVE  Before(s, r, RomBits) \/ \E i \in 0..(RomBits - 1) : Agree(s, r, i) /\ r[i] = 0 /\ s[i] = 1
<1> DEFINE T == {i \in 0..(RomBits - 1) : s[i] # r[i]}
<1>0. RomBits \in Nat \ {0}
  BY OwSearchAssumption
<1>1. T # {} /\ T \subseteq Nat
  <2>1. s = [i \in 0..(RomBits - 1) |-> s[i]] /\ r = [i \in 0..(RomBits - 1) |-> r[i]]
    BY DEF Roms
  <2>2. \E i \in 0..(RomBits - 1) : s[i] # r[i]
    BY <2>1, Zenon
  <2> QED BY <1>0, <2>2
<1>2. PICK m \in T : \A k \in T : ~(k < m)
  <2> HIDE DEF T
  <2> QED BY <1>1, Least, Zenon
<1>3. m \in 0..(RomBits - 1) /\ s[m] # r[m] /\ s[m] \in {0, 1} /\ r[m] \in {0, 1}
  BY <1>2 DEF Roms
<1>4. Agree(s, r, m)
  <2>1. SUFFICES ASSUME NEW i \in 0..(m - 1) PROVE s[i] = r[i]
    BY DEF Agree
  <2>2. i \in 0..(RomBits - 1) /\ i < m
    BY <1>0, <1>3
  <2> QED BY <1>2, <2>2
<1>5. CASE s[m] = 0 /\ r[m] = 1
  BY <1>3, <1>4, <1>5 DEF Before
<1>6. CASE s[m] = 1 /\ r[m] = 0
  BY <1>3, <1>4, <1>6
<1> QED BY <1>3, <1>5, <1>6

(* Codes that agree in their first bits agree in fewer.                     *)
LEMMA AgreeLess ==
  ASSUME NEW s, NEW r, NEW k \in Nat, NEW j \in 0..k, Agree(s, r, k)
  PROVE  Agree(s, r, j) /\ (j # k => s[j] = r[j])
BY DEF Agree

(* A code and the same with one bit written.                                *)
LEMMA Rewritten ==
  ASSUME NEW r \in Roms, NEW k \in 0..(RomBits - 1), NEW v \in {0, 1}, NEW q, q = Put(r, k, v)
  PROVE  /\ q \in Roms /\ q[k] = v /\ \A i \in 0..(k - 1) : q[i] = r[i]
         /\ \A s : \A j \in 0..k : Agree(s, q, j) <=> Agree(s, r, j)
         /\ \A s : Agree(s, q, k + 1) <=> Agree(s, r, k) /\ s[k] = v
         /\ \A w : \A i \in 0..(k - 1) : Forks(w, q, i) <=> Forks(w, r, i)
         /\ \A w : Forks(w, q, k) <=> v = 0 /\ \E s \in w : Agree(s, r, k) /\ s[k] = 1
         /\ \A s : Before(s, q, k + 1) <=> Before(s, r, k) \/ (Agree(s, r, k) /\ s[k] = 0 /\ v = 1)
<1>0. RomBits \in Nat \ {0} /\ k \in Nat /\ k \in 0..k
  BY OwSearchAssumption
<1>1. q \in Roms /\ q[k] = v /\ \A i \in 0..(k - 1) : q[i] = r[i] /\ i \in 0..k
  <2>1. \A i \in 0..(k - 1) : i \in 0..(RomBits - 1) /\ i # k /\ i \in 0..k
    BY <1>0
  <2> QED BY <2>1 DEF Roms, Put
<1>2. \A s : \A j \in 0..k : Agree(s, q, j) <=> Agree(s, r, j)
  <2>1. \A j \in 0..k : \A i \in 0..(j - 1) : i \in 0..(k - 1)
    BY <1>0
  <2> QED BY <1>1, <2>1, Zenon DEF Agree
<1>3. \A s : Agree(s, q, k + 1) <=> Agree(s, r, k) /\ s[k] = v
  <2>1. (\A i \in 0..((k + 1) - 1) : i \in 0..(k - 1) \/ i = k) /\ k \in 0..((k + 1) - 1) /\ \A i \in 0..(k - 1) : i \in 0..((k + 1) - 1)
    BY <1>0
  <2> QED BY <1>1, <2>1, Zenon DEF Agree
<1>4. \A w : \A i \in 0..(k - 1) : Forks(w, q, i) <=> Forks(w, r, i)
  BY <1>1, <1>2, Zenon DEF Forks
<1>5. \A w : Forks(w, q, k) <=> v = 0 /\ \E s \in w : Agree(s, r, k) /\ s[k] = 1
  BY <1>0, <1>1, <1>2, Zenon DEF Forks
<1>6. \A s : Before(s, q, k + 1) <=> Before(s, r, k) \/ (Agree(s, r, k) /\ s[k] = 0 /\ v = 1)
  <2>1. (\A i \in 0..((k + 1) - 1) : i \in 0..(k - 1) \/ i = k) /\ k \in 0..((k + 1) - 1) /\ \A i \in 0..(k - 1) : i \in 0..((k + 1) - 1)
    BY <1>0
  <2> QED BY <1>0, <1>1, <1>2, <2>1, Zenon DEF Before
<1> QED BY <1>1, <1>2, <1>3, <1>4, <1>5, <1>6, Zenon

(* The last fork, when one more bit is written.                             *)
LEMMA ForkWritten ==
  ASSUME NEW r \in Roms, NEW k \in 0..(RomBits - 1), NEW v \in {0, 1}, NEW q, q = Put(r, k, v),
         NEW w, NEW z, LastFork(w, r, k, z)
  PROVE  LastFork(w, q, k + 1, IF Forks(w, q, k) THEN k ELSE z)
<1>0. RomBits \in Nat \ {0} /\ k \in Nat /\ z \in -1..(k - 1)
  BY OwSearchAssumption DEF LastFork
<1>1. \A i \in 0..(k - 1) : Forks(w, q, i) <=> Forks(w, r, i)
  BY Rewritten, Zenon
<1>2. \A i \in 0..((k + 1) - 1) : i \in 0..(k - 1) \/ i = k
  BY <1>0
<1>3. CASE Forks(w, q, k)
  <2>1. \A i \in 0..((k + 1) - 1) : ~(i > k)
    BY <1>0
  <2>2. k \in -1..((k + 1) - 1)
    BY <1>0
  <2> QED BY <1>3, <2>1, <2>2, Zenon DEF LastFork
<1>4. CASE ~Forks(w, q, k)
  <2>1. z \in -1..((k + 1) - 1) /\ (z # -1 => z \in 0..(k - 1))
    BY <1>0
  <2> QED BY <1>1, <1>2, <1>4, <2>1, Zenon DEF LastFork
<1> QED BY <1>3, <1>4

(* At the last fork of the last pass the search turns to the sensors behind *)
(* it: all others have been found.                                          *)
LEMMA AtBranch ==
  ASSUME NEW w \in SUBSET Roms, NEW r \in w, NEW b \in 0..(RomBits - 1), LastFork(w, r, RomBits, b),
         NEW q, q = Put(r, b, 1), NEW s \in w
  PROVE  Before(s, r, RomBits) \/ s = r <=> Before(s, q, b + 1)
<1>0. RomBits \in Nat \ {0} /\ b \in Nat /\ r \in Roms /\ s \in Roms /\ b # -1
  BY OwSearchAssumption
<1>1. Forks(w, r, b) /\ \A i \in 0..(RomBits - 1) : i > b => ~Forks(w, r, i)
  BY <1>0, Zenon DEF LastFork
<1>2. r[b] = 0
  BY <1>1 DEF Forks
<1>3. Before(s, q, b + 1) <=> Before(s, r, b) \/ (Agree(s, r, b) /\ s[b] = 0)
  <2>1. 1 \in {0, 1} /\ r \in Roms
    BY <1>0
  <2>2. \A t : Before(t, q, b + 1) <=> Before(t, r, b) \/ (Agree(t, r, b) /\ t[b] = 0 /\ 1 = 1)
    BY <2>1, Rewritten
  <2> QED BY <2>2
<1>4. ASSUME Before(s, r, RomBits) PROVE Before(s, r, b) \/ (Agree(s, r, b) /\ s[b] = 0)
  <2>1. PICK i \in 0..(RomBits - 1) : Agree(s, r, i) /\ s[i] = 0 /\ r[i] = 1
    BY <1>4 DEF Before
  <2>2. CASE i < b
    <3>1. i \in 0..(b - 1)
      BY <1>0, <2>2
    <3> QED BY <2>1, <3>1 DEF Before
  <2>3. CASE i > b
    <3>1. b \in 0..i /\ b # i /\ i \in Nat
      BY <1>0, <2>3
    <3> QED BY <1>2, <2>1, <3>1, AgreeLess
  <2>4. i # b
    BY <1>2, <2>1
  <2> QED BY <1>0, <2>2, <2>3, <2>4
<1>5. s = r => Agree(s, r, b) /\ s[b] = 0
  BY <1>2 DEF Agree
<1>6. ASSUME Before(s, r, b) PROVE Before(s, r, RomBits)
  <2>1. \A i \in 0..(b - 1) : i \in 0..(RomBits - 1)
    BY <1>0
  <2> QED BY <1>6, <2>1 DEF Before
<1>7. ASSUME Agree(s, r, b), s[b] = 0, s # r PROVE Before(s, r, RomBits)
  <2>1. SUFFICES ASSUME NEW i \in 0..(RomBits - 1), Agree(s, r, i), r[i] = 0, s[i] = 1 PROVE FALSE
    BY <1>0, <1>7, FirstDifference, Zenon
  <2>2. Forks(w, r, i)
    BY <2>1 DEF Forks
  <2>3. CASE i < b
    BY <1>0, <1>7, <2>1, <2>3 DEF Agree
  <2>4. i # b
    BY <1>7, <2>1
  <2>5. CASE i > b
    BY <1>1, <2>2, <2>5
  <2> QED BY <1>0, <2>3, <2>4, <2>5
<1> QED BY <1>3, <1>4, <1>5, <1>6, <1>7

(* After a pass without a fork every sensor has been found.                 *)
LEMMA NoForkLeft ==
  ASSUME NEW w \in SUBSET Roms, NEW r \in w, LastFork(w, r, RomBits, -1), NEW s \in w
  PROVE  Before(s, r, RomBits) \/ s = r
<1>0. RomBits \in Nat \ {0} /\ r \in Roms /\ s \in Roms
  BY OwSearchAssumption
<1>1. SUFFICES ASSUME NEW i \in 0..(RomBits - 1), Agree(s, r, i), r[i] = 0, s[i] = 1 PROVE FALSE
  BY <1>0, FirstDifference, Zenon
<1>2. Forks(w, r, i)
  BY <1>1 DEF Forks
<1>3. i > -1
  BY <1>0
<1> QED BY <1>2, <1>3, Zenon DEF LastFork

(* What a triplet hears.                                                    *)
LEMMA HeardIs ==
  ASSUME NEW i, \A s \in selected : s[i] \in {0, 1}
  PROVE  /\ Heard(i) \in 0..3
         /\ Heard(i) = 0 <=> (\E s \in selected : s[i] = 0) /\ (\E s \in selected : s[i] = 1)
         /\ Heard(i) = 1 <=> selected # {} /\ \A s \in selected : s[i] = 1
         /\ Heard(i) = 2 <=> selected # {} /\ \A s \in selected : s[i] = 0
         /\ Heard(i) = 3 <=> selected = {}
<1> DEFINE here == {s[i] : s \in selected}
<1>1. CASE selected = {}
  <2>1. here = {}
    BY <1>1
  <2>2. Heard(i) = 3
    BY <2>1 DEF Heard
  <2> QED BY <1>1, <2>2
<1>2. CASE selected # {} /\ \A s \in selected : s[i] = 1
  <2>1. here = {1}
    BY <1>2
  <2>2. Heard(i) = 1
    BY <2>1 DEF Heard
  <2> QED BY <1>2, <2>2
<1>3. CASE selected # {} /\ \A s \in selected : s[i] = 0
  <2>1. here = {0}
    BY <1>3
  <2>2. Heard(i) = 2
    BY <2>1 DEF Heard
  <2> QED BY <1>3, <2>2
<1>4. CASE (\E s \in selected : s[i] = 0) /\ (\E s \in selected : s[i] = 1)
  <2>1. here = {0, 1}
    BY <1>4
  <2>2. Heard(i) = 0
    BY <2>1 DEF Heard
  <2> QED BY <1>4, <2>2
<1> QED BY <1>1, <1>2, <1>3, <1>4

(* What is found with one code more.                                        *)
LEMMA RangeGrows ==
  ASSUME NEW S, NEW s \in Seq(S), NEW x \in S
  PROVE  Range(Append(s, x)) = Range(s) \cup {x}
<1> DEFINE a == Append(s, x)
<1>1. /\ a \in Seq(S) /\ Len(s) \in Nat /\ Len(a) = Len(s) + 1
      /\ \A k \in 1..Len(s) : a[k] = s[k]
      /\ a[Len(s) + 1] = x
  BY AppendProperties
<1>2. DOMAIN s = 1..Len(s) /\ DOMAIN a = 1..Len(a)
  BY <1>1
<1> HIDE DEF a
<1>3. DOMAIN a = DOMAIN s \cup {Len(s) + 1}
  BY <1>1, <1>2
<1>4. Range(a) = Range(s) \cup {x}
  BY <1>1, <1>2, <1>3 DEF Range
<1> QED BY <1>4 DEF a

(* Nothing has been found in an empty list.                                 *)
LEMMA RangeEmpty == Range(<<>>) = {}
BY DEF Range

(* Nothing has been found before the first pass.                            *)
LEMMA SchInitSInv == OwSearchInit => SInv
<1> SUFFICES ASSUME OwSearchInit PROVE SInv
  OBVIOUS
<1>1. /\ schSt = "pass" /\ lastBranch = -1 /\ schFound = <<>> /\ noisy = FALSE /\ selected = {} /\ misread = 0 /\ bitidx = 0 /\ lastZero = -1
      /\ wired \subseteq Valid /\ rc \in Roms /\ RomBits \in Nat \ {0} /\ Misreads \in {0, 1}
  BY OwSearchAssumption DEF OwSearchInit
<1>2. OwSearchTypeOK
  <2>1. schFound \in Seq(Valid) /\ selected \subseteq wired
    BY <1>1
  <2>2. bitidx \in 0..RomBits /\ lastBranch \in -1..(RomBits - 1) /\ lastZero \in -1..(RomBits - 1) /\ misread \in 0..Misreads
    BY <1>1
  <2> QED BY <1>1, <2>1, <2>2 DEF OwSearchTypeOK
<1>3. Counted /\ NoneInvented
  <2>1. Range(schFound) = {} /\ Len(schFound) = 0
    BY <1>1, RangeEmpty
  <2> QED BY <2>1, FS_EmptySet DEF Counted, NoneInvented
<1> QED BY <1>1, <1>2, <1>3 DEF SInv, InPass, Progress, Started

(* The bit that is written when a triplet has been heard.                   *)
LEMMA SchBit ==
  ASSUME OwSearchTypeOK, schSt = "bits", bitidx < RomBits, NEW res \in 0..3, SearchBit(res)
  PROVE  /\ bitidx \in 0..(RomBits - 1) /\ Written(res) \in {0, 1}
         /\ \/ Give(schFound) /\ (~Expected(res) \/ res = 3)
            \/ /\ Expected(res) /\ res # 3
               /\ rc' = Put(rc, bitidx, Written(res)) /\ rc' \in Roms
               /\ selected' = {s \in selected : s[bitidx] = Written(res)}
               /\ lastZero' = (IF Zero(res) THEN bitidx ELSE lastZero)
               /\ bitidx' = bitidx + 1 /\ schSt' = schSt /\ lastBranch' = lastBranch /\ schFound' = schFound
<1>1. bitidx \in 0..(RomBits - 1) /\ rc \in Roms /\ Written(res) \in {0, 1}
  BY OwSearchAssumption DEF OwSearchTypeOK, Written
<1>2. CASE ~Expected(res) \/ res = 3
  BY <1>1, <1>2 DEF SearchBit
<1>3. CASE Expected(res) /\ res # 3
  <2> DEFINE newval == IF res = 0 THEN Direction ELSE res = 1
  <2>1. /\ rc' = [rc EXCEPT ![bitidx] = IF newval THEN 1 ELSE 0]
        /\ selected' = {s \in selected : s[bitidx] = rc'[bitidx]}
        /\ lastZero' = (IF Zero(res) THEN bitidx ELSE lastZero)
        /\ bitidx' = bitidx + 1 /\ schSt' = schSt /\ lastBranch' = lastBranch /\ schFound' = schFound
    BY <1>3 DEF SearchBit
  <2>2. (IF newval THEN 1 ELSE 0) = Written(res)
    BY <1>3 DEF Written
  <2>3. rc' = Put(rc, bitidx, Written(res))
    BY <2>1, <2>2 DEF Put
  <2>4. rc' \in Roms /\ rc'[bitidx] = Written(res)
    BY <1>1, <2>3, Rewritten
  <2> QED BY <1>1, <1>3, <2>1, <2>3, <2>4
<1> QED BY <1>2, <1>3

(* A triplet keeps the types, whatever is heard.                            *)
LEMMA SchBitTypes ==
  ASSUME OwSearchTypeOK, schSt = "bits", bitidx < RomBits, NEW res \in 0..3, SearchBit(res), wired' = wired,
         misread' \in 0..Misreads, noisy' \in BOOLEAN
  PROVE  OwSearchTypeOK'
<1>1. RomBits \in Nat /\ bitidx \in 0..(RomBits - 1) /\ OwSearchTypeOK
  BY SchBit, OwSearchAssumption
<1>2. CASE Give(schFound)
  BY <1>2 DEF Give, OwSearchTypeOK
<1>3. CASE ~Give(schFound)
  <2>1. /\ rc' \in Roms /\ selected' = {s \in selected : s[bitidx] = Written(res)}
        /\ lastZero' = (IF Zero(res) THEN bitidx ELSE lastZero)
        /\ bitidx' = bitidx + 1 /\ schSt' = schSt /\ lastBranch' = lastBranch /\ schFound' = schFound
    BY <1>3, SchBit
  <2>2. bitidx + 1 \in 0..RomBits /\ bitidx \in -1..(RomBits - 1)
    BY <1>1
  <2>3. selected' \subseteq wired
    BY <1>1, <2>1 DEF OwSearchTypeOK
  <2> QED BY <1>1, <2>1, <2>2, <2>3, Zenon DEF OwSearchTypeOK
<1> QED BY <1>2, <1>3

(* Those left are those that agree with one bit more.                       *)
LEMMA SchSelected ==
  ASSUME SInv, schSt = "bits", bitidx \in 0..(RomBits - 1), NEW v \in {0, 1}, rc' = Put(rc, bitidx, v), wired' = wired,
         bitidx' = bitidx + 1, selected' = {s \in selected : s[bitidx] = v}
  PROVE  /\ selected' = {s \in wired : Agree(s, rc', bitidx')}
         /\ \A s : Agree(s, rc, bitidx) => Agree(s, rc', bitidx' - 1)
<1>1. rc \in Roms /\ selected = {s \in wired : Agree(s, rc, bitidx)} /\ bitidx' - 1 = bitidx /\ bitidx \in 0..bitidx
  BY DEF SInv, OwSearchTypeOK, InPass
<1>2. \A s : Agree(s, rc', bitidx + 1) <=> Agree(s, rc, bitidx) /\ s[bitidx] = v
  BY <1>1, Rewritten
<1>3. \A s : Agree(s, rc', bitidx) <=> Agree(s, rc, bitidx)
  BY <1>1, Rewritten
<1> QED BY <1>1, <1>2, <1>3

(* A triplet that is misread: the search is noisy from then on.             *)
LEMMA SchMisreadKeeps ==
  ASSUME SInv, NEW res \in 0..3, Misread(res)
  PROVE  SInv'
<1>1. /\ schSt = "bits" /\ bitidx < RomBits /\ misread < Misreads /\ SearchBit(res) /\ misread' = misread + 1
      /\ noisy' /\ noisy' \in BOOLEAN /\ wired' = wired /\ OwSearchTypeOK /\ Misreads \in {0, 1} /\ misread \in 0..Misreads
  BY OwSearchAssumption DEF Misread, SInv, OwSearchTypeOK
<1>2. misread = 0 /\ Misreads = 1 /\ misread' = 1
  BY <1>1
<1>3. OwSearchTypeOK'
  <2>1. misread' \in 0..Misreads
    BY <1>2
  <2> QED BY <1>1, <2>1, SchBitTypes
<1>4. schFound' = schFound /\ NoneInvented' /\ Counted'
  <2>1. schFound' = schFound
    BY <1>1, SchBit DEF Give
  <2> QED BY <1>1, <2>1 DEF SInv, NoneInvented, Counted
<1>5. InPass' /\ Started'
  <2>1. CASE Give(schFound)
    BY <2>1 DEF Give, InPass, Started
  <2>2. CASE ~Give(schFound)
    <3>1. /\ rc' = Put(rc, bitidx, Written(res)) /\ selected' = {s \in selected : s[bitidx] = Written(res)} /\ bitidx' = bitidx + 1 /\ schSt' = schSt
          /\ bitidx \in 0..(RomBits - 1) /\ Written(res) \in {0, 1}
      BY <1>1, <2>2, SchBit
    <3>2. /\ selected' = {s \in wired : Agree(s, rc', bitidx')}
          /\ \A s : Agree(s, rc, bitidx) => Agree(s, rc', bitidx' - 1)
      BY <1>1, <3>1, SchSelected
    <3>3. \E s \in wired : Agree(s, rc, bitidx)
      <4>1. selected # {} /\ selected = {s \in wired : Agree(s, rc, bitidx)}
        BY <1>1, <1>2 DEF SInv, InPass
      <4> QED BY <4>1
    <3>4. bitidx' # 0
      BY <3>1
    <3> QED BY <1>1, <1>2, <3>1, <3>2, <3>3, <3>4 DEF InPass, Started
  <2> QED BY <2>1, <2>2
<1> QED BY <1>1, <1>3, <1>4, <1>5 DEF SInv, Progress

(* Without a fault a triplet writes a bit some of those that take part have,*)
(* and goes by a fork exactly if it says so.                                *)
LEMMA SchHeard ==
  ASSUME SInv, ReadTriplet
  PROVE  /\ schSt = "bits" /\ bitidx \in 0..(RomBits - 1) /\ Heard(bitidx) \in 0..3 /\ SearchBit(Heard(bitidx))
         /\ wired' = wired /\ misread' = misread /\ noisy' = noisy /\ OwSearchTypeOK
         /\ selected = {s \in wired : Agree(s, rc, bitidx)}
         /\ Heard(bitidx) = 0 <=> (\E s \in selected : s[bitidx] = 0) /\ (\E s \in selected : s[bitidx] = 1)
         /\ Heard(bitidx) = 1 <=> selected # {} /\ \A s \in selected : s[bitidx] = 1
         /\ Heard(bitidx) = 2 <=> selected # {} /\ \A s \in selected : s[bitidx] = 0
         /\ Heard(bitidx) = 3 <=> selected = {}
<1>1. /\ schSt = "bits" /\ bitidx < RomBits /\ SearchBit(Heard(bitidx)) /\ wired' = wired /\ misread' = misread /\ noisy' = noisy
      /\ OwSearchTypeOK /\ selected = {s \in wired : Agree(s, rc, bitidx)}
  BY DEF ReadTriplet, SInv, InPass
<1>2. bitidx \in 0..(RomBits - 1)
  BY <1>1, OwSearchAssumption DEF OwSearchTypeOK
<1>3. \A s \in selected : s[bitidx] \in {0, 1}
  BY <1>1, <1>2, OwSearchAssumption DEF OwSearchTypeOK, Roms
<1> QED BY <1>1, <1>2, <1>3, HeardIs

(* A triplet that is read: the search goes the way of the least code not    *)
(* found yet.                                                               *)
LEMMA SchReadProgress ==
  ASSUME SInv, ReadTriplet
  PROVE  Progress'
<1> DEFINE res == Heard(bitidx)
           k == bitidx
<1>1. /\ schSt = "bits" /\ k \in 0..(RomBits - 1) /\ res \in 0..3 /\ SearchBit(res)
      /\ wired' = wired /\ noisy' = noisy /\ OwSearchTypeOK
      /\ selected = {s \in wired : Agree(s, rc, k)}
      /\ res = 0 <=> (\E s \in selected : s[k] = 0) /\ (\E s \in selected : s[k] = 1)
      /\ res = 1 <=> selected # {} /\ \A s \in selected : s[k] = 1
      /\ res = 2 <=> selected # {} /\ \A s \in selected : s[k] = 0
      /\ res = 3 <=> selected = {}
  BY SchHeard
<1>2. /\ RomBits \in Nat \ {0} /\ k \in Nat /\ k < RomBits /\ rc \in Roms /\ wired \in SUBSET Roms /\ lastBranch \in -1..(RomBits - 1)
      /\ \A s \in wired : s[k] \in {0, 1}
  BY <1>1, OwSearchAssumption DEF OwSearchTypeOK, Roms
<1>3. /\ Written(res) \in {0, 1}
      /\ \/ Give(schFound) /\ (~Expected(res) \/ res = 3)
         \/ /\ Expected(res) /\ res # 3
            /\ rc' = Put(rc, k, Written(res)) /\ rc' \in Roms
            /\ lastZero' = (IF Zero(res) THEN k ELSE lastZero)
            /\ k' = k + 1 /\ schSt' = schSt /\ lastBranch' = lastBranch /\ schFound' = schFound
  BY <1>1, <1>2, SchBit
<1> SUFFICES ASSUME ~noisy PROVE Progress'
  BY <1>1 DEF Progress
<1>4. LastFork(wired, rc, k, lastZero) /\ selected # {} /\ (k <= lastBranch => Walked)
      /\ (k > lastBranch => Range(schFound) = {s \in wired : Before(s, rc, k)})
  BY <1>1, <1>2 DEF SInv, Progress, InPass
<1> HIDE DEF res, k
<1>5. Direction <=> k = lastBranch \/ (k < lastBranch /\ rc[k] = 1)
  BY DEF Direction, k
<1>6. Forks(wired, Put(rc, k, Written(res)), k) <=> Written(res) = 0 /\ \E s \in selected : s[k] = 1
  <2>1. Forks(wired, Put(rc, k, Written(res)), k) <=> Written(res) = 0 /\ \E s \in wired : Agree(s, rc, k) /\ s[k] = 1
    <3>1. rc \in Roms /\ k \in 0..(RomBits - 1) /\ Written(res) \in {0, 1}
      BY <1>1, <1>2, <1>3
    <3> QED BY <3>1, Rewritten
  <2> QED BY <1>1, <2>1
<1>7. LastFork(wired, Put(rc, k, Written(res)), k + 1, IF Forks(wired, Put(rc, k, Written(res)), k) THEN k ELSE lastZero)
  BY <1>1, <1>2, <1>3, <1>4, ForkWritten, Zenon
<1>8. ASSUME Expected(res), Zero(res) <=> Forks(wired, Put(rc, k, Written(res)), k)
      PROVE  /\ schSt' = "bits" /\ rc' = Put(rc, k, Written(res)) /\ LastFork(wired', rc', k', lastZero')
             /\ k' = k + 1 /\ lastBranch' = lastBranch /\ schFound' = schFound
  <2>1. res # 3
    BY <1>1, <1>4
  <2>2. /\ rc' = Put(rc, k, Written(res)) /\ lastZero' = (IF Zero(res) THEN k ELSE lastZero)
        /\ k' = k + 1 /\ schSt' = schSt /\ lastBranch' = lastBranch /\ schFound' = schFound
    BY <1>3, <1>8, <2>1
  <2> QED BY <1>1, <1>7, <1>8, <2>2, Zenon
<1>9. CASE k < lastBranch
  <2>1. rc \in wired /\ Walked /\ rc[k] \in {0, 1} /\ rc \in selected
    <3>1. Walked /\ rc \in wired /\ Agree(rc, rc, k)
      BY <1>4, <1>2, <1>9 DEF Walked, Agree
    <3> QED BY <1>1, <1>2, <3>1
  <2>2. Written(res) = rc[k]
    BY <1>1, <1>2, <1>5, <1>9, <2>1 DEF Written
  <2>3. Put(rc, k, Written(res)) = rc
    BY <1>2, <2>2 DEF Put, Roms
  <2>4. Expected(res)
    BY <1>2, <1>9 DEF Expected, k
  <2>5. Zero(res) <=> Forks(wired, Put(rc, k, Written(res)), k)
    BY <1>1, <1>2, <1>5, <1>6, <1>9, <2>1, <2>2 DEF Zero
  <2>6. /\ schSt' = "bits" /\ rc' = rc /\ LastFork(wired', rc', k', lastZero')
        /\ k' = k + 1 /\ lastBranch' = lastBranch /\ schFound' = schFound
    BY <1>8, <2>3, <2>4, <2>5
  <2>7. k + 1 <= lastBranch
    BY <1>2, <1>9
  <2>8. Walked'
    BY <1>1, <2>1, <2>6, Zenon DEF Walked
  <2> QED BY <2>6, <2>7, <2>8, Zenon DEF Progress, k
<1>10. CASE k = lastBranch
  <2>1. Walked /\ Forks(wired, rc, k) /\ rc \in wired
    <3>1. Walked
      BY <1>2, <1>4, <1>10
    <3>2. LastFork(wired, rc, RomBits, k) /\ rc \in wired
      BY <1>10, <3>1 DEF Walked
    <3>3. k # -1
      BY <1>2
    <3> QED BY <3>1, <3>2, <3>3, Zenon DEF LastFork
  <2>2. res = 0
    <3>1. rc \in selected /\ rc[k] = 0
      BY <1>1, <1>2, <2>1 DEF Forks, Agree
    <3>2. \E s \in selected : s[k] = 1
      BY <1>1, <2>1 DEF Forks
    <3> QED BY <1>1, <3>1, <3>2
  <2>3. Written(res) = 1 /\ Expected(res) /\ ~Zero(res)
    BY <1>5, <1>10, <2>2 DEF Written, Expected, Zero
  <2>4. /\ schSt' = "bits" /\ rc' = Put(rc, k, 1) /\ LastFork(wired', rc', k', lastZero')
        /\ k' = k + 1 /\ lastBranch' = lastBranch /\ schFound' = schFound
    BY <1>6, <1>8, <2>3
  <2>5. \A s \in wired : Before(s, rc, RomBits) \/ s = rc <=> Before(s, rc', k + 1)
    <3>1. LastFork(wired, rc, RomBits, k)
      BY <1>10, <2>1 DEF Walked
    <3> QED BY <1>1, <1>2, <2>1, <2>4, <3>1, AtBranch
  <2>6. Range(schFound') = {s \in wired' : Before(s, rc', k')}
    <3>1. Range(schFound) = {s \in wired : Before(s, rc, RomBits) \/ s = rc}
      BY <2>1 DEF Walked
    <3> QED BY <1>1, <2>4, <2>5, <3>1
  <2>7. ~(k' <= lastBranch')
    BY <1>2, <1>10, <2>4
  <2> QED BY <2>4, <2>6, <2>7, Zenon DEF Progress, k
<1>11. CASE k > lastBranch
  <2>1. ~Direction
    BY <1>2, <1>5, <1>11
  <2>2. Expected(res) /\ (Zero(res) <=> res = 0) /\ (Written(res) = 1 <=> res = 1)
    BY <1>2, <1>11, <2>1 DEF Expected, Zero, Written, k
  <2>3. Zero(res) <=> Forks(wired, Put(rc, k, Written(res)), k)
    BY <1>1, <1>3, <1>4, <1>6, <2>2
  <2>4. /\ schSt' = "bits" /\ rc' = Put(rc, k, Written(res)) /\ LastFork(wired', rc', k', lastZero')
        /\ k' = k + 1 /\ lastBranch' = lastBranch /\ schFound' = schFound
    BY <1>8, <2>2, <2>3
  <2>5. \A s \in wired : Before(s, rc, k) <=> Before(s, rc', k + 1)
    <3>1. \A s : Before(s, rc', k + 1) <=> Before(s, rc, k) \/ (Agree(s, rc, k) /\ s[k] = 0 /\ Written(res) = 1)
      <4>1. rc \in Roms /\ k \in 0..(RomBits - 1) /\ Written(res) \in {0, 1}
        BY <1>1, <1>2, <1>3
      <4>2. \A s : Before(s, Put(rc, k, Written(res)), k + 1) <=> Before(s, rc, k) \/ (Agree(s, rc, k) /\ s[k] = 0 /\ Written(res) = 1)
        BY <4>1, Rewritten
      <4> QED BY <2>4, <4>2, Zenon
    <3>2. ASSUME NEW s \in wired, Agree(s, rc, k), s[k] = 0, Written(res) = 1 PROVE FALSE
      BY <1>1, <2>2, <3>2
    <3> QED BY <3>1, <3>2
  <2>6. Range(schFound') = {s \in wired' : Before(s, rc', k')}
    <3>1. Range(schFound) = {s \in wired : Before(s, rc, k)}
      BY <1>4, <1>11
    <3> QED BY <1>1, <2>4, <2>5, <3>1
  <2>7. ~(k' <= lastBranch')
    BY <1>2, <1>11, <2>4
  <2> QED BY <2>4, <2>6, <2>7, Zenon DEF Progress, k
<1> QED BY <1>2, <1>9, <1>10, <1>11

(* A triplet that is read.                                                  *)
LEMMA SchReadKeeps ==
  ASSUME SInv, ReadTriplet
  PROVE  SInv'
<1> DEFINE res == Heard(bitidx)
<1>1. /\ schSt = "bits" /\ bitidx \in 0..(RomBits - 1) /\ res \in 0..3 /\ SearchBit(res) /\ wired' = wired /\ misread' = misread /\ noisy' = noisy
      /\ OwSearchTypeOK /\ bitidx < RomBits /\ misread' \in 0..Misreads /\ noisy' \in BOOLEAN
      /\ res = 0 <=> (\E s \in selected : s[bitidx] = 0) /\ (\E s \in selected : s[bitidx] = 1)
      /\ res = 1 <=> selected # {} /\ \A s \in selected : s[bitidx] = 1
      /\ res = 2 <=> selected # {} /\ \A s \in selected : s[bitidx] = 0
      /\ res = 3 <=> selected = {}
  BY SchHeard DEF ReadTriplet, OwSearchTypeOK
<1> HIDE DEF res
<1>2. OwSearchTypeOK'
  BY <1>1, SchBitTypes
<1>3. schFound' = schFound /\ NoneInvented' /\ Counted'
  <2>1. schFound' = schFound
    BY <1>1, SchBit DEF Give
  <2> QED BY <1>1, <2>1 DEF SInv, NoneInvented, Counted
<1>4. InPass' /\ Started'
  <2>1. CASE Give(schFound)
    BY <2>1 DEF Give, InPass, Started
  <2>2. CASE ~Give(schFound)
    <3>1. /\ rc' = Put(rc, bitidx, Written(res)) /\ selected' = {s \in selected : s[bitidx] = Written(res)} /\ bitidx' = bitidx + 1 /\ schSt' = schSt
          /\ Written(res) \in {0, 1} /\ res # 3
      BY <1>1, <2>2, SchBit
    <3>2. selected' = {s \in wired : Agree(s, rc', bitidx')}
      BY <1>1, <3>1, SchSelected
    <3>3. \E s \in selected : s[bitidx] = Written(res)
      BY <1>1, <3>1 DEF Written
    <3> QED BY <1>1, <3>1, <3>2, <3>3 DEF InPass, Started
  <2> QED BY <2>1, <2>2
<1>5. Progress'
  BY SchReadProgress
<1> QED BY <1>2, <1>3, <1>4, <1>5 DEF SInv

(* A pass begins with all sensors.                                          *)
LEMMA SchStartKeeps ==
  ASSUME SInv, NEW ok \in BOOLEAN, StartPass(ok)
  PROVE  SInv'
<1>1. /\ schSt = "pass" /\ noisy' = (noisy \/ ~ok) /\ wired' = wired /\ rc' = rc /\ lastBranch' = lastBranch /\ schFound' = schFound /\ misread' = misread
      /\ OwSearchTypeOK /\ RomBits \in Nat \ {0} /\ lastBranch \in -1..(RomBits - 1)
  BY OwSearchAssumption DEF StartPass, SInv, OwSearchTypeOK
<1>2. NoneInvented' /\ Counted'
  BY <1>1 DEF SInv, NoneInvented, Counted
<1>3. noisy' \in BOOLEAN
  BY <1>1 DEF OwSearchTypeOK
<1>4. CASE ok /\ wired # {}
  <2>1. schSt' = "bits" /\ selected' = wired /\ bitidx' = 0 /\ lastZero' = -1
    BY <1>4 DEF StartPass
  <2>2. OwSearchTypeOK'
    <3>1. 0 \in 0..RomBits /\ -1 \in -1..(RomBits - 1)
      BY <1>1
    <3> QED BY <1>1, <1>3, <2>1, <3>1 DEF OwSearchTypeOK
  <2>3. InPass' /\ Started'
    <3>1. \A s : Agree(s, rc, 0)
      BY DEF Agree
    <3> QED BY <1>1, <1>4, <2>1, <3>1 DEF InPass, Started
  <2>4. Progress'
    <3>1. SUFFICES ASSUME ~noisy PROVE Progress'
      BY <1>1 DEF Progress
    <3>2. LastFork(wired', rc', bitidx', lastZero')
      BY <2>1 DEF LastFork
    <3>3. CASE lastBranch = -1
      <4>1. schFound = <<>> /\ ~(bitidx' <= lastBranch')
        BY <1>1, <2>1, <3>1, <3>3 DEF SInv, Progress
      <4>2. \A s : ~Before(s, rc, 0)
        BY DEF Before
      <4>3. Range(schFound') = {s \in wired' : Before(s, rc', bitidx')}
        BY <1>1, <2>1, <4>1, <4>2, RangeEmpty
      <4> QED BY <2>1, <3>2, <4>1, <4>3, Zenon DEF Progress
    <3>4. CASE lastBranch # -1
      <4>1. Walked /\ bitidx' <= lastBranch'
        BY <1>1, <2>1, <3>1, <3>4 DEF SInv, Progress
      <4>2. Walked'
        BY <1>1, <4>1, Zenon DEF Walked
      <4> QED BY <2>1, <3>2, <4>1, <4>2, Zenon DEF Progress
    <3> QED BY <3>3, <3>4
  <2> QED BY <1>2, <2>2, <2>3, <2>4 DEF SInv
<1>5. CASE ~(ok /\ wired # {})
  <2>1. schSt' = "compare" /\ selected' = selected /\ bitidx' = bitidx /\ lastZero' = lastZero
    BY <1>5 DEF StartPass
  <2>2. OwSearchTypeOK'
    BY <1>1, <1>3, <2>1 DEF OwSearchTypeOK
  <2>3. InPass' /\ Started'
    BY <2>1 DEF InPass, Started
  <2>4. Progress'
    <3>1. SUFFICES ASSUME ~noisy, ok PROVE Progress'
      BY <1>1 DEF Progress
    <3>2. wired = {} /\ lastBranch = -1 /\ schFound = <<>>
      BY <1>1, <1>5, <3>1 DEF SInv, Progress, Walked
    <3> QED BY <1>1, <2>1, <3>2, RangeEmpty DEF Progress
  <2> QED BY <1>2, <2>2, <2>3, <2>4 DEF SInv
<1> QED BY <1>4, <1>5

(* The code of a pass that ends is one of the sensors', if its CRC is right.*)
LEMMA SchPassFound ==
  ASSUME SInv, EndPass
  PROVE  /\ rc \in Valid => rc \in wired
         /\ ~noisy => rc \in wired
<1>1. /\ schSt = "bits" /\ bitidx = RomBits /\ OwSearchTypeOK /\ RomBits \in Nat \ {0}
      /\ selected = {s \in wired : Agree(s, rc, RomBits)}
      /\ selected = {} => noisy /\ \E s \in wired : Agree(s, rc, RomBits - 1)
  BY OwSearchAssumption DEF EndPass, SInv, InPass
<1>2. rc \in Roms /\ wired \subseteq Valid /\ Valid \subseteq Roms
  BY <1>1, OwSearchAssumption DEF OwSearchTypeOK
<1>3. CASE selected # {}
  <2>1. PICK s \in wired : Agree(s, rc, RomBits)
    BY <1>1, <1>3
  <2>2. s \in Roms
    BY <1>2
  <2>3. s = rc
    <3>1. s = [i \in 0..(RomBits - 1) |-> s[i]] /\ rc = [i \in 0..(RomBits - 1) |-> rc[i]]
      BY <1>2, <2>2 DEF Roms
    <3>2. \A i \in 0..(RomBits - 1) : s[i] = rc[i]
      BY <2>1 DEF Agree
    <3> QED BY <3>1, <3>2, Zenon
  <2> QED BY <2>3
<1>4. CASE selected = {}
  <2>1. PICK s \in wired : Agree(s, rc, RomBits - 1)
    BY <1>1, <1>4
  <2>2. ASSUME rc \in Valid, rc # s PROVE FALSE
    <3>1. s \in Valid
      BY <1>2
    <3>2. PICK i, j \in DOMAIN s : i # j /\ s[i] # rc[i] /\ s[j] # rc[j]
      BY <2>2, <3>1, OwSearchAssumption
    <3>3. i \in 0..(RomBits - 1) /\ j \in 0..(RomBits - 1)
      BY <1>2, <3>1 DEF Roms
    <3>4. \A n \in 0..((RomBits - 1) - 1) : s[n] = rc[n]
      BY <2>1 DEF Agree
    <3> QED BY <1>1, <3>2, <3>3, <3>4
  <2> QED BY <1>1, <1>4, <2>2
<1> QED BY <1>3, <1>4

(* A pass ends at a sensor, and the next begins at the last fork, or there  *)
(* is none.                                                                 *)
LEMMA SchEndKeeps ==
  ASSUME SInv, EndPass
  PROVE  SInv'
<1>1. /\ schSt = "bits" /\ bitidx = RomBits /\ lastBranch' = lastZero /\ schSt' = (IF lastZero >= 0 THEN "pass" ELSE "compare")
      /\ schFound' = (IF rc \in Valid THEN Append(schFound, rc) ELSE schFound)
      /\ wired' = wired /\ selected' = selected /\ rc' = rc /\ bitidx' = bitidx /\ lastZero' = lastZero /\ misread' = misread /\ noisy' = noisy
      /\ OwSearchTypeOK /\ schFound \in Seq(Valid) /\ NoneInvented /\ Counted /\ RomBits \in Nat \ {0}
      /\ lastZero \in -1..(RomBits - 1) /\ lastBranch \in -1..(RomBits - 1) /\ wired \subseteq Valid /\ Valid \subseteq Roms
  BY OwSearchAssumption DEF EndPass, Checked, SInv, OwSearchTypeOK
<1>2. OwSearchTypeOK'
  <2>1. schFound' \in Seq(Valid)
    BY <1>1
  <2>2. schSt' \in {"pass", "bits", "compare", "started", "thrown"}
    BY <1>1
  <2> QED BY <1>1, <2>1, <2>2, Zenon DEF OwSearchTypeOK
<1>3. rc \in Valid => Range(schFound') = Range(schFound) \cup {rc} /\ Len(schFound') = Len(schFound) + 1
  BY <1>1, RangeGrows, AppendProperties
<1>4. NoneInvented'
  <2>1. CASE rc \in Valid
    <3>1. rc \in wired
      BY <2>1, SchPassFound
    <3> QED BY <1>1, <1>3, <2>1, <3>1 DEF NoneInvented
  <2>2. CASE rc \notin Valid
    BY <1>1, <2>2 DEF NoneInvented
  <2> QED BY <2>1, <2>2
<1>5. schSt' \notin {"bits", "started"}
  BY <1>1
<1>6. ASSUME ~noisy
      PROVE  rc \in wired /\ rc \in Valid /\ Range(schFound) = {s \in wired : Before(s, rc, RomBits)} /\ LastFork(wired, rc, RomBits, lastZero)
  <2>1. rc \in wired /\ rc \in Valid
    BY <1>1, <1>6, SchPassFound
  <2>2. ~(bitidx <= lastBranch)
    BY <1>1
  <2> QED BY <1>1, <1>6, <2>1, <2>2, Zenon DEF SInv, Progress
<1>7. Counted'
  <2>1. IsFiniteSet(Range(schFound)) /\ (~noisy => Cardinality(Range(schFound)) = Len(schFound))
    BY <1>1 DEF Counted
  <2>2. IsFiniteSet(Range(schFound) \cup {rc})
    BY <2>1, FS_AddElement
  <2>3. IsFiniteSet(Range(schFound'))
    BY <1>1, <1>3, <2>1, <2>2
  <2>4. ASSUME ~noisy PROVE Cardinality(Range(schFound')) = Len(schFound')
    <3>1. rc \notin Range(schFound)
      <4>1. ~Before(rc, rc, RomBits)
        BY DEF Before
      <4> QED BY <1>6, <2>4, <4>1
    <3>2. Cardinality(Range(schFound) \cup {rc}) = Cardinality(Range(schFound)) + 1
      BY <2>1, <3>1, FS_AddElement
    <3> QED BY <1>3, <1>6, <2>1, <2>4, <3>2
  <2> QED BY <1>1, <2>3, <2>4 DEF Counted
<1>8. Progress'
  <2>1. SUFFICES ASSUME ~noisy PROVE Progress'
    BY <1>1 DEF Progress
  <2>2. Range(schFound') = {s \in wired : Before(s, rc, RomBits) \/ s = rc}
    BY <1>3, <1>6, <2>1
  <2>3. CASE lastZero = -1
    <3>1. \A s \in wired : Before(s, rc, RomBits) \/ s = rc
      <4>1. wired \in SUBSET Roms /\ rc \in wired /\ LastFork(wired, rc, RomBits, -1)
        BY <1>1, <1>6, <2>1, <2>3
      <4> QED BY <4>1, NoForkLeft
    <3>2. schSt' = "compare" /\ Range(schFound') = wired'
      BY <1>1, <2>2, <2>3, <3>1
    <3> QED BY <3>2 DEF Progress
  <2>4. CASE lastZero # -1
    <3>1. schSt' = "pass" /\ lastBranch' # -1
      BY <1>1, <2>4
    <3>2. Walked'
      BY <1>1, <1>6, <2>1, <2>2, Zenon DEF Walked
    <3> QED BY <3>1, <3>2 DEF Progress
  <2> QED BY <2>3, <2>4
<1> QED BY <1>2, <1>4, <1>5, <1>7, <1>8 DEF SInv, InPass, Started

(* The comparison at the end and a new search.                              *)
LEMMA SchOthersKeep ==
  ASSUME SInv, Compare \/ SearchAgain \/ UNCHANGED searchVars
  PROVE  SInv'
<1>1. CASE Compare
  <2>1. /\ schSt = "compare" /\ schSt' = (IF IsInjective(schFound) /\ Match(schFound) THEN "started" ELSE "thrown")
        /\ wired' = wired /\ selected' = selected /\ rc' = rc /\ bitidx' = bitidx /\ lastZero' = lastZero /\ misread' = misread /\ noisy' = noisy
        /\ lastBranch' = lastBranch /\ schFound' = schFound
    BY <1>1 DEF Compare
  <2>2. Match(schFound)' <=> Match(schFound)
    BY <2>1 DEF Match
  <2>3. schSt' \in {"started", "thrown"} /\ Started'
    BY <2>1, <2>2 DEF Started
  <2> QED BY <2>1, <2>3 DEF SInv, OwSearchTypeOK, InPass, NoneInvented, Counted, Progress
<1>2. CASE SearchAgain
  <2>1. /\ schSt' = "pass" /\ rc' \in Roms /\ lastBranch' = -1 /\ schFound' = <<>> /\ misread' = 0 /\ noisy' = FALSE
        /\ wired' = wired /\ selected' = selected /\ bitidx' = bitidx /\ lastZero' = lastZero
    BY <1>2 DEF SearchAgain, SearchFrom
  <2>2. OwSearchTypeOK'
    <3>1. -1 \in -1..(RomBits - 1) /\ 0 \in 0..Misreads /\ <<>> \in Seq(Valid)
      BY OwSearchAssumption
    <3> QED BY <2>1, <3>1 DEF SInv, OwSearchTypeOK
  <2>3. Range(schFound') = {} /\ Len(schFound') = 0
    BY <2>1, RangeEmpty
  <2> QED BY <2>1, <2>2, <2>3, FS_EmptySet DEF SInv, InPass, NoneInvented, Counted, Progress, Started
<1>3. CASE UNCHANGED searchVars
  <2>1. /\ wired' = wired /\ selected' = selected /\ rc' = rc /\ bitidx' = bitidx /\ lastZero' = lastZero /\ misread' = misread /\ noisy' = noisy
        /\ lastBranch' = lastBranch /\ schFound' = schFound /\ schSt' = schSt
    BY <1>3 DEF searchVars
  <2> QED BY <2>1, Zenon DEF SInv, OwSearchTypeOK, InPass, NoneInvented, Counted, Progress, Walked, Started, Match
<1> QED BY <1>1, <1>2, <1>3

(* Every step of the search keeps the invariant.                            *)
LEMMA SchNextSInv ==
  ASSUME SInv, [OwSearchNext]_searchVars
  PROVE  SInv'
BY SchStartKeeps, SchReadKeeps, SchMisreadKeeps, SchEndKeeps, SchOthersKeep, Zenon DEF OwSearchNext, OwSearchStep, Unheard

(* The invariant holds what the search promises.                            *)
LEMMA SchSInvImplies == SInv => SearchTrue
<1> SUFFICES ASSUME SInv PROVE SearchTrue
  OBVIOUS
<1>1. FindsAll
  BY Zenon DEF SInv, Counted, Progress, FindsAll
<1>2. StartsComplete
  BY DEF SInv, NoneInvented, Started, StartsComplete, Match
<1> QED BY <1>1, <1>2 DEF SInv, SearchTrue

-----------------------------------------------------------------------------
(* The composition.                                                         *)

(* All parts of the PRU.                                                    *)
PruIInv == TypeOK /\ SInv /\ PInv /\ OtIInv

(* Each part moves by its own steps, or not at all.                         *)
LEMMA PartsByThemselves ==
  [MCNext]_pruVars =>
    [Next]_vars /\ [OwSearchNext]_searchVars /\ [PruOwNext]_pruOwVars /\ [OtNext]_otVars
<1> SUFFICES ASSUME [MCNext]_pruVars
             PROVE  [Next]_vars /\ [OwSearchNext]_searchVars /\ [PruOwNext]_pruOwVars /\ [OtNext]_otVars
  OBVIOUS
<1>1. CASE Meas(Next)
  BY <1>1, Zenon DEF Meas, Only
<1>2. CASE Search(OwSearchNext)
  BY <1>2, Zenon DEF Search, Only
<1>3. CASE Ow(PruOwNext)
  BY <1>3, Zenon DEF Ow, Only
<1>4. CASE Ot(OtNext)
  BY <1>4, Zenon DEF Ot, Only
<1>5. CASE UNCHANGED pruVars
  BY <1>5, Zenon DEF pruVars
<1> QED
  BY <1>1, <1>2, <1>3, <1>4, <1>5, Zenon DEF MCNext

(* The inductive invariant of the composition: that of each part.           *)
THEOREM PruInvariance == MCSpec => []PruIInv
<1>1. MCInit => PruIInv
  <2>1. Init => TypeOK
    BY OwInitQInv DEF QInv
  <2> QED
    BY <2>1, SchInitSInv, PruOwInitPInv, OtInitIInv, Zenon DEF MCInit, PruIInv
<1>2. PruIInv /\ [MCNext]_pruVars => PruIInv'
  BY PartsByThemselves, OwNextTypes, SchNextSInv, PruOwNextPInv, OtNextIInv, Zenon DEF PruIInv
<1> QED
  BY <1>1, <1>2, PTL DEF MCSpec

(* Well-typedness of daemon and firmware, for any values of the constants.  *)
THEOREM PruTypeCorrect == MCSpec => []PruTypeOK
<1>1. PruIInv => PruTypeOK
  BY Zenon DEF PruIInv, PruTypeOK, SInv, PInv, OtIInv
<1> QED
  BY <1>1, PruInvariance, PTL

(* Every temperature passed on is of the sensor it is attributed to, and of *)
(* this round unless an error was logged or an answer was late, for any     *)
(* number of sensors, as long as the reader thread is at most four answers  *)
(* behind when the client gives up (MeranieTeploty::meas, PruRxMsg::wait).  *)
THEOREM RoundsAreTrue == MaxLate <= 4 => (MCSpec => []RoundsTrue)
<1> SUFFICES ASSUME MaxLate <= 4 PROVE MCSpec => []RoundsTrue
  OBVIOUS
<1>1. MCInit => RInv
  BY OwInitRInv, Zenon DEF MCInit
<1>2. RInv /\ [MCNext]_pruVars => RInv'
  BY PartsByThemselves, OwNextRInv, Zenon
<1>3. RInv => RoundsTrue
  BY OwRInvImplies
<1> QED
  BY <1>1, <1>2, <1>3, PTL DEF MCSpec

(* A search without a fault finds every sensor once, none that is not       *)
(* wired, and the daemon only starts with its own sensors, for codes of any *)
(* length and any set of sensors (OneWireSearch, MeranieTeploty).           *)
THEOREM SearchIsTrue == MCSpec => []SearchTrue
<1>1. PruIInv => SearchTrue
  BY SchSInvImplies DEF PruIInv
<1> QED
  BY <1>1, PruInvariance, PTL

(* Whatever is asked of the firmware, and whatever becomes of the wires: an *)
(* operation nobody took over does what it was told to, once, and leaves    *)
(* the wire fit for the next; a request goes out as asked and is answered   *)
(* once (ow_sm.c, opentherm_sm.c, main.c), for operations and frames of any *)
(* length and any durations in the assumed order.                           *)
THEOREM PruIsSound == MCSpec => []PruSound
<1>1. PruIInv => PruSound
  BY Zenon DEF PruIInv, PruSound, PInv, OtIInv, RequestsSound
<1> QED
  BY <1>1, PruInvariance, PTL

(* A frame the machine has waited for is read right however much of the     *)
(* tolerated jitter its bits have, and over a quiet line nothing else is    *)
(* taken for one, also not the rest of a frame it came too late for, for    *)
(* frames of any length (ot_sm_do in opentherm_sm.c).                       *)
THEOREM FramesAreSound == MCSpec => FramesSound
<1>1. MCInit => FrameInv
  BY OtInitFollows, Zenon DEF MCInit
<1>2. PruIInv /\ FrameInv /\ [MCNext]_pruVars => FrameInv' /\ [FrameRead]_otVars
  BY PartsByThemselves, OtNextFollows, Zenon DEF PruIInv
<1>3. [FrameRead]_otVars =>
        [otSt # "idle" /\ otSt' = "idle" =>
           /\ whole' => said' = <<"ok", reply'>>
           /\ noiseless /\ said'[1] = "ok" => said'[2] = reply]_otVars
  BY Zenon DEF FrameRead
<1> QED
  BY <1>1, <1>2, <1>3, PruInvariance, PTL DEF MCSpec, FramesSound
=============================================================================
