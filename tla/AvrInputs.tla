------------------------------ MODULE AvrInputs ------------------------------
(***************************************************************************)
(* The digital inputs of a node (avr/fw/main.cpp: onTimer4ms096): a pin    *)
(* that differs from its process data for more than "debounce" ticks in a  *)
(* row changes them.  The counter lies in memory nobody has written: it    *)
(* starts with anything.                                                   *)
(***************************************************************************)
EXTENDS AvrMob

CONSTANTS
  Inputs,     \* the objects that are inputs
  Debounce,   \* obj.debounce
  CountMod    \* consecutive is a byte: 256

ASSUME InputAssumption ==
  /\ Inputs \subseteq Objs /\ {0, 1} \subseteq Readings
  /\ CountMod \in Nat /\ Debounce \in 0..(CountMod - 2)

VARIABLES
  pin,          \* the levels
  consecutive,  \* obj.consecutive
  even          \* history: ticks in a row each pin has differed

dinVars == <<pin, consecutive, even>>

DinTypeOK ==
  /\ pin \in [Inputs -> {0, 1}]
  /\ consecutive \in [Inputs -> 0..(CountMod - 1)]
  /\ even \in [Inputs -> 0..Debounce]

DinInit ==
  /\ pin \in [Inputs -> {0, 1}]
  /\ consecutive \in [Inputs -> 0..(CountMod - 1)]
  /\ \A i \in Inputs \ conf : pin[i] = 0 /\ consecutive[i] = 0
  /\ even = [i \in Inputs |-> Debounce]

DinReset ==
  /\ UNCHANGED pin
  /\ consecutive' \in [Inputs -> 0..(CountMod - 1)]
  /\ \A i \in Inputs \ conf : consecutive'[i] = 0
  /\ even' = [i \in Inputs |-> Debounce]

PinChanges(i) ==
  /\ pin' = [pin EXCEPT ![i] = 1 - @]
  /\ UNCHANGED <<consecutive, even, mobVars>>

Differs(i) == i \in conf /\ iodata[i] # pin[i]
Counted(i) == (consecutive[i] + 1) % CountMod
Due(i) == Differs(i) /\ Counted(i) > Debounce
MutAfter(i) == IF Due(i) THEN 0 ELSE IF Differs(i) THEN Counted(i) ELSE consecutive[i]
After(i) == IF Due(i) \/ ~Differs(i) THEN 0 ELSE Counted(i)

DinTick ==
  /\ Running
  /\ Report([o \in Objs |-> IF o \in Inputs /\ Due(o) THEN pin[o] ELSE iodata[o]])
  /\ consecutive' = [i \in Inputs |-> After(i)]
  /\ even' = [i \in Inputs |-> IF ~Differs(i) \/ Due(i) THEN 0
                               ELSE IF even[i] = Debounce THEN Debounce ELSE even[i] + 1]
  /\ UNCHANGED pin

-----------------------------------------------------------------------------
(* A level that stays is heard in the end, and no older frame is heard      *)
(* after it - unless nothing of its object has been reported since the      *)
(* start, when the level may be the one the data start with.                *)
InputReachesBus ==
  \A i \in Inputs : \A v \in {0, 1} :
    <>[](pin[i] = v /\ Running /\ stage = "running" /\ i \in conf) =>
      <>[](MobOf[i] \in unreported \/ (heard[MobOf[i]] # None /\ heard[MobOf[i]][i] = v))

(* Noise is filtered: the data follow a pin only after it has differed at   *)
(* "debounce" ticks in a row before this one.  Only the first change after  *)
(* a start may come sooner, or later, with the count the memory holds.      *)
NoiseFiltered ==
  [][\A i \in Inputs : DinTick /\ iodata'[i] # iodata[i] => even[i] = Debounce]_<<mobVars, dinVars>>
=============================================================================
