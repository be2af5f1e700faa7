----------------------------- MODULE RoomSensor -----------------------------
(***************************************************************************)
(* How a room temperature gets from its sensor to the heating: ow::Sensor  *)
(* and SimpleSensor on the measuring side, HW::CurT behind its Changed     *)
(* event, and the ring of the last three minutes in Kurenie::CurT.         *)
(* Temperatures are the sensors' sixteenths of a degree.                   *)
(***************************************************************************)
EXTENDS Integers, Sequences

CONSTANTS
  Raws,     \* what the sensor may deliver
  Invalid,  \* ow::cInvalidValue: the sensor was not read
  NaN,
  Cnt       \* cnt, readings in the ring

PowerOn == 85 * 16   \* what the sensor holds before its first conversion
Mild    == 25 * 16

ASSUME RoomSensorAssumption ==
  /\ Raws \subseteq Int
  /\ Invalid \notin Int /\ NaN \notin Int
  /\ Cnt \in Nat /\ Cnt > 1

Plausible == (-55 * 16)..(125 * 16)
Temps == (Raws \cap Plausible) \cup {Mild}
Slots == 0..(Cnt - 1)

VARIABLES
  wire,       \* what the sensor would deliver now
  val,        \* SimpleSensor::val
  v, enr,     \* HW::CurT
  ring, cur,  \* Kurenie::CurT: tcirbuf, curIdx
  reported,   \* Kurenie has logged the broken temperature
  \* history
  good,       \* the last sample that was accepted
  seen        \* the last Cnt readings Kurenie took

vars == <<wire, val, v, enr, ring, cur, reported, good, seen>>

(* The types; what the sensor cannot measure never becomes a value.         *)
TypeOK ==
  /\ wire \in Raws \cup {Invalid}
  /\ val \in Temps \cup {NaN}
  /\ v \in Temps \cup {NaN} /\ enr \in Nat
  /\ ring \in [Slots -> Temps] /\ cur \in Slots
  /\ reported \in BOOLEAN
  /\ good \in Temps /\ seen \in Seq(Temps) /\ Len(seen) = Cnt

Init ==
  /\ wire \in Raws \cup {Invalid}
  /\ val = NaN /\ v = Mild /\ enr = 0
  /\ ring = [i \in Slots |-> Mild] /\ cur = 0
  /\ reported = FALSE
  /\ good = Mild /\ seen = [i \in 1..Cnt |-> Mild]

-----------------------------------------------------------------------------
MutSettled == TRUE
(* abs(value() - 85) < 1, which no NaN satisfies.                           *)
Settled == val # NaN /\ val - PowerOn \in -15..15

MutReading(raw) ==    \* the range is not checked
  IF raw = Invalid \/ (raw = PowerOn /\ ~Settled) THEN NaN ELSE raw

(* ow::Sensor::setValue                                                     *)
Reading(raw) ==
  IF \/ raw = Invalid
     \/ raw = PowerOn /\ ~Settled
     \/ raw # Invalid /\ raw \notin Plausible
  THEN NaN ELSE raw

MutNotified(t) == val # NaN /\ t # val   \* a NaN hides the next value
(* SimpleSensor::update: NaN after NaN and an equal value are not passed on *)
Notified(t) == t # val

(* HW::CurT::update                                                         *)
CurTUpdate(t) ==
  IF t = NaN THEN /\ enr' = enr + 1
                  /\ v' = IF enr + 1 > 3 THEN NaN ELSE v
             ELSE enr' = 0 /\ v' = t

Sample ==
  LET t == Reading(wire) IN
  /\ val' = IF Notified(t) THEN t ELSE val
  /\ IF Notified(t) THEN CurTUpdate(t) ELSE UNCHANGED <<v, enr>>
  /\ good' = IF t = NaN THEN good ELSE t
  /\ UNCHANGED <<wire, ring, cur, reported, seen>>

MutAfter(i) == (i + 1) % (Cnt - 1)  \* one slot is never used
After(i) == (i + 1) % Cnt

(* update_t_bufs, once a cycle                                              *)
Cycle ==
  /\ IF v = NaN
       THEN reported' = TRUE /\ UNCHANGED <<ring, cur, seen>>
       ELSE /\ cur' = After(cur)
            /\ ring' = [ring EXCEPT ![cur'] = v]
            /\ seen' = Append(Tail(seen), v)
            /\ UNCHANGED reported
  /\ UNCHANGED <<wire, val, v, enr, good>>

Drift == /\ wire' \in Raws \cup {Invalid}
         /\ UNCHANGED <<val, v, enr, ring, cur, reported, good, seen>>

Next == Sample \/ Cycle \/ Drift

Spec == Init /\ [][Next]_vars

(* The measuring thread's round and the heating's cycle come again and      *)
(* again.                                                                   *)
FairSpec == Spec /\ WF_vars(Sample) /\ WF_vars(Cycle)

-----------------------------------------------------------------------------
Delta == ring[cur] - ring[After(cur)]

(* The heating works with the last sample that made sense, whatever bad or  *)
(* repeated samples lie in between.                                         *)
FollowsSensor == v = good

(* The trend the heating regulates with is that of the last Cnt readings.   *)
DeltaSpansRing == Delta = seen[Cnt] - seen[1]

(* A sensor that lost its power and delivers 85 degrees without having      *)
(* converted does not heat a room: the heating sees 85 only after a         *)
(* temperature next to it.                                                  *)
PowerOnIsHidden == [][v' = PowerOn /\ v # PowerOn => v - PowerOn \in -15..15]_vars

(* A temperature that stays is in the end what the heating sees, in the     *)
(* whole ring.                                                              *)
Sound == (Raws \cap Plausible) \ {PowerOn}
Settles ==
  \A t \in Sound : <>[](wire = t) => <>[](v = t /\ \A i \in Slots : ring[i] = t)

(* update_t_bufs logs "pokazena teplota izba" (the room's temperature is    *)
(* broken) for a sensor that fails for good.  Violated: SimpleSensor drops  *)
(* the second NaN, so CurT never counts four.                               *)
DeadSensorReported == <>[](wire = Invalid) => <>reported
=============================================================================
