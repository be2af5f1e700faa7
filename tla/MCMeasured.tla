----------------------------- MODULE MCMeasured ------------------------------
(* What the house measures, one part per behaviour: a room's temperature,   *)
(* the ventilation unit's temperatures and fans, a meter and its file, the  *)
(* water meter's contact.                                                   *)
EXTENDS RoomSensor, RekuMeas, Meters

VARIABLE part
measuredVars == <<vars, measVars, tachoVars, meterVars, waterVars, part>>

MCInit ==
  /\ part \in {"sensor", "meas", "tacho", "meter", "water"}
  /\ Init /\ RekuMeasInit /\ MetersInit /\ WaterInit
  /\ part # "sensor" => wire = Invalid
  /\ part # "meas" => sample = 0 /\ voltage = [c \in Ch |-> 0]
  /\ part # "tacho" => speed = 0

Only(p, A, others) == part = p /\ A /\ UNCHANGED <<others, part>>
InSensor(A)  == Only("sensor", A, <<measVars, tachoVars, meterVars, waterVars>>)
InSamples(A) == Only("meas", A, <<vars, tachoVars, meterVars, waterVars>>)
InTacho(A)   == Only("tacho", A, <<vars, measVars, meterVars, waterVars>>)
InMeter(A)   == Only("meter", A, <<vars, measVars, tachoVars, waterVars>>)
InWater(A)   == Only("water", A, <<vars, measVars, tachoVars, meterVars>>)

MCNext == \/ InSensor(Next) \/ InSamples(RekuMeasNext) \/ InTacho(RekuTachoNext)
          \/ InMeter(MetersNext) \/ InWater(WaterNext)
MCSpec ==
  /\ MCInit /\ [][MCNext]_measuredVars
  /\ WF_measuredVars(InSensor(Sample)) /\ WF_measuredVars(InSensor(Cycle))

(* The types of all parts.                                                  *)
MeasuredTypeOK == TypeOK /\ RekuMeasTypeOK /\ MetersTypeOK /\ WaterTypeOK

(* From the wire to the trend: the heating works with good readings, with   *)
(* all of them in its ring, never with 85 degrees out of nothing, and comes *)
(* to any temperature that stays (setValue, update, add, delta).            *)
SensorSeen ==
  /\ []FollowsSensor /\ []DeltaSpansRing /\ PowerOnIsHidden
  /\ part = "sensor" => Settles
=============================================================================
