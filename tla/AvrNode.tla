------------------------------- MODULE AvrNode -------------------------------
(***************************************************************************)
(* A node: its main loop with whatever it was given - inputs, thermometers,*)
(* an SHT11 or an SCD41 - and the bus.  It may lose power at any moment.   *)
(* The parts share the process data and the marks, nothing else.           *)
(***************************************************************************)
EXTENDS AvrInputs, AvrOneWire, AvrSht11, AvrScd4x

CONSTANTS
  Prompt,    \* bound: frames that leave before anything else happens
  Unstable   \* bound: the nodes that lose power, or get commands while they run

ASSUME AvrAssumption ==
  /\ Prompt \subseteq Mobs /\ Unstable \subseteq Confs
  /\ Inputs \cap ({Therms[i] : i \in T} \cup {Sht, Scd}) = {}
  /\ {Sht, Scd} \cap {Therms[i] : i \in T} = {} /\ Sht # Scd

vars == <<mobVars, dinVars, owVars, shtVars, scdVars>>

Init == MobInit /\ DinInit /\ OwInit /\ ShtInit /\ ScdInit

AvrReset == /\ conf \in Unstable /\ prog # "init1"
            /\ MobReset /\ DinReset /\ OwReset /\ ShtReset /\ ScdReset

Configure == SetParams({Therms[i] : i \in T} \cup {Sht, Scd})

Left == Running => \A m \in Prompt : m \notin marked /\ mob[m] = None

(* The actions of each part leave the others alone.                         *)
Main == /\ \/ Bus \/ Configure
           \/ (Running => conf \in Unstable) /\ Svc
        /\ UNCHANGED <<dinVars, owVars, shtVars, scdVars>>
Din(A) == Left /\ A /\ UNCHANGED <<owVars, shtVars, scdVars>>
Ow(A)   == Left /\ A /\ UNCHANGED <<dinVars, shtVars, scdVars>>
ShtX(A) == Left /\ A /\ UNCHANGED <<dinVars, owVars, scdVars>>
ScdX(A) == Left /\ A /\ UNCHANGED <<dinVars, owVars, shtVars>>

InputsNext == Din(DinTick \/ \E i \in Inputs \cap conf : PinChanges(i))
OneWireNext == Ow(OwTick \/ OwInterrupt \/ OwElapse \/ OwService)
ShtNext == ShtX(ShtEnable \/ ShtElapse \/ SensorReady \/ \E noise \in BOOLEAN : ShtTick(noise))
ScdNext == ScdX(ScdTick \/ ScdElapse \/ ScdStart \/ ScdDisable \/ Measured \/ Brownout
                \/ \E ok \in BOOLEAN : ScdInterrupt(ok))

Next == Main \/ InputsNext \/ OneWireNext \/ ShtNext \/ ScdNext \/ AvrReset
Spec == Init /\ [][Next]_vars

(* The types of all parts.                                                  *)
TypeOK == MobTypeOK /\ DinTypeOK /\ OwTypeOK /\ ShtTypeOK /\ ScdTypeOK

(* The timer and the loop run, the interrupts come, and the bus is free now *)
(* and then.                                                                *)
FairSpec ==
  /\ Spec
  /\ \A m \in Mobs : WF_vars(Load(m) /\ UNCHANGED <<dinVars, owVars, shtVars, scdVars>>)
                  /\ WF_vars(Transmit(m) /\ UNCHANGED <<dinVars, owVars, shtVars, scdVars>>)
  /\ WF_vars(Din(DinTick))
  /\ WF_vars(Ow(OwTick)) /\ WF_vars(Ow(OwInterrupt)) /\ WF_vars(Ow(OwElapse))
  /\ WF_vars(ShtX(ShtEnable)) /\ WF_vars(ShtX(ShtElapse)) /\ WF_vars(ShtX(SensorReady))
  /\ WF_vars(ShtX(\E noise \in BOOLEAN : ShtTick(noise)))
  /\ WF_vars(ScdX(ScdTick)) /\ WF_vars(ScdX(ScdElapse)) /\ WF_vars(ScdX(scd = "disabled" /\ ScdStart))
  /\ WF_vars(ScdX(\E ok \in BOOLEAN : ScdInterrupt(ok)))

(* A value a node shows is a measurement of its own sensor, and a failure   *)
(* or a recovery shows as one (the polled machines of avr/fw/main.cpp).     *)
ValuesTrue == NotAnothersTemperature /\ PowerWhileConverting /\ FailureShown /\ RecoveringIsInvalid

(* Bounces do not come through and lasting levels do (onTimer4ms096, run).  *)
InputsHeard == NoiseFiltered /\ InputReachesBus

(* No sensor's machine stays stuck, whatever failed before (ow_sm.cpp,      *)
(* sht11_sm.cpp, scd4x_sm.cpp and the machines above them in main.cpp).     *)
SensorsRecover == OwAnswers /\ RoundsGoOn /\ ShtRecovers /\ ScdRecovers
=============================================================================
