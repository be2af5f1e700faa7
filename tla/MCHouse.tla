------------------------------- MODULE MCHouse -------------------------------
(* The rest of the house, one part per behaviour: the ventilation with its  *)
(* unit, the valves' slow outputs, switches and lights, the MQTT connection,*)
(* devices at the broker, and the upload to a node.                         *)
EXTENDS Reku, SlowPwm, Switches, Dimmer, MqttClient, Devices, Bootloader

VARIABLE part
houseVars == <<rekuVars, pwmVars, swVars, dimVars, mqVars, devVars, bootVars, part>>

MCInit ==
  /\ part \in {"reku", "pwm", "switch", "dim", "mqtt", "dev", "boot"}
  /\ RekuInit /\ SlowPwmInit /\ SwitchesInit /\ DimmerInit /\ MqttClientInit /\ DevicesInit
  /\ BootloaderInit
  /\ part # "reku" => flow = 100
  /\ part # "switch" => kind = "simple"
  /\ part # "dim" => adjStep = [l \in Lights |-> 1]

Only(p, A, others) == part = p /\ A /\ UNCHANGED <<others, part>>
InVentilation(A) == Only("reku", A, <<pwmVars, swVars, dimVars, mqVars, devVars, bootVars>>)
InOutputs(A)     == Only("pwm", A, <<rekuVars, swVars, dimVars, mqVars, devVars, bootVars>>)
InSwitch(A)      == Only("switch", A, <<rekuVars, pwmVars, dimVars, mqVars, devVars, bootVars>>)
InLights(A)      == Only("dim", A, <<rekuVars, pwmVars, swVars, mqVars, devVars, bootVars>>)
InClient(A)      == Only("mqtt", A, <<rekuVars, pwmVars, swVars, dimVars, devVars, bootVars>>)
InDevices(A)     == Only("dev", A, <<rekuVars, pwmVars, swVars, dimVars, mqVars, bootVars>>)
InUpload(A)      == Only("boot", A, <<rekuVars, pwmVars, swVars, dimVars, mqVars, devVars>>)

MCNext ==
  \/ InVentilation(RekuNext) \/ InOutputs(SlowPwmNext) \/ InSwitch(SwitchesNext)
  \/ InLights(DimmerNext) \/ InClient(MqttClientNext) \/ InDevices(DevicesNext)
  \/ InUpload(BootloaderNext)

(* The parts' fairness; a behaviour has one part, so one WF serves them.    *)
MCSpec ==
  /\ MCInit /\ [][MCNext]_houseVars
  /\ WF_houseVars(\/ InVentilation(RekuStep) \/ InOutputs(Worker \/ Destroyed \/ Slot)
                  \/ InLights(DimmerStep) \/ InDevices(DevStep) \/ InUpload(BootStep)
                  \/ InClient(~died /\ IoGoesOn))
  /\ WF_houseVars(InClient(~died /\ PublishGoesOn))
  /\ SF_houseVars(InClient(~died /\ WriteHandled))
  /\ SF_houseVars(InClient(~died /\ BreakRead))
  /\ SF_houseVars(InClient(~died /\ Tick))

(* The types of all parts.                                                  *)
HouseTypeOK ==
  /\ RekuTypeOK /\ SlowPwmTypeOK /\ SwitchesTypeOK
  /\ DimmerTypeOK /\ MqttClientTypeOK /\ DevicesTypeOK /\ BootloaderTypeOK

(* Once faults and commands are over, each part comes to what it is for:    *)
(* the fans run as asked, the outputs' worker has noticed the end, lights   *)
(* have arrived, the client is connected, the broker and the light agree,   *)
(* and the upload is done.                                                  *)
Disturbed ==
  CASE part = "reku" -> RekuFault \/ NewFlow
    [] part = "dim" -> DimCommand
    [] part = "mqtt" -> MqFault
    [] part = "dev" -> DevCommand \/ Disconnect \/ DaemonRestart
    [] part = "boot" -> BootFault
    [] OTHER -> FALSE
Settled ==
  CASE part = "reku" -> RekuFollows
    [] part = "pwm" -> fini => wkPc = "destroyed"
    [] part = "dim" -> Arrived
    [] part = "mqtt" -> Connected
    [] part = "dev" -> Agreed
    [] part = "boot" -> Uploaded
    [] OTHER -> TRUE
AllSettles == <>[][~Disturbed]_houseVars => <>[]Settled
=============================================================================
