------------------------------ MODULE Devices -------------------------------
(***************************************************************************)
(* A light (OnOffDevice) and the gate (MonoStableDev) with the broker: the *)
(* state a device publishes is retained on the topic that also commands    *)
(* it, and the client, subscribed to rb/#, hears its own publishes.  While *)
(* the link is down publishes are lost (QoS 0); a new subscription brings  *)
(* what is retained.                                                       *)
(***************************************************************************)
EXTENDS Integers, Sequences

CONSTANTS
  MaxWire,    \* messages on their way; bound of the run
  NotRetained \* a topic without retained message

ASSUME DevicesAssumption == MaxWire \in Nat \ {0} /\ NotRetained \notin BOOLEAN

VARIABLES
  light, gate,      \* the outputs, as the devices see them
  linkUp,
  toBroker, fromBroker, \* messages; live: not one the subscription brought
  retained,
  lightAsked, disturbed, \* history: what the last press did; since then something else was at work
  unkept,           \* history: the light's last word at the broker was not retained
  moved, zeroLost   \* history: the gate moved since it was last commanded; its 0 was lost

devVars == <<light, gate, linkUp, toBroker, fromBroker, retained, lightAsked, disturbed,
             unkept, moved, zeroLost>>

Topics == {"light", "gate"}
Message == [topic : Topics, on : BOOLEAN, live : BOOLEAN]
Msg(topic, on, live) == [topic |-> topic, on |-> on, live |-> live]
DevicesTypeOK ==
  /\ light \in BOOLEAN /\ gate \in BOOLEAN /\ linkUp \in BOOLEAN /\ lightAsked \in BOOLEAN
  /\ disturbed \in BOOLEAN /\ unkept \in BOOLEAN /\ moved \in BOOLEAN /\ zeroLost \in BOOLEAN
  /\ toBroker \in Seq(Message) /\ fromBroker \in Seq(Message)
  /\ retained \in [Topics -> BOOLEAN \cup {NotRetained}]

DevicesInit ==
  /\ light = FALSE /\ gate = FALSE /\ linkUp = FALSE /\ toBroker = <<>> /\ fromBroker = <<>>
  /\ retained = [t \in Topics |-> NotRetained]
  /\ lightAsked = FALSE /\ disturbed = TRUE
  /\ unkept = FALSE /\ moved = FALSE /\ zeroLost = FALSE

-----------------------------------------------------------------------------
Calm == Len(toBroker) + Len(fromBroker) < MaxWire
Publish(topic, on) == toBroker' = IF linkUp THEN Append(toBroker, Msg(topic, on, TRUE)) ELSE toBroker

(* A press changes the light; afterwards lightAsked is what it made of it.       *)
PressLight(on) ==
  /\ light' = on /\ lightAsked' = on /\ disturbed' = ~linkUp
  /\ UNCHANGED <<gate, linkUp, fromBroker, retained, unkept, moved, zeroLost>>

Toggle == Calm /\ PressLight(~light) /\ Publish("light", ~light)

(* set by a long press or by the broker, which already has it.              *)
MutSetPublishes(on, by_mqtt) == UNCHANGED toBroker
MutEchoes(on, by_mqtt) == Publish("light", on)
SetPublishes(on, by_mqtt) == IF by_mqtt THEN UNCHANGED toBroker ELSE Publish("light", on)
LongPress(on) == Calm /\ light # on /\ PressLight(on) /\ SetPublishes(on, FALSE)

(* OnMsgRecv.  trigger does nothing while the gate is on.                   *)
OnMsgRecv ==
  /\ fromBroker # <<>> /\ fromBroker' = Tail(fromBroker)
  /\ LET m == Head(fromBroker)
     IN /\ light' = IF m.topic = "light" THEN m.on ELSE light
        /\ gate' = (gate \/ (m.topic = "gate" /\ m.on))
        /\ IF m.topic = "light" /\ m.on # light THEN SetPublishes(m.on, TRUE) ELSE UNCHANGED toBroker
  /\ moved' = (moved \/ (gate' /\ ~gate))
  /\ UNCHANGED <<linkUp, retained, lightAsked, disturbed, unkept, zeroLost>>

MutReports == UNCHANGED toBroker
Reports == Publish("gate", FALSE)
GateTimer ==
  /\ gate /\ gate' = FALSE /\ Reports
  /\ zeroLost' = (zeroLost \/ ~linkUp)
  /\ UNCHANGED <<light, linkUp, fromBroker, retained, lightAsked, disturbed, unkept, moved>>

-----------------------------------------------------------------------------
(* The broker takes a message of the client, or another client's command,   *)
(* which that may have retained or not.                                     *)
Deliver(m) == fromBroker' = IF linkUp THEN Append(fromBroker, m) ELSE fromBroker
Broker ==
  /\ toBroker # <<>> /\ toBroker' = Tail(toBroker)
  /\ LET m == Head(toBroker)
     IN /\ retained' = [retained EXCEPT ![m.topic] = m.on] /\ Deliver(m)
        /\ zeroLost' = (zeroLost /\ m.topic # "gate")
        /\ unkept' = (unkept /\ m.topic # "light")
  /\ UNCHANGED <<light, gate, linkUp, lightAsked, disturbed, moved>>

Command(topic, on, retain) ==
  /\ Calm /\ Deliver(Msg(topic, on, TRUE))
  /\ retained' = IF retain THEN [retained EXCEPT ![topic] = on] ELSE retained
  /\ disturbed' = (disturbed \/ topic = "light")
  /\ unkept' = IF topic = "light" THEN ~retain ELSE unkept
  /\ moved' = (moved /\ ~(topic = "gate" /\ on /\ retain))
  /\ zeroLost' = (zeroLost /\ ~(topic = "gate" /\ on /\ retain))
  /\ UNCHANGED <<light, gate, linkUp, toBroker, lightAsked>>

(* The link breaks, or the daemon is restarted; what is on its way is lost. *)
Lost ==
  /\ linkUp' = FALSE /\ toBroker' = <<>> /\ fromBroker' = <<>> /\ disturbed' = TRUE
  /\ UNCHANGED <<retained, lightAsked, unkept, moved>>
ZeroUnderway == \E i \in DOMAIN toBroker : toBroker[i].topic = "gate"
Disconnect ==
  /\ linkUp /\ Lost /\ zeroLost' = (zeroLost \/ ZeroUnderway) /\ UNCHANGED <<light, gate>>
DaemonRestart ==
  /\ Lost /\ zeroLost' = (zeroLost \/ ZeroUnderway \/ gate) /\ light' = FALSE /\ gate' = FALSE

(* After a minute, longer than the gate stays on.                           *)
Brought(t) == IF retained[t] = NotRetained THEN <<>> ELSE <<Msg(t, retained[t], FALSE)>>
Connect ==
  /\ ~linkUp /\ ~gate /\ linkUp' = TRUE
  /\ fromBroker' = Brought("light") \o Brought("gate")
  /\ unkept' = (unkept /\ retained["light"] = NotRetained)
  /\ UNCHANGED <<light, gate, toBroker, retained, lightAsked, disturbed, moved, zeroLost>>

DevCommand == \/ Toggle \/ \E on \in BOOLEAN : LongPress(on)
              \/ \E t \in Topics, on, retain \in BOOLEAN : Command(t, on, retain)
DevStep == OnMsgRecv \/ Broker \/ GateTimer \/ Connect
DevicesNext == DevCommand \/ DevStep \/ Disconnect \/ DaemonRestart
DevicesSpec == DevicesInit /\ [][DevicesNext]_devVars
-----------------------------------------------------------------------------
(* What the last press made of the light is what stays, once its echoes are *)
(* in: those of earlier presses never win.                                  *)
PressHolds == linkUp /\ toBroker = <<>> /\ fromBroker = <<>> /\ ~disturbed => light = lightAsked

(* The gate moves once for a command: what the broker retained does not     *)
(* move it again, unless the 0 that takes the command back was lost.        *)
GateObeys ==
  [][~gate /\ gate' => Head(fromBroker).live \/ ~moved \/ zeroLost]_devVars

(* What they come to when left alone: echoes die out, and the light agrees  *)
(* with what is retained, unless the last word was not.                     *)
Agreed == fromBroker = <<>> /\ (unkept \/ retained["light"] \in {light, NotRetained})

(* Neither echoes nor what the broker retained undo or repeat a command     *)
(* (onMsgRecv, set, trigger).                                               *)
DevicesObey == []PressHolds /\ GateObeys
=============================================================================
