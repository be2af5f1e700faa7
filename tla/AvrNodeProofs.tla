---------------------------- MODULE AvrNodeProofs ----------------------------
(***************************************************************************)
(* Proofs about a node (module AvrNode), for any objects, inputs, sensors, *)
(* stages and counters: the types, that no change is kept from the bus,    *)
(* that the values shown are the sensors', and that bounces are filtered.  *)
(***************************************************************************)
EXTENDS AvrNode, TLAPS

Shown0 == Readings \cup {Invalid}

(* Before it runs everything a node has is marked, or unreported.           *)
MobInv == /\ MobTypeOK
          /\ NoLostReport
          /\ ~Running => marked \cup unreported = Mobs
-----------------------------------------------------------------------------
(* A frame with data is not an empty message object.                        *)
LEMMA DataIsFrame ==
  ASSUME MobTypeOK, NEW m \in Mobs
  PROVE  Data(m) \in Frames(m) /\ Data(m) # None
<1>1. Data(m) \in [Members(m) -> Shown0]
  BY DEF Data, Members, MobTypeOK, Shown0
<1> QED BY <1>1, MobAssumption DEF Frames, Members, Shown0

(* Only the frames of the objects that changed are different.               *)
LEMMA OthersKeepData ==
  ASSUME MobTypeOK, NEW new \in [Objs -> Shown0], iodata' = new, NEW m \in Mobs \ Changed(new)
  PROVE  Data(m)' = Data(m)
<1>1. \A o \in Members(m) : new[o] = iodata[o]
  BY DEF Members, Changed
<1> QED BY <1>1 DEF Data

(* Objects that change do so in message objects.                            *)
LEMMA ChangedAreMobs == \A new : Changed(new) \subseteq Mobs
BY DEF Changed, Mobs

(* A value reported is marked.                                              *)
LEMMA ReportKeeps ==
  ASSUME MobInv, NEW new \in [Objs -> Shown0], Report(new)
  PROVE  MobInv'
<1>1. /\ iodata' = new /\ marked' = marked \cup Changed(new)
      /\ unreported' = unreported \ Changed(new)
      /\ UNCHANGED <<conf, prog, stage, mob, heard>>
  BY DEF Report, Marks
<1>2. MobTypeOK'
  BY <1>1, ChangedAreMobs DEF MobInv, MobTypeOK, Shown0, Frames, Members
<1>3. NoLostReport'
  <2> SUFFICES ASSUME NEW m \in Mobs, m \notin marked', m \notin unreported'
               PROVE  Data(m)' = IF mob[m] # None THEN mob[m] ELSE heard[m]
    BY <1>1 DEF NoLostReport
  <2>1. m \notin Changed(new) /\ m \notin marked /\ m \notin unreported
    BY <1>1
  <2> QED BY <1>1, <2>1, OthersKeepData DEF MobInv, NoLostReport
<1> QED BY <1>1, <1>2, <1>3, ChangedAreMobs DEF MobInv, Running

(* A value of a round not yet reported is marked with the round, or counts  *)
(* as unreported.                                                           *)
LEMMA StoreLateKeeps ==
  ASSUME MobInv, Running, NEW new \in [Objs -> Shown0], iodata' = new,
         UNCHANGED <<conf, prog, stage, mob, heard>>,
         marked' \subseteq Mobs, marked \subseteq marked', unreported' \subseteq Mobs,
         Changed(new) \cup unreported \subseteq marked' \cup unreported'
  PROVE  MobInv'
<1>1. MobTypeOK'
  BY DEF MobInv, MobTypeOK, Shown0, Frames, Members
<1>2. NoLostReport'
  <2> SUFFICES ASSUME NEW m \in Mobs, m \notin marked', m \notin unreported'
               PROVE  Data(m)' = IF mob[m] # None THEN mob[m] ELSE heard[m]
    BY DEF NoLostReport
  <2>1. m \notin Changed(new) /\ m \notin marked /\ m \notin unreported
    OBVIOUS
  <2> QED BY <2>1, OthersKeepData DEF MobInv, NoLostReport
<1> QED BY <1>1, <1>2 DEF MobInv, Running

(* A mark becomes a waiting frame, and this the last one heard.             *)
LEMMA BusKeeps == MobInv /\ Bus => MobInv'
<1> SUFFICES ASSUME MobInv, NEW m \in Mobs, Load(m) \/ Transmit(m) PROVE MobInv'
  BY DEF Bus
<1>1. CASE Load(m)
  <2>1. /\ mob[m] = None /\ mob' = [mob EXCEPT ![m] = Data(m)] /\ marked' = marked \ {m}
        /\ Running /\ UNCHANGED <<conf, prog, stage, iodata, heard, unreported>>
    BY <1>1 DEF Load, Free
  <2>2. MobTypeOK'
    BY <2>1, DataIsFrame DEF MobInv, MobTypeOK, Frames, Members
  <2>3. \A k \in Mobs : Data(k)' = Data(k)
    BY <2>1 DEF Data
  <2>4. NoLostReport'
    BY <2>1, <2>3, DataIsFrame DEF MobInv, MobTypeOK, NoLostReport
  <2> QED BY <2>1, <2>2, <2>4 DEF MobInv, Running
<1>2. CASE Transmit(m)
  <2>1. /\ mob[m] # None /\ mob' = [mob EXCEPT ![m] = None] /\ heard' = [heard EXCEPT ![m] = mob[m]]
        /\ UNCHANGED <<conf, prog, stage, iodata, marked, unreported>>
    BY <1>2 DEF Transmit
  <2>2. MobTypeOK'
    BY <2>1 DEF MobInv, MobTypeOK, Frames, Members
  <2>3. \A k \in Mobs : Data(k)' = Data(k)
    BY <2>1 DEF Data
  <2>4. NoLostReport'
    BY <2>1, <2>3 DEF MobInv, MobTypeOK, NoLostReport
  <2> QED BY <2>1, <2>2, <2>4 DEF MobInv, Running
<1> QED BY <1>1, <1>2

(* What a change of stage switches off was marked, or is unreported.        *)
LEMMA SetStageKeeps == ASSUME MobInv, NEW s \in Commands, SetStage(s) PROVE MobInv'
<1>1. PICK off \in SUBSET Mobs :
        /\ off # {} => stage # "running"
        /\ mob' = [m \in Mobs |-> IF m \in off THEN None ELSE mob[m]]
        /\ unreported' = IF stage = "running" THEN unreported ELSE unreported \cup (off \ marked)
  BY DEF SetStage, Enabling
<1>2. /\ stage' = s /\ prog' = Loop(s) /\ UNCHANGED <<conf, iodata, marked, heard>>
  BY DEF SetStage
<1>3. s \in Stages /\ (Running => prog' = "run") /\ prog' \in {"init1", "init2", "run"}
  BY <1>2, MobAssumption DEF Loop, Running
<1>4. \A m \in Mobs : Frames(m)' = Frames(m) /\ None \in Frames(m)
  BY DEF Frames
<1>5. MobTypeOK'
  BY <1>1, <1>2, <1>3, <1>4 DEF MobInv, MobTypeOK
<1>6. \A m \in Mobs : Data(m)' = Data(m)
  BY <1>2 DEF Data
<1>7. NoLostReport'
  BY <1>1, <1>2, <1>6 DEF MobInv, NoLostReport
<1>8. ~Running' => marked' \cup unreported' = Mobs
  BY <1>1, <1>2, <1>3 DEF MobInv, MobTypeOK, Running
<1> QED BY <1>5, <1>7, <1>8 DEF MobInv

(* The configuration, and a flush of everything.                            *)
LEMMA ServiceKeeps ==
  ASSUME MobInv, Configure \/ FlushAll
  PROVE  MobInv'
<1>1. CASE Configure
  <2>1. /\ prog = "init2" /\ iodata' \in [Objs -> Shown0]
        /\ UNCHANGED <<conf, prog, stage, marked, mob, heard, unreported>>
    BY <1>1 DEF Configure, SetParams, MobInv, MobTypeOK, Shown0
  <2>2. MobTypeOK'
    BY <2>1 DEF MobInv, MobTypeOK, Shown0, Frames, Members
  <2> QED BY <2>1, <2>2 DEF MobInv, NoLostReport, Running
<1>2. CASE FlushAll
  <2>1. /\ marked \subseteq marked' /\ marked' \subseteq Mobs /\ unreported' = unreported \ marked'
        /\ UNCHANGED <<conf, prog, stage, iodata, mob, heard>>
    BY <1>2, MobAssumption DEF FlushAll, MobInv, MobTypeOK, Mobs
  <2>2. MobTypeOK' /\ \A m \in Mobs : Data(m)' = Data(m)
    BY <2>1 DEF MobInv, MobTypeOK, Frames, Members, Data
  <2> QED BY <2>1, <2>2 DEF MobInv, NoLostReport, Running
<1> QED BY <1>1, <1>2

(* Nothing happens to the process data.                                     *)
LEMMA MobStays ==
  ASSUME MobInv, UNCHANGED mobVars
  PROVE  MobInv' /\ prog' = prog /\ conf' = conf /\ iodata' = iodata
<1>1. UNCHANGED <<conf, prog, stage, iodata, marked, mob, heard, unreported>>
  BY DEF mobVars
<1>2. \A m \in Mobs : Data(m)' = Data(m) /\ Frames(m)' = Frames(m)
  BY <1>1 DEF Data, Frames
<1> QED BY <1>1, <1>2 DEF MobInv, MobTypeOK, NoLostReport, Running

(* A node that starts has reported nothing.                                 *)
LEMMA MobStarts == (MobInit => MobInv) /\ (MobInv /\ MobReset => MobInv')
<1>1. /\ [o \in Objs |-> 0] \in [Objs -> Shown0]
      /\ \A m \in Mobs : None \in Frames(m) /\ Frames(m)' = Frames(m)
  BY MobAssumption DEF Shown0, Frames
<1>2. MobInit => MobInv
  BY <1>1 DEF MobInit, MobInv, MobTypeOK, NoLostReport, Stages, Shown0
<1>3. MobInv /\ MobReset => MobInv'
  BY <1>1 DEF MobReset, MobInv, MobTypeOK, NoLostReport, Stages, Shown0
<1> QED BY <1>2, <1>3
-----------------------------------------------------------------------------
(* A pin's counter is not ahead of the ticks it has differed for, as long   *)
(* as these are few.                                                        *)
DinInv == /\ DinTypeOK
          /\ \A i \in Inputs : even[i] = Debounce \/ consecutive[i] <= even[i]

(* The count of a pin in a byte: the next one, or none after the last.      *)
LEMMA CountedIs ==
  ASSUME DinTypeOK, NEW i \in Inputs
  PROVE  Counted(i) = IF consecutive[i] + 1 = CountMod THEN 0 ELSE consecutive[i] + 1
<1>1. consecutive[i] \in Nat /\ consecutive[i] < CountMod /\ CountMod \in Nat \ {0}
  BY InputAssumption DEF DinTypeOK
<1>2. \A c, n \in Nat : c < n => (c + 1) % n = IF c + 1 = n THEN 0 ELSE c + 1
  OBVIOUS
<1> QED BY <1>1, <1>2 DEF Counted

(* A change of the data is due only after enough ticks of difference.       *)
LEMMA DueAfterTicks ==
  ASSUME DinInv, NEW i \in Inputs, Due(i)
  PROVE  even[i] = Debounce
BY CountedIs, InputAssumption DEF DinInv, DinTypeOK, Due

(* A tick: the inputs due are reported.                                     *)
LEMMA DinTickKeeps ==
  ASSUME MobInv, DinInv, DinTick
  PROVE  /\ MobInv' /\ DinInv' /\ prog' = prog /\ conf' = conf
         /\ \A o \in Objs \ Inputs : iodata'[o] = iodata[o]
         /\ \A i \in Inputs : iodata'[i] # iodata[i] => Due(i)
<1> DEFINE new == [o \in Objs |-> IF o \in Inputs /\ Due(o) THEN pin[o] ELSE iodata[o]]
<1>1. Report(new) /\ UNCHANGED pin
  BY DEF DinTick
<1>2. new \in [Objs -> Shown0]
  BY InputAssumption DEF MobInv, MobTypeOK, DinInv, DinTypeOK, Shown0
<1>3. MobInv' /\ prog' = prog /\ conf' = conf /\ iodata' = new
  BY <1>1, <1>2, ReportKeeps DEF Report
<1>4. /\ consecutive' = [i \in Inputs |-> After(i)]
      /\ even' = [i \in Inputs |-> IF ~Differs(i) \/ Due(i) THEN 0
                                   ELSE IF even[i] = Debounce THEN Debounce ELSE even[i] + 1]
  BY DEF DinTick
<1>5. \A i \in Inputs : After(i) \in 0..(CountMod - 1)
  BY CountedIs, InputAssumption DEF After, DinInv, DinTypeOK
<1>6. DinTypeOK'
  BY <1>1, <1>4, <1>5, InputAssumption DEF DinInv, DinTypeOK
<1>7. ASSUME NEW i \in Inputs PROVE even'[i] = Debounce \/ consecutive'[i] <= even'[i]
  <2>1. CASE ~Differs(i) \/ Due(i)
    BY <1>4, <2>1 DEF After
  <2>2. CASE Differs(i) /\ ~Due(i)
    <3>1. consecutive'[i] = Counted(i)
      BY <1>4, <2>2 DEF After
    <3> QED BY <1>4, <2>2, <3>1, CountedIs, InputAssumption DEF DinInv, DinTypeOK
  <2> QED BY <2>1, <2>2
<1> QED BY <1>3, <1>6, <1>7, InputAssumption DEF DinInv

(* A level changes.                                                         *)
LEMMA PinKeeps ==
  ASSUME DinInv, NEW i \in Inputs, PinChanges(i)
  PROVE  DinInv'
BY DEF DinInv, DinTypeOK, PinChanges

(* At the start no tick of difference is missing.                           *)
LEMMA DinStarts == (DinInit => DinInv) /\ (DinInv /\ DinReset => DinInv')
BY InputAssumption DEF DinInit, DinReset, DinInv, DinTypeOK
-----------------------------------------------------------------------------
(* The one-wire driver by itself: what it writes is a command, what it      *)
(* searches are pairs, and while it works its answer is busy or a refusal.  *)
DriverOK ==
  /\ drv # "idle" => resp \in {"busy", "rspError"}
  /\ drv \in {"write", "read"} => idx < Bits /\ slot \in {"sample", "end"}
  /\ drv = "write" => \E i \in T \cup {0} : data = Match(i)
  /\ drv = "search" => \E b \in 0..3 : /\ data = Pair(b) /\ idx \in 0..2
                                       /\ idx = 0 /\ slot = "sample" => b = 0
                                       /\ idx = 0 \/ (idx = 1 /\ slot = "sample") => b < 2

(* Once a reset was accepted, the driver does what the machine asked for    *)
(* and nothing else: so the answer that is waited for is its own, and the   *)
(* sensor that answers is the one whose turn it is.                         *)
Asked == meas \in {"requesting", "converting", "initRead", "matching", "reading"}
InStep ==
  /\ meas # "idling" => Running /\ Count > 0
  /\ Asked => (drv = "idle" <=> resp # "busy")
  /\ meas = "requesting" => data = Convert_T /\ drv \in {"idle", "write"} /\ resp \in {"busy", "writeOk"}
  /\ meas = "converting" => drv = "idle"
  /\ meas = "initRead" => drv \in {"idle", "resetPulse", "presence", "cleared"}
  /\ meas = "matching" => /\ data = Match(cur + 1)
                          /\ drv \in {"idle", "write"} /\ resp \in {"busy", "writeOk"}
                          /\ drv = "idle" => picked \in {Nobody, cur + 1}
  /\ meas = "reading" => /\ drv \in {"idle", "read"} /\ resp \in {"busy", "readOk"}
                         /\ picked \in {Nobody, cur + 1}
                         /\ drv = "idle" => \E v \in TempsOf[cur + 1] \cup {Garbled} : data = Got(v)
  /\ meas \in {"initRead", "matching", "reading"} => cur < Count

(* The strong power is asked for with the convert command, and on from its  *)
(* last bit to the end of the conversion.                                   *)
Powered ==
  /\ meas # "requesting" => power = "no" /\ (wire = "strong" <=> meas = "converting")
  /\ meas = "requesting" /\ drv = "idle" => power = "no" /\ wire = "strong"
  /\ meas = "requesting" /\ drv = "write" =>
       /\ idx + 1 < Bits => power = "req" /\ wire # "strong"
       /\ idx + 1 = Bits => IF slot = "sample" THEN power = "keep" /\ wire = "pulled"
                                               ELSE power = "no" /\ wire = "strong"

OwInv == OwTypeOK /\ DriverOK /\ InStep /\ Powered /\ NotAnothersTemperature

(* The thermometers are objects, with temperatures of their own.            *)
LEMMA ThermFacts ==
  /\ Count \in Nat /\ Bits \in Nat /\ Bits > 1 /\ T = 1..Count
  /\ \A i \in T : Therms[i] \in Objs /\ TempsOf[i] \subseteq Temps
                  /\ 0 \notin TempsOf[i] /\ TempsOf[i] \subseteq Readings
BY ThermAssumption DEF Count, T, Temps

(* Others may run meanwhile, and the configuration makes values invalid.    *)
LEMMA OwFrame ==
  ASSUME OwInv, UNCHANGED owVars, Running => Running',
         \A i \in T : iodata'[Therms[i]] \in {iodata[Therms[i]], Invalid}
  PROVE  OwInv'
<1>1. UNCHANGED <<meas, cur, tmpMarked, due, drv, slot, idx, resp, data, power, wire, picked, scratch>>
  BY DEF owVars, drvVars
<1>2. OwTypeOK' /\ DriverOK' /\ Powered'
  BY <1>1 DEF OwInv, OwTypeOK, DriverOK, Powered
<1>3. InStep'
  BY <1>1 DEF OwInv, InStep, Asked
<1>4. NotAnothersTemperature'
  BY DEF OwInv, NotAnothersTemperature
<1> QED BY <1>2, <1>3, <1>4 DEF OwInv

(* The pulse of a reset and the presence after it.                          *)
LEMMA PulseKeeps ==
  ASSUME OwInv, OwPulse, UNCHANGED <<meas, cur, tmpMarked, due, mobVars>>
  PROVE  OwInv'
<1>1. /\ drv \in {"resetPulse", "presence", "cleared"} /\ wire' = "released" /\ picked' = Nobody
      /\ UNCHANGED <<slot, idx, data, power, scratch>>
      /\ \/ drv' \in {"presence", "cleared"} /\ resp' = resp
         \/ drv' = "idle" /\ resp' \in {"busFailure1", "noPresence", "presenceOk", "busFailure3"}
  BY DEF OwPulse, Done, Absent
<1>2. OwTypeOK' /\ DriverOK'
  BY <1>1 DEF OwInv, OwTypeOK, DriverOK, Answers, Failures, Nobody
<1>3. InStep' /\ Powered'
  BY <1>1 DEF OwInv, InStep, Asked, Powered, Running, mobVars
<1>4. NotAnothersTemperature'
  BY DEF OwInv, NotAnothersTemperature, mobVars
<1> QED BY <1>2, <1>3, <1>4 DEF OwInv

(* The sensors take a command: the one it names answers, or nobody.         *)
LEMMA TakenKeeps ==
  ASSUME OwInv, NEW missed \in BOOLEAN, drv = "write", Taken(missed)
  PROVE  /\ picked' \in T \cup {Nobody}
         /\ \A i \in T : scratch'[i] \in TempsOf[i]
         /\ \A i \in T : data = Match(i) => picked' \in {Nobody, i}
<1>1. PICK i \in T \cup {0} : data = Match(i)
  BY DEF OwInv, DriverOK
<1>2. data[2] = i /\ (data = Convert_T => i = 0) /\ \A j \in T : data = Match(j) => i = j
  BY <1>1 DEF Match, Convert_T
<1>3. \A j \in T : j # 0
  BY ThermFacts
<1>4. Convert_T = Match(0)
  BY DEF Match, Convert_T
<1>5. CASE missed
  BY <1>5 DEF Taken, OwInv, OwTypeOK
<1>6. CASE ~missed /\ data = Convert_T
  BY <1>2, <1>3, <1>6 DEF Taken, OwInv, OwTypeOK
<1>7. CASE ~missed /\ data # Convert_T
  BY <1>1, <1>2, <1>4, <1>7 DEF Taken, OwInv, OwTypeOK, Nobody
<1> QED BY <1>5, <1>6, <1>7

(* A slot of a write.                                                       *)
LEMMA WriteSlotKeeps ==
  ASSUME OwInv, NEW one \in BOOLEAN, NEW missed \in BOOLEAN, OwWriteSlot(one, missed),
         UNCHANGED <<meas, cur, tmpMarked, due, mobVars>>
  PROVE  OwInv'
<1> USE ThermFacts
<1>1. drv = "write" /\ data' = data /\ idx \in Nat /\ idx < Bits /\ idx + 1 \in 0..IF Bits > 2 THEN Bits ELSE 2
  BY DEF OwWriteSlot, OwInv, OwTypeOK, DriverOK
<1>2. meas \in {"idling", "initConvert", "requesting", "matching", "relaxing"}
  BY <1>1 DEF OwInv, OwTypeOK, InStep
<1>3. NotAnothersTemperature'
  BY DEF OwInv, NotAnothersTemperature, mobVars
<1>4. CASE /\ slot = "sample" /\ slot' = "end"
           /\ wire' = AfterWrite /\ power' = IF power = "keep" THEN "no" ELSE power
           /\ UNCHANGED <<drv, idx, resp, picked, scratch>>
  <2>1. OwTypeOK' /\ DriverOK'
    BY <1>1, <1>4 DEF OwInv, OwTypeOK, DriverOK, AfterWrite
  <2>2. InStep'
    BY <1>1, <1>4 DEF OwInv, InStep, Asked, Running, mobVars
  <2>3. Powered'
    BY <1>1, <1>2, <1>4 DEF OwInv, Powered, AfterWrite, OwTypeOK
  <2> QED BY <1>3, <2>1, <2>2, <2>3 DEF OwInv
<1>5. CASE /\ slot = "end" /\ LastBit /\ slot' = "done" /\ idx' = idx + 1
           /\ Done("writeOk") /\ Taken(missed) /\ UNCHANGED <<power, wire>>
  <2>1. drv' = "idle" /\ resp' = "writeOk" /\ idx + 1 = Bits
    BY <1>1, <1>5 DEF Done, LastBit
  <2>2. /\ picked' \in T \cup {Nobody} /\ \A i \in T : scratch'[i] \in TempsOf[i]
        /\ \A i \in T : data = Match(i) => picked' \in {Nobody, i}
    BY <1>1, <1>5, TakenKeeps
  <2>3. OwTypeOK' /\ DriverOK'
    BY <1>1, <1>5, <2>1, <2>2 DEF OwInv, OwTypeOK, DriverOK, Answers
  <2>4. meas = "matching" => picked' \in {Nobody, cur + 1}
    BY <2>2 DEF OwInv, OwTypeOK, InStep
  <2>5. InStep'
    BY <1>1, <1>2, <2>1, <2>4 DEF OwInv, InStep, Asked, Running, mobVars
  <2>6. Powered'
    BY <1>1, <1>2, <1>5, <2>1 DEF OwInv, Powered
  <2> QED BY <1>3, <2>3, <2>5, <2>6 DEF OwInv
<1>6. CASE /\ slot = "end" /\ ~LastBit /\ idx' = idx + 1
           /\ slot' = IF one THEN "end" ELSE "sample"
           /\ wire' = IF ~one THEN "pulled" ELSE IF Keep = "keep" THEN "strong" ELSE "released"
           /\ power' = IF one /\ Keep = "keep" THEN "no" ELSE Keep
           /\ UNCHANGED <<drv, resp, picked, scratch>>
  <2>1. idx + 1 < Bits
    BY <1>1, <1>6 DEF LastBit
  <2>2. OwTypeOK' /\ DriverOK'
    BY <1>1, <1>6, <2>1 DEF OwInv, OwTypeOK, DriverOK, Keep
  <2>3. InStep'
    BY <1>1, <1>6 DEF OwInv, InStep, Asked, Running, mobVars
  <2>4. Powered'
    BY <1>1, <1>2, <1>6, <2>1 DEF OwInv, Powered, Keep, OwTypeOK
  <2> QED BY <1>3, <2>2, <2>3, <2>4 DEF OwInv
<1> QED BY <1>4, <1>5, <1>6 DEF OwWriteSlot

(* A slot of a read: the bits of the sensor that answers, or of nobody.     *)
LEMMA ReadSlotKeeps ==
  ASSUME OwInv, NEW missed \in BOOLEAN, OwReadSlot(missed),
         UNCHANGED <<meas, cur, tmpMarked, due, mobVars>>
  PROVE  OwInv'
<1> USE ThermFacts
<1>1. /\ drv = "read" /\ UNCHANGED <<power, wire, picked, scratch>>
      /\ idx \in Nat /\ idx < Bits /\ idx + 1 \in 0..IF Bits > 2 THEN Bits ELSE 2
  BY DEF OwReadSlot, OwInv, OwTypeOK, DriverOK
<1>2. meas \in {"idling", "initConvert", "reading", "relaxing"}
  BY <1>1 DEF OwInv, OwTypeOK, InStep
<1>3. NotAnothersTemperature' /\ Powered'
  BY <1>1, <1>2 DEF OwInv, NotAnothersTemperature, Powered, mobVars
<1>4. CASE slot' \in {"sample", "end"} /\ idx' \in {idx, idx + 1} /\ idx' < Bits /\ UNCHANGED <<drv, resp, data>>
  <2>1. OwTypeOK' /\ DriverOK'
    BY <1>1, <1>4 DEF OwInv, OwTypeOK, DriverOK
  <2>2. InStep'
    BY <1>1, <1>4 DEF OwInv, InStep, Asked, Running, mobVars
  <2> QED BY <1>3, <2>1, <2>2 DEF OwInv
<1>5. CASE /\ idx' = idx + 1 /\ slot' = "done" /\ Done("readOk")
           /\ data' = Got(IF missed \/ picked = Nobody THEN Garbled ELSE scratch[picked])
  <2>1. drv' = "idle" /\ resp' = "readOk"
    BY <1>5 DEF Done
  <2>2. \/ data' = Got(Garbled)
        \/ picked \in T /\ scratch[picked] \in TempsOf[picked] /\ data' = Got(scratch[picked])
    BY <1>5 DEF OwInv, OwTypeOK
  <2>3. \E v \in Temps \cup {Garbled} : data' = Got(v)
    BY <2>2
  <2>4. OwTypeOK' /\ DriverOK'
    BY <1>1, <1>5, <2>1, <2>3 DEF OwInv, OwTypeOK, DriverOK, Answers
  <2>5. meas = "reading" => \E v \in TempsOf[cur + 1] \cup {Garbled} : data' = Got(v)
    BY <2>2 DEF OwInv, InStep, Nobody
  <2>6. InStep'
    BY <1>1, <1>2, <2>1, <2>5 DEF OwInv, InStep, Asked, Running, mobVars
  <2> QED BY <1>3, <2>4, <2>6 DEF OwInv
<1> QED BY <1>1, <1>4, <1>5 DEF OwReadSlot, LastBit

(* A slot of a search, which only the configuration tool asks for.          *)
LEMMA SearchSlotKeeps ==
  ASSUME OwInv, NEW b \in {0, 1}, NEW one \in BOOLEAN, OwSearchSlot(b, one),
         UNCHANGED <<meas, cur, tmpMarked, due, mobVars>>
  PROVE  OwInv'
<1> USE ThermFacts
<1>1. drv = "search" /\ UNCHANGED <<power, picked, scratch>>
  BY DEF OwSearchSlot
<1>2. meas \in {"idling", "initConvert", "relaxing"} /\ power = "no"
  BY <1>1 DEF OwInv, OwTypeOK, InStep, Powered
<1>3. PICK p \in 0..3 : /\ data = Pair(p) /\ idx \in 0..2
                        /\ idx = 0 /\ slot = "sample" => p = 0
                        /\ idx = 0 \/ (idx = 1 /\ slot = "sample") => p < 2
  BY <1>1 DEF OwInv, DriverOK
<1>4. data[2] = p
  BY <1>3 DEF Pair
<1>5. wire' \in {"released", "pulled", wire}
  BY <1>2 DEF OwSearchSlot, AfterWrite
<1>6. /\ idx' \in 0..2 /\ slot' \in {"done", "sample", "end"}
      /\ drv' = "search" => resp' = resp
      /\ drv' \in {"search", "idle"}
      /\ drv' = "idle" => resp' \in Answers
      /\ \E q \in 0..3 : /\ data' = Pair(q)
                         /\ drv' = "search" =>
                              /\ idx' = 0 /\ slot' = "sample" => q = 0
                              /\ idx' = 0 \/ (idx' = 1 /\ slot' = "sample") => q < 2
  <2>1. CASE slot = "sample"
    <3>1. slot' = "end" /\ data' = (IF idx < 2 THEN Pair(p + b * (idx + 1)) ELSE data) /\ UNCHANGED <<drv, idx, resp>>
      BY <1>4, <2>1 DEF OwSearchSlot
    <3>3. CASE idx = 0
      BY <1>1, <1>3, <2>1, <3>1, <3>3
    <3>4. CASE idx = 1
      BY <1>1, <1>3, <2>1, <3>1, <3>4
    <3>5. CASE idx = 2
      BY <1>1, <1>3, <2>1, <3>1, <3>5
    <3> QED BY <1>3, <3>3, <3>4, <3>5
  <2>2. CASE slot = "end" /\ idx = 0
    BY <1>1, <1>3, <2>2 DEF OwSearchSlot
  <2>3. CASE slot = "end" /\ idx = 1 /\ data # Pair(3)
    BY <1>1, <1>3, <2>3 DEF OwSearchSlot
  <2>4. CASE slot = "end" /\ (idx = 2 \/ (idx = 1 /\ data = Pair(3)))
    <3>1. Found(p) \in Answers
      BY DEF Answers
    <3> QED BY <1>1, <1>3, <1>4, <2>4, <3>1 DEF OwSearchSlot, Done
  <2> QED BY <1>1, <2>1, <2>2, <2>3, <2>4 DEF OwSearchSlot
<1>7. OwTypeOK'
  BY <1>1, <1>5, <1>6 DEF OwInv, OwTypeOK
<1>8. DriverOK'
  BY <1>1, <1>6 DEF OwInv, DriverOK
<1>9. InStep' /\ Powered'
  BY <1>1, <1>2, <1>5 DEF OwInv, InStep, Asked, Powered, Running, mobVars
<1>10. NotAnothersTemperature'
  BY DEF OwInv, NotAnothersTemperature, mobVars
<1> QED BY <1>7, <1>8, <1>9, <1>10 DEF OwInv

(* A reset is under way, over at once, or refused.                          *)
LEMMA ResetGives ==
  ASSUME OwInv, NEW short \in BOOLEAN, Reset(short)
  PROVE  /\ OwTypeOK' \/ ~(UNCHANGED <<meas, cur, tmpMarked, due>>)
         /\ drv' # "idle" => drv' = "resetPulse" \/ drv' = drv
         /\ resp' \in {"busy", "busFailure0", "rspError"}
         /\ drv = "idle" => /\ drv' \in {"idle", "resetPulse"} /\ (drv' = "idle" <=> resp' # "busy")
                            /\ wire' \in {"released", "pulled"}
         /\ drv # "idle" => drv' = drv /\ resp' = "rspError" /\ wire' = wire
         /\ UNCHANGED <<slot, idx, data, power, picked, scratch>>
         /\ DriverOK'
<1>1. CASE drv = "idle"
  <2>1. /\ drv' = (IF short THEN "idle" ELSE "resetPulse")
        /\ resp' = (IF short THEN "busFailure0" ELSE "busy")
        /\ wire' = (IF short THEN "released" ELSE "pulled")
        /\ UNCHANGED <<slot, idx, data, power, picked, scratch>>
    BY <1>1 DEF Reset
  <2> QED BY <1>1, <2>1 DEF OwInv, OwTypeOK, DriverOK, Answers, Failures
<1>2. CASE drv # "idle"
  <2>1. resp' = "rspError" /\ UNCHANGED <<drv, slot, idx, data, power, wire, picked, scratch>>
    BY <1>2 DEF Reset, Refuse
  <2> QED BY <1>2, <2>1 DEF OwInv, OwTypeOK, DriverOK, Answers, Failures
<1> QED BY <1>1, <1>2

(* The service of the configuration tool comes before the machine's first   *)
(* round.                                                                   *)
LEMMA OwServiceKeeps ==
  ASSUME OwInv, OwService
  PROVE  OwInv'
<1> USE ThermFacts
<1>1. /\ prog = "init2" /\ meas = "idling"
      /\ UNCHANGED <<meas, cur, tmpMarked, due, conf, prog, stage, iodata, marked, mob, heard, unreported>>
  BY DEF OwService, mobVars, OwInv, InStep, Running
<1>2. power = "no" /\ wire # "strong"
  BY <1>1 DEF OwInv, Powered
<1>3. NotAnothersTemperature'
  BY <1>1 DEF OwInv, NotAnothersTemperature
<1>4. ASSUME OwTypeOK', DriverOK', power' = "no", wire' # "strong" PROVE OwInv'
  BY <1>1, <1>3, <1>4 DEF OwInv, InStep, Asked, Powered, Running
<1>5. ASSUME NEW short \in BOOLEAN, Reset(short) PROVE OwInv'
  BY <1>1, <1>2, <1>4, <1>5, ResetGives
<1>6. ASSUME NEW what \in {"read", "search"}, Read(what) PROVE OwInv'
  <2>1. CASE drv = "idle"
    <3>1. /\ drv' = what /\ resp' = "busy" /\ idx' = 0 /\ slot' = "sample" /\ wire' = "released"
          /\ data' = (IF what = "search" THEN Pair(0) ELSE data)
          /\ UNCHANGED <<power, picked, scratch>>
      BY <1>6, <2>1 DEF Read
    <3>2. OwTypeOK' /\ DriverOK'
      BY <1>1, <3>1 DEF OwInv, OwTypeOK, DriverOK
    <3> QED BY <1>2, <1>4, <3>1, <3>2
  <2>2. CASE drv # "idle"
    <3>1. resp' = "rspError" /\ UNCHANGED <<drv, slot, idx, data, power, wire, picked, scratch>>
      BY <1>6, <2>2 DEF Read, Refuse
    <3>2. OwTypeOK' /\ DriverOK'
      BY <1>1, <3>1 DEF OwInv, OwTypeOK, DriverOK, Answers, Failures
    <3> QED BY <1>2, <1>4, <3>1, <3>2
  <2> QED BY <2>1, <2>2
<1>7. ASSUME NEW i \in T, NEW one \in BOOLEAN, Write(Match(i), FALSE, one) PROVE OwInv'
  <2>1. CASE drv = "idle"
    <3>1. /\ drv' = "write" /\ resp' = "busy" /\ idx' = 0 /\ data' = Match(i) /\ power' = "no"
          /\ slot' = (IF one THEN "end" ELSE "sample") /\ wire' = (IF one THEN "released" ELSE "pulled")
          /\ UNCHANGED <<picked, scratch>>
      BY <1>7, <2>1 DEF Write
    <3>2. OwTypeOK' /\ DriverOK'
      BY <1>1, <3>1 DEF OwInv, OwTypeOK, DriverOK
    <3> QED BY <1>4, <3>1, <3>2
  <2>2. CASE drv # "idle"
    <3>1. resp' = "rspError" /\ UNCHANGED <<drv, slot, idx, data, power, wire, picked, scratch>>
      BY <1>7, <2>2 DEF Write, Refuse
    <3>2. OwTypeOK' /\ DriverOK'
      BY <1>1, <3>1 DEF OwInv, OwTypeOK, DriverOK, Answers, Failures
    <3> QED BY <1>2, <1>4, <3>1, <3>2
  <2> QED BY <2>1, <2>2
<1> QED BY <1>5, <1>6, <1>7 DEF OwService

(* The driver is left alone, or free when the machine asks it for something:*)
(* the steps of a round up to the value.                                    *)
LEMMA RoundKeeps ==
  ASSUME OwInv, Running, Present, UNCHANGED mobVars,
         Begin \/ RequestConvert \/ Convert \/ Converted \/ MatchRom \/ ReadScratchpad \/ Relax
  PROVE  OwInv'
<1> USE ThermFacts
<1>1. UNCHANGED <<prog, iodata>> /\ Count > 0 /\ prog = "run"
  BY DEF mobVars, Present, Running
<1>2. NotAnothersTemperature'
  BY <1>1 DEF OwInv, NotAnothersTemperature
<1>3. CASE Begin
  <2>1. PICK short \in BOOLEAN : Reset(short)
    BY <1>3 DEF Begin
  <2>2. meas = "idling" /\ meas' = "initConvert" /\ UNCHANGED <<cur, tmpMarked, due>>
    BY <1>3 DEF Begin
  <2>3. OwTypeOK' /\ DriverOK'
    BY <2>1, <2>2, ResetGives DEF OwInv, OwTypeOK, Answers, Failures
  <2>4. InStep' /\ Powered'
    BY <1>1, <2>1, <2>2, ResetGives DEF OwInv, InStep, Asked, Powered, Running
  <2> QED BY <1>2, <2>3, <2>4 DEF OwInv
<1>4. CASE RequestConvert
  <2>1. meas = "initConvert" /\ meas' = "requesting" /\ UNCHANGED <<cur, tmpMarked, due>> /\ drv = "idle"
    BY <1>4 DEF RequestConvert, OwInv, DriverOK
  <2>2. PICK one \in BOOLEAN :
          /\ drv' = "write" /\ resp' = "busy" /\ idx' = 0 /\ data' = Convert_T /\ power' = "req"
          /\ slot' = (IF one THEN "end" ELSE "sample") /\ wire' = (IF one THEN "released" ELSE "pulled")
          /\ UNCHANGED <<picked, scratch>>
    BY <1>4, <2>1 DEF RequestConvert, Write
  <2>3. Convert_T = Match(0)
    BY DEF Convert_T, Match
  <2>4. OwTypeOK' /\ DriverOK'
    BY <2>1, <2>2, <2>3 DEF OwInv, OwTypeOK, DriverOK
  <2>5. InStep' /\ Powered'
    BY <1>1, <2>1, <2>2 DEF InStep, Asked, Powered, Running
  <2> QED BY <1>2, <2>4, <2>5 DEF OwInv
<1>5. CASE Convert
  <2>1. /\ meas = "requesting" /\ resp = "writeOk" /\ meas' = "converting" /\ due' = FALSE
        /\ UNCHANGED <<cur, tmpMarked, drv, slot, idx, resp, data, power, wire, picked, scratch>>
    BY <1>5 DEF Convert, drvVars
  <2>2. OwTypeOK' /\ DriverOK'
    BY <2>1 DEF OwInv, OwTypeOK, DriverOK
  <2>3. InStep' /\ Powered'
    BY <1>1, <2>1 DEF OwInv, InStep, Asked, Powered, Running
  <2> QED BY <1>2, <2>2, <2>3 DEF OwInv
<1>6. CASE Converted
  <2>1. PICK short \in BOOLEAN : Reset(short)
    BY <1>6 DEF Converted
  <2>2. /\ meas = "converting" /\ meas' = "initRead" /\ cur' = 0 /\ tmpMarked' = {} /\ UNCHANGED due
        /\ drv = "idle"
    BY <1>6 DEF Converted, OwInv, InStep
  <2>3. OwTypeOK' /\ DriverOK'
    BY <2>1, <2>2, ResetGives DEF OwInv, OwTypeOK, Answers, Failures
  <2>4. InStep' /\ Powered'
    BY <1>1, <2>1, <2>2, ResetGives DEF OwInv, InStep, Asked, Powered, Running
  <2> QED BY <1>2, <2>3, <2>4 DEF OwInv
<1>7. CASE MatchRom
  <2>1. /\ meas = "initRead" /\ meas' = "matching" /\ UNCHANGED <<cur, tmpMarked, due>> /\ drv = "idle"
        /\ cur + 1 \in T
    BY <1>7 DEF MatchRom, OwInv, DriverOK, InStep, OwTypeOK, Count
  <2>2. PICK one \in BOOLEAN :
          /\ drv' = "write" /\ resp' = "busy" /\ idx' = 0 /\ data' = Match(cur + 1) /\ power' = "no"
          /\ slot' = (IF one THEN "end" ELSE "sample") /\ wire' = (IF one THEN "released" ELSE "pulled")
          /\ UNCHANGED <<picked, scratch>>
    BY <1>7, <2>1 DEF MatchRom, Write
  <2>3. OwTypeOK' /\ DriverOK'
    BY <2>1, <2>2 DEF OwInv, OwTypeOK, DriverOK
  <2>4. InStep' /\ Powered'
    BY <1>1, <2>1, <2>2 DEF OwInv, InStep, Asked, Powered, Running
  <2> QED BY <1>2, <2>3, <2>4 DEF OwInv
<1>8. CASE ReadScratchpad
  <2>1. /\ meas = "matching" /\ meas' = "reading" /\ UNCHANGED <<cur, tmpMarked, due>> /\ drv = "idle"
        /\ picked \in {Nobody, cur + 1}
    BY <1>8 DEF ReadScratchpad, OwInv, DriverOK, InStep
  <2>2. /\ drv' = "read" /\ resp' = "busy" /\ idx' = 0 /\ data' = data
        /\ slot' = "sample" /\ wire' = "released" /\ UNCHANGED <<power, picked, scratch>>
    BY <1>8, <2>1 DEF ReadScratchpad, Read
  <2>3. OwTypeOK' /\ DriverOK'
    BY <2>1, <2>2 DEF OwInv, OwTypeOK, DriverOK
  <2>4. InStep' /\ Powered'
    BY <1>1, <2>1, <2>2 DEF OwInv, InStep, Asked, Powered, Running
  <2> QED BY <1>2, <2>3, <2>4 DEF OwInv
<1>9. CASE Relax
  <2>1. /\ meas = "relaxing" /\ meas' = "idling"
        /\ UNCHANGED <<cur, tmpMarked, due, drv, slot, idx, resp, data, power, wire, picked, scratch>>
    BY <1>9 DEF Relax, drvVars
  <2>2. OwTypeOK' /\ DriverOK'
    BY <2>1 DEF OwInv, OwTypeOK, DriverOK
  <2>3. InStep' /\ Powered'
    BY <1>1, <2>1 DEF OwInv, InStep, Asked, Powered, Running
  <2> QED BY <1>2, <2>2, <2>3 DEF OwInv
<1> QED BY <1>3, <1>4, <1>5, <1>6, <1>7, <1>8, <1>9

(* The value read is that of the sensor whose turn it is.                   *)
LEMMA TakeValueKeeps ==
  ASSUME MobInv, OwInv, Running, TakeValue
  PROVE  /\ MobInv' /\ OwInv' /\ prog' = prog /\ conf' = conf
         /\ \A o \in Objs \ {Therms[i] : i \in T} : iodata'[o] = iodata[o]
<1> USE ThermFacts
<1> DEFINE i == cur + 1
           new == Store(i, NewValue)
<1>1. /\ meas = "reading" /\ resp = "readOk" /\ drv = "idle" /\ i \in T
      /\ \E v \in TempsOf[i] \cup {Garbled} : data = Got(v)
  BY DEF TakeValue, OwInv, OwTypeOK, InStep, Asked, Count
<1>2. NewValue \in TempsOf[i] \cup {Invalid}
  BY <1>1 DEF NewValue, Got, Garbled
<1>3. new \in [Objs -> Shown0]
  BY <1>1, <1>2 DEF Store, MobInv, MobTypeOK, Shown0
<1>4. /\ iodata' = new /\ tmpMarked' = tmpMarked \cup Changed(new) /\ cur' = i
      /\ UNCHANGED <<conf, prog, stage, mob, heard, due>>
  BY DEF TakeValue, StoreLate
<1>5. /\ tmpMarked' \subseteq Mobs
      /\ marked' \subseteq Mobs /\ marked \subseteq marked' /\ unreported' \subseteq Mobs
      /\ Changed(new) \cup unreported \subseteq marked' \cup unreported'
  BY <1>4, ChangedAreMobs DEF TakeValue, OwInv, OwTypeOK, MobInv, MobTypeOK
<1>6. MobInv'
  BY <1>3, <1>4, <1>5, StoreLateKeeps
<1>7. /\ \A o \in Objs \ {Therms[j] : j \in T} : iodata'[o] = iodata[o]
      /\ iodata'[Therms[i]] = NewValue
      /\ \A j \in T \ {i} : iodata'[Therms[j]] = iodata[Therms[j]]
  BY <1>1, <1>4, ThermAssumption DEF Store, MobInv, MobTypeOK
<1>8. NotAnothersTemperature'
  BY <1>2, <1>7 DEF OwInv, NotAnothersTemperature
<1>9. CASE i < Count
  <2>1. PICK short \in BOOLEAN : Reset(short)
    BY <1>9 DEF TakeValue
  <2>2. meas' = "initRead"
    BY <1>9 DEF TakeValue
  <2>3. OwTypeOK' /\ DriverOK'
    BY <1>1, <1>4, <1>5, <2>1, <2>2, ResetGives DEF OwInv, OwTypeOK, Answers, Failures, Count
  <2>4. InStep' /\ Powered'
    BY <1>1, <1>4, <1>9, <2>1, <2>2, ResetGives DEF OwInv, InStep, Asked, Powered, Running
  <2> QED BY <1>4, <1>6, <1>7, <1>8, <2>3, <2>4 DEF OwInv
<1>10. CASE ~(i < Count)
  <2>1. meas' = "relaxing" /\ UNCHANGED <<drv, slot, idx, resp, data, power, wire, picked, scratch>>
    BY <1>10 DEF TakeValue, drvVars
  <2>2. OwTypeOK' /\ DriverOK'
    BY <1>1, <1>4, <1>5, <2>1 DEF OwInv, OwTypeOK, DriverOK, Count
  <2>3. InStep' /\ Powered'
    BY <1>1, <1>4, <2>1 DEF OwInv, InStep, Asked, Powered, Running
  <2> QED BY <1>4, <1>6, <1>7, <1>8, <2>2, <2>3 DEF OwInv
<1> QED BY <1>9, <1>10

(* A step that failed: the sensor whose turn it is becomes invalid.         *)
LEMMA OwErrorKeeps ==
  ASSUME MobInv, OwInv, Running, Present, OwError,
         meas \in {"initConvert", "requesting", "initRead", "matching", "reading"}
  PROVE  /\ MobInv' /\ OwInv' /\ prog' = prog /\ conf' = conf
         /\ \A o \in Objs \ {Therms[i] : i \in T} : iodata'[o] = iodata[o]
<1> USE ThermFacts
<1> DEFINE i == AtFault
           new == Store(i, Invalid)
<1>1. i \in T /\ i - 1 \in 0..Len(Therms)
  BY DEF AtFault, Present, OwInv, OwTypeOK, Count
<1>2. new \in [Objs -> Shown0]
  BY <1>1 DEF Store, MobInv, MobTypeOK, Shown0
<1>3. /\ Report(new) /\ cur' = i - 1 /\ due' = FALSE /\ meas' = "relaxing"
      /\ UNCHANGED <<tmpMarked, drv, slot, idx, resp, data, power, wire, picked, scratch>>
  BY DEF OwError, AfterError, drvVars
<1>4. MobInv' /\ iodata' = new /\ prog' = prog /\ conf' = conf
  BY <1>2, <1>3, ReportKeeps DEF Report
<1>5. /\ \A o \in Objs \ {Therms[j] : j \in T} : iodata'[o] = iodata[o]
      /\ \A j \in T : iodata'[Therms[j]] \in {iodata[Therms[j]], Invalid}
  BY <1>1, <1>4 DEF Store, MobInv, MobTypeOK
<1>6. NotAnothersTemperature'
  BY <1>5 DEF OwInv, NotAnothersTemperature
<1>7. OwTypeOK' /\ DriverOK'
  <2>1. cur' \in 0..Len(Therms)
    BY <1>1, <1>3
  <2>2. /\ due' = FALSE /\ meas' = "relaxing"
        /\ UNCHANGED <<tmpMarked, drv, slot, idx, resp, data, power, wire, picked, scratch>>
    BY <1>3
  <2>3. OwTypeOK'
    BY <2>1, <2>2 DEF OwInv, OwTypeOK
  <2>4. DriverOK'
    BY <2>2 DEF OwInv, DriverOK
  <2> QED BY <2>3, <2>4
<1>8. meas \in {"initConvert", "initRead"}
  BY DEF OwError, Expected, OwInv, InStep
<1>9. InStep' /\ Powered'
  BY <1>3, <1>4, <1>8 DEF OwInv, InStep, Asked, Powered, Running
<1> QED BY <1>4, <1>5, <1>6, <1>7, <1>9 DEF OwInv

(* All of the one-wire part.                                                *)
LEMMA OneWireKeeps ==
  ASSUME MobInv, OwInv, OwTick \/ OwInterrupt \/ OwElapse \/ OwService
  PROVE  /\ MobInv' /\ OwInv' /\ prog' = prog /\ conf' = conf
         /\ \A o \in Objs \ {Therms[i] : i \in T} : iodata'[o] = iodata[o]
<1>1. ASSUME UNCHANGED mobVars
      PROVE  MobInv' /\ prog' = prog /\ conf' = conf /\ iodata' = iodata
  BY <1>1, MobStays
<1>2. CASE OwTick
  <2>1. CASE TakeValue
    BY <1>2, <2>1, TakeValueKeeps DEF OwTick
  <2>2. CASE OwError /\ meas \in {"initConvert", "requesting", "initRead", "matching", "reading"}
    BY <1>2, <2>2, OwErrorKeeps DEF OwTick
  <2>3. CASE Begin \/ RequestConvert \/ Convert \/ Converted \/ MatchRom \/ ReadScratchpad \/ Relax
    <3>1. UNCHANGED mobVars
      BY <2>3 DEF Begin, RequestConvert, Convert, Converted, MatchRom, ReadScratchpad, Relax
    <3> QED BY <1>1, <1>2, <2>3, <3>1, RoundKeeps DEF OwTick
  <2> QED BY <1>2, <2>1, <2>2, <2>3 DEF OwTick
<1>3. CASE OwInterrupt
  <2>1. UNCHANGED <<meas, cur, tmpMarked, due, mobVars>>
    BY <1>3 DEF OwInterrupt
  <2>2. OwInv'
    BY <1>3, <2>1, PulseKeeps, WriteSlotKeeps, ReadSlotKeeps, SearchSlotKeeps DEF OwInterrupt
  <2> QED BY <1>1, <2>1, <2>2
<1>4. CASE OwElapse
  <2>1. due' = TRUE /\ UNCHANGED <<meas, cur, tmpMarked, drv, slot, idx, resp, data, power, wire, picked, scratch, mobVars>>
    BY <1>4 DEF OwElapse, drvVars
  <2>2. OwTypeOK' /\ DriverOK' /\ Powered'
    BY <2>1 DEF OwInv, OwTypeOK, DriverOK, Powered
  <2>3. InStep' /\ NotAnothersTemperature'
    BY <1>1, <2>1 DEF OwInv, InStep, Asked, NotAnothersTemperature, Running
  <2> QED BY <1>1, <2>1, <2>2, <2>3 DEF OwInv
<1>5. CASE OwService
  BY <1>1, <1>5, OwServiceKeeps DEF OwService
<1> QED BY <1>2, <1>3, <1>4, <1>5

(* At the start the driver is idle.                                         *)
LEMMA OwStarts == (MobInit /\ OwInit => OwInv) /\ (OwInv /\ MobReset /\ OwReset => OwInv')
<1> USE ThermFacts
<1>1. \A i \in T : (CHOOSE t \in TempsOf[i] : TRUE) \in TempsOf[i]
  BY ThermAssumption
<1>2. ASSUME MobInit, OwInit PROVE OwInv
  <2>1. OwTypeOK
    <3>1. scratch = [i \in T |-> CHOOSE t \in TempsOf[i] : TRUE]
      BY <1>2 DEF OwInit
    <3>2. \A i \in T : scratch[i] \in TempsOf[i]
      BY <1>1, <3>1
    <3>3. cur \in 0..Len(Therms) /\ idx \in 0..IF Bits > 2 THEN Bits ELSE 2
      BY <1>2 DEF OwInit, Count
    <3> QED BY <1>2, <3>2, <3>3 DEF OwInit, OwTypeOK
  <2>2. \A i \in T : iodata[Therms[i]] = 0
    BY <1>2 DEF MobInit
  <2>3. DriverOK /\ InStep /\ Powered
    BY <1>2 DEF OwInit, DriverOK, InStep, Asked, Powered
  <2> QED BY <2>1, <2>2, <2>3 DEF OwInv, NotAnothersTemperature
<1>3. ASSUME OwInv, MobReset, OwReset PROVE OwInv'
  <2>1. OwTypeOK'
    <3>1. cur' \in 0..Len(Therms) /\ idx' \in 0..IF Bits > 2 THEN Bits ELSE 2
      BY <1>3 DEF OwReset, Count
    <3>2. \A i \in T : scratch'[i] \in TempsOf[i]
      BY <1>3 DEF OwReset, OwInv, OwTypeOK
    <3> QED BY <1>3, <3>1, <3>2 DEF OwReset, OwTypeOK
  <2>2. \A i \in T : iodata'[Therms[i]] = 0
    BY <1>3 DEF MobReset
  <2>3. DriverOK' /\ InStep' /\ Powered'
    BY <1>3 DEF OwReset, DriverOK, InStep, Asked, Powered
  <2> QED BY <2>1, <2>2, <2>3 DEF OwInv, NotAnothersTemperature
<1> QED BY <1>2, <1>3
-----------------------------------------------------------------------------
(* A failed measurement of the SHT11 is on its way through a reset of the   *)
(* lines, which shows it, until the next measurement begins.                *)
ShtInv ==
  /\ ShtTypeOK
  /\ l2 \in {"disabled", "relax"} => op \in {"idle", "error"}
  /\ l2 = "disabled" => ~failed
  /\ l2 = "relax" /\ op = "idle" /\ failed => iodata[Sht] = Invalid
  /\ FailureShown

Sens == ({"meas", "ready"} \X Quantities) \cup (Parts \X Quantities) \cup {Lost, <<"started", "none">>}
MaxPos == 3 * NBits + 2 * NClear + 5

(* What a poll of the lines ends in.                                        *)
LEMMA DoSmL1Gives ==
  ASSUME ShtTypeOK, NEW noise \in BOOLEAN, NEW r \in DoSmL1(noise)
  PROVE  /\ r.op \in Ops \cup {"idle", "error", "wait"} /\ r.pos \in 0..MaxPos /\ r.sens \in Sens
         /\ op \in {"idle", "error"} => r.op = op
<1> USE ShtAssumption
<1>1. op \in Ops \cup {"idle", "error", "wait"} /\ pos \in 0..MaxPos /\ sens \in Sens
  BY DEF ShtTypeOK, Sens, MaxPos
<1>2. 0 \in 0..MaxPos /\ \A o \in Ops : Edges(o) \in 0..MaxPos
  BY DEF MaxPos, Ops, Edges
<1>3. Lost \in Sens /\ \A q \in Quantities : <<"meas", q>> \in Sens
  BY DEF Sens
<1>4. CASE op \in {"idle", "error"}
  BY <1>1, <1>4 DEF DoSmL1, L1
<1>5. CASE op = "wait"
  BY <1>1, <1>2, <1>5 DEF DoSmL1, L1, Ops
<1>6. CASE op \in Ops /\ pos + 1 < Edges(op)
  <2>1. pos + 1 \in 0..MaxPos
    BY <1>1, <1>2, <1>6 DEF MaxPos
  <2>2. r = L1(op, pos + 1, sens, NoByte)
    BY <1>6 DEF DoSmL1, Ops
  <2> QED BY <1>1, <1>6, <2>1, <2>2 DEF L1, Ops
<1>7. CASE op \in Ops /\ ~(pos + 1 < Edges(op))
  <2>1. r \in Complete(noise)
    BY <1>7 DEF DoSmL1, Ops
  <2>2. r.op \in {"idle", "error", "wait"} /\ r.pos = 0 /\ r.sens \in Sens
    <3>1. CASE op \in {"init", "reset", "fin"}
      BY <1>1, <1>3, <2>1, <3>1 DEF Complete, L1, Started, Sens
    <3>2. CASE op = "send"
      <4>1. quant \in Quantities
        BY DEF ShtTypeOK
      <4> QED BY <1>1, <1>3, <2>1, <3>2, <4>1 DEF Complete, L1
    <3>3. CASE op \in {"recv", "recvAck"}
      <4>1. CASE Sending(sens)
        <5>1. sens \in (Parts \cup {"ready"}) \X Quantities
          BY <1>1, <4>1 DEF Sending, Sens, Lost, Parts
        <5>2. <<Follow(Part(sens)), sens[2]>> \in Parts \X Quantities
          BY <5>1 DEF Follow, Parts
        <5>3. <<Follow(Part(sens)), sens[2]>> \in Sens
          BY <5>2 DEF Sens
        <5> QED BY <1>3, <2>1, <3>3, <5>3 DEF Complete, L1
      <4>2. CASE ~Sending(sens)
        BY <1>3, <2>1, <3>3, <4>2 DEF Complete, L1
      <4> QED BY <4>1, <4>2
    <3> QED BY <1>7, <3>1, <3>2, <3>3 DEF Ops
  <2> QED BY <1>2, <1>7, <2>2 DEF Ops
<1> QED BY <1>1, <1>4, <1>5, <1>6, <1>7

(* Others may run meanwhile, and the configuration makes values invalid.    *)
LEMMA ShtFrame ==
  ASSUME ShtInv, UNCHANGED shtVars, iodata'[Sht] \in {iodata[Sht], Invalid}
  PROVE  ShtInv'
BY DEF shtVars, ShtInv, ShtTypeOK, FailureShown

(* A poll.                                                                  *)
LEMMA ShtTickKeeps ==
  ASSUME MobInv, ShtInv, NEW noise \in BOOLEAN, ShtTick(noise)
  PROVE  /\ MobInv' /\ ShtInv' /\ prog' = prog /\ conf' = conf
         /\ \A o \in Objs \ {Sht} : iodata'[o] = iodata[o]
<1> USE ShtAssumption DEF L2, Begin1, Keep1, Same
<1>1. PICK r \in DoSmL1(noise) :
        /\ sens' = r.sens
        /\ InRelax(r) \/ InInit(r) \/ InCommand(r) \/ InRead(r) \/ InCrc(r) \/ InClear(r) \/ Under(r)
  BY DEF ShtTick
<1>2. /\ r.op \in Ops \cup {"idle", "error", "wait"} /\ r.pos \in 0..MaxPos /\ r.sens \in Sens
      /\ op \in {"idle", "error"} => r.op = op
  BY DoSmL1Gives DEF ShtInv
<1>3. 0 \in 0..MaxPos
  BY DEF MaxPos
<1>4. ASSUME UNCHANGED mobVars
      PROVE  MobInv' /\ prog' = prog /\ conf' = conf /\ iodata' = iodata
  BY <1>4, MobStays
<1>5. ASSUME NEW v \in Shown0, Report([iodata EXCEPT ![Sht] = v])
      PROVE  /\ MobInv' /\ prog' = prog /\ conf' = conf
             /\ iodata'[Sht] = v /\ \A o \in Objs \ {Sht} : iodata'[o] = iodata[o]
  <2>1. [iodata EXCEPT ![Sht] = v] \in [Objs -> Shown0]
    BY DEF MobInv, MobTypeOK, Shown0
  <2>2. MobInv' /\ iodata' = [iodata EXCEPT ![Sht] = v] /\ prog' = prog /\ conf' = conf
    BY <1>5, <2>1, ReportKeeps DEF Report
  <2> QED BY <2>2 DEF MobInv, MobTypeOK
<1>6. ASSUME /\ l2' \in {"disabled", "relax", "init", "command", "high", "low", "crc", "clear"}
             /\ quant' \in Quantities /\ op' \in Ops \cup {"idle", "error", "wait"}
             /\ pos' \in 0..MaxPos /\ clean' \in BOOLEAN /\ late' \in BOOLEAN /\ failed' \in BOOLEAN
      PROVE  ShtTypeOK'
  BY <1>1, <1>2, <1>6 DEF ShtTypeOK, Sens, MaxPos
<1>7. quant \in Quantities /\ clean \in BOOLEAN /\ late \in BOOLEAN /\ failed \in BOOLEAN
  BY DEF ShtInv, ShtTypeOK
<1>8. CASE InRelax(r)
  <2>1. UNCHANGED <<clean, mobVars, late>>
    BY <1>8 DEF InRelax, ToClear
  <2>2. ShtTypeOK'
    BY <1>3, <1>6, <1>7, <1>8, <2>1 DEF InRelax, ToClear, Ops, Quantities
  <2>3. ShtInv'
    BY <1>2, <1>4, <1>8, <2>1, <2>2 DEF InRelax, ToClear, ShtInv, FailureShown
  <2> QED BY <1>4, <2>1, <2>3
<1>9. CASE InInit(r)
  <2>1. ShtTypeOK' /\ UNCHANGED mobVars
    BY <1>3, <1>6, <1>7, <1>9 DEF InInit, Ops
  <2>2. ShtInv'
    BY <1>9, <2>1 DEF InInit, ShtInv, FailureShown
  <2> QED BY <1>4, <2>1, <2>2
<1>10. CASE InCommand(r)
  <2>1. ShtTypeOK' /\ UNCHANGED mobVars
    BY <1>2, <1>3, <1>6, <1>7, <1>10 DEF InCommand, ToRelax, ToClear, Ops
  <2>2. ShtInv'
    BY <1>10, <2>1 DEF InCommand, ToRelax, ToClear, ShtInv, FailureShown
  <2> QED BY <1>4, <2>1, <2>2
<1>11. CASE InRead(r)
  <2>1. ShtTypeOK' /\ UNCHANGED mobVars
    BY <1>3, <1>6, <1>7, <1>11 DEF InRead, Follow, Ops
  <2>2. ShtInv'
    BY <1>11, <2>1 DEF InRead, Follow, ShtInv, FailureShown
  <2> QED BY <1>4, <2>1, <2>2
<1>12. CASE InCrc(r)
  <2>1. CASE ~CrcOk(r)
    <3>1. ShtTypeOK' /\ UNCHANGED mobVars
      BY <1>3, <1>6, <1>7, <1>12, <2>1 DEF InCrc, ToClear, Ops
    <3>2. ShtInv'
      BY <1>12, <2>1, <3>1 DEF InCrc, ToClear, ShtInv, FailureShown
    <3> QED BY <1>4, <3>1, <3>2
  <2>2. CASE CrcOk(r) /\ quant = "T"
    <3>1. ShtTypeOK' /\ UNCHANGED mobVars
      BY <1>3, <1>6, <1>7, <1>12, <2>2 DEF InCrc, Ops, Quantities
    <3>2. ShtInv'
      BY <1>12, <2>2, <3>1 DEF InCrc, ShtInv, FailureShown
    <3> QED BY <1>4, <3>1, <3>2
  <2>3. CASE CrcOk(r) /\ quant # "T"
    <3>1. PICK v \in ShtValues : Report([iodata EXCEPT ![Sht] = v])
      BY <1>12, <2>3 DEF InCrc
    <3>2. /\ r.op = "idle" /\ op' = "idle" /\ pos' = r.pos /\ l2' = "relax" /\ quant' = quant
          /\ failed' = FALSE /\ late' = FALSE /\ clean' = clean
      BY <1>12, <2>3 DEF InCrc
    <3>3. ShtTypeOK'
      BY <1>2, <1>6, <1>7, <3>2
    <3>4. ShtInv'
      BY <3>2, <3>3 DEF ShtInv, FailureShown
    <3>5. v \in Shown0
      BY DEF Shown0
    <3> QED BY <1>5, <3>1, <3>4, <3>5
  <2> QED BY <2>1, <2>2, <2>3
<1>13. CASE InClear(r)
  <2>1. Report([iodata EXCEPT ![Sht] = Invalid]) /\ Invalid \in Shown0
    BY <1>13 DEF InClear, Shown, Shown0
  <2>2. iodata'[Sht] = Invalid
    BY <1>5, <2>1
  <2>3. ShtTypeOK'
    BY <1>2, <1>6, <1>7, <1>13 DEF InClear
  <2>4. ShtInv'
    BY <1>13, <2>2, <2>3 DEF InClear, ShtInv, FailureShown
  <2> QED BY <1>5, <2>1, <2>4
<1>14. CASE Under(r)
  <2>1. l2 \in {"init", "high", "low", "crc"} /\ UNCHANGED mobVars
    BY <1>14 DEF Under, ToRelax
  <2>2. ShtTypeOK'
    BY <1>2, <1>6, <1>7, <1>14, <2>1 DEF Under, ToRelax
  <2>3. ShtInv'
    BY <1>4, <1>14, <2>1, <2>2 DEF Under, ToRelax, ShtInv, FailureShown
  <2> QED BY <1>4, <2>1, <2>3
<1> QED BY <1>1, <1>8, <1>9, <1>10, <1>11, <1>12, <1>13, <1>14

(* Time passes for it, and the sensor has measured.                         *)
LEMMA ShtOthersKeep ==
  ASSUME ShtInv, ShtEnable \/ ShtElapse \/ SensorReady
  PROVE  ShtInv' /\ UNCHANGED mobVars
<1>1. CASE ShtEnable \/ ShtElapse
  <2>1. /\ UNCHANGED <<quant, op, pos, clean, sens, failed, mobVars>>
        /\ \/ l2 = "disabled" /\ l2' = "relax" /\ late' = late
           \/ l2' = l2 /\ late' = TRUE
    BY <1>1 DEF ShtEnable, ShtElapse
  <2>2. ShtTypeOK'
    BY <2>1 DEF ShtInv, ShtTypeOK
  <2>3. iodata' = iodata
    BY <2>1 DEF mobVars
  <2> QED BY <2>1, <2>2, <2>3 DEF ShtInv, FailureShown
<1>2. CASE SensorReady
  <2>1. sens \in {"meas"} \X Quantities
    BY <1>2 DEF SensorReady, ShtInv, ShtTypeOK, Lost, Parts
  <2>2. sens' \in {"ready"} \X Quantities
    BY <1>2, <2>1 DEF SensorReady
  <2>3. UNCHANGED <<l2, quant, op, pos, clean, late, failed, mobVars>>
    BY <1>2 DEF SensorReady
  <2>4. ShtTypeOK'
    BY <2>2, <2>3 DEF ShtInv, ShtTypeOK
  <2>5. iodata' = iodata
    BY <2>3 DEF mobVars
  <2> QED BY <2>3, <2>4, <2>5 DEF ShtInv, FailureShown
<1> QED BY <1>1, <1>2

(* At the start nothing has failed.                                         *)
LEMMA ShtStarts == (ShtInit => ShtInv) /\ (ShtReset => ShtInv')
<1>1. 0 \in 0..(3 * NBits + 2 * NClear + 5)
  BY ShtAssumption
<1>2. ShtInit => ShtTypeOK
  BY <1>1 DEF ShtInit, ShtTypeOK, Quantities
<1>3. ShtReset => ShtTypeOK'
  BY <1>1 DEF ShtReset, ShtTypeOK, Quantities
<1> QED BY <1>2, <1>3 DEF ShtInit, ShtReset, ShtInv, FailureShown
-----------------------------------------------------------------------------
(* Unless a command started it over a value, an SCD41 is started with its   *)
(* errors forgotten, or with its value invalid already; and while it is     *)
(* being recovered, that is invalid.                                        *)
ScdInv ==
  /\ ScdTypeOK
  /\ scd = "waiting" => waits = 0
  /\ Scd \in conf /\ ~forced /\ scd \in {"initializing", "disabled"} => errs = 0 \/ iodata[Scd] = Invalid
  /\ RecoveringIsInvalid

(* Others may run meanwhile, and the configuration makes values invalid.    *)
LEMMA ScdFrame ==
  ASSUME ScdInv, UNCHANGED <<scdVars, conf>>, iodata'[Scd] \in {iodata[Scd], Invalid}
  PROVE  ScdInv'
<1>1. UNCHANGED <<scd, first, waits, errs, scdLate, io, twi, twiCmd, byteIn, buf, sensor, forced>>
  BY DEF scdVars
<1>2. ScdTypeOK'
  BY <1>1 DEF ScdInv, ScdTypeOK
<1> QED BY <1>1, <1>2 DEF ScdInv, RecoveringIsInvalid

(* A byte on the bus.                                                       *)
LEMMA ScdInterruptKeeps ==
  ASSUME ScdInv, NEW ok \in BOOLEAN, ScdInterrupt(ok)
  PROVE  ScdInv' /\ UNCHANGED mobVars
<1> USE ScdAssumption
<1>1. UNCHANGED <<scd, first, waits, errs, scdLate, twiCmd, forced, mobVars>>
  BY DEF ScdInterrupt
<1>2. /\ twiCmd \in Cmds /\ byteIn \in 0..(MeasLen + 3) /\ io \in {"idle", "pending", "error"}
      /\ buf \in {"cmd", "ready", "notReady", "bad", "meas"} /\ sensor \in {"off", "idle", "busy", "ready"}
  BY DEF ScdInv, ScdTypeOK
<1>3. ASSUME /\ byteIn' \in 0..(MeasLen + 3) /\ io' \in {"idle", "pending", "error"}
             /\ buf' \in {"cmd", "ready", "notReady", "bad", "meas"}
             /\ sensor' \in {"off", "idle", "busy", "ready"}
             /\ twi' \in {"none", "start", "slaw", "write", "rep", "slar", "read", "readLast"}
      PROVE  ScdInv' /\ UNCHANGED mobVars
  <2>1. ScdTypeOK'
    BY <1>1, <1>3 DEF ScdInv, ScdTypeOK
  <2>2. UNCHANGED <<scd, waits, errs, twiCmd, conf, iodata>>
    BY <1>1 DEF mobVars
  <2> QED BY <1>1, <2>1, <2>2 DEF ScdInv, RecoveringIsInvalid
<1>4. CASE End("error") /\ UNCHANGED <<byteIn, buf, sensor>>
  BY <1>2, <1>3, <1>4 DEF End
<1>5. CASE twi = "start" /\ On("slaw") /\ UNCHANGED <<byteIn, buf, sensor>>
  BY <1>2, <1>3, <1>5 DEF On
<1>6. CASE SentOne
  <2>1. CASE byteIn < ReqWr
    BY <1>2, <1>3, <1>6, <2>1 DEF SentOne, On, ReqWr
  <2>2. CASE ~(byteIn < ReqWr) /\ ReqRd(twiCmd) > 0
    BY <1>2, <1>3, <1>6, <2>2 DEF SentOne, On, ReqRd
  <2>3. CASE ~(byteIn < ReqWr) /\ ~(ReqRd(twiCmd) > 0)
    BY <1>2, <1>3, <1>6, <2>3 DEF SentOne, End, Obeyed
  <2> QED BY <2>1, <2>2, <2>3
<1>7. CASE twi = "rep" /\ On("slar") /\ UNCHANGED <<byteIn, buf, sensor>>
  BY <1>2, <1>3, <1>7 DEF On
<1>8. CASE twi = "slar" /\ On("read") /\ UNCHANGED <<byteIn, buf, sensor>>
  BY <1>2, <1>3, <1>8 DEF On
<1>9. CASE ReceivedOne(ok)
  <2>1. CASE twi = "read"
    <3>1. ReqRd(twiCmd) \in {0, 3, MeasLen} /\ UNCHANGED <<buf, sensor>>
      BY <1>9, <2>1 DEF ReceivedOne, ReqRd
    <3>2. CASE byteIn < ReqRd(twiCmd)
      <4>1. byteIn' = byteIn + 1 /\ twi' \in {"read", "readLast"} /\ io' = io
        BY <1>9, <2>1, <3>2 DEF ReceivedOne, On
      <4>2. byteIn + 1 \in 0..(MeasLen + 3)
        BY <1>2, <3>1, <3>2
      <4> QED BY <1>2, <1>3, <3>1, <4>1, <4>2
    <3>3. CASE ~(byteIn < ReqRd(twiCmd))
      <4>1. byteIn' = 0 /\ twi' = "none" /\ io' = "error"
        BY <1>9, <2>1, <3>3 DEF ReceivedOne, End
      <4> QED BY <1>2, <1>3, <3>1, <4>1
    <3> QED BY <3>2, <3>3
  <2>2. CASE twi = "readLast"
    BY <1>2, <1>3, <1>9, <2>2 DEF ReceivedOne, End, Answer
  <2> QED BY <1>9, <2>1, <2>2 DEF ReceivedOne
<1>10. CASE ~(Acked /\ (ok \/ twi = "readLast"))
  BY <1>4, <1>10 DEF ScdInterrupt
<1>11. CASE Acked /\ (ok \/ twi = "readLast")
  BY <1>5, <1>6, <1>7, <1>8, <1>9, <1>11 DEF ScdInterrupt
<1> QED BY <1>1, <1>10, <1>11

(* A value reported is the sensor's, and nobody else's.                     *)
LEMMA ShowKeeps ==
  ASSUME MobInv, NEW v \in Shown0, Show(v)
  PROVE  /\ MobInv' /\ prog' = prog /\ conf' = conf
         /\ iodata'[Scd] = v /\ \A o \in Objs \ {Scd} : iodata'[o] = iodata[o]
<1>1. [iodata EXCEPT ![Scd] = v] \in [Objs -> Shown0]
  BY DEF MobInv, MobTypeOK, Shown0
<1>2. MobInv' /\ iodata' = [iodata EXCEPT ![Scd] = v] /\ prog' = prog /\ conf' = conf
  BY <1>1, ReportKeeps DEF Show, Report
<1> QED BY <1>2, ScdAssumption DEF MobInv, MobTypeOK

(* An error is counted, in a byte.                                          *)
LEMMA HandleErrorGives ==
  ASSUME ScdTypeOK, HandleError
  PROVE  /\ errs' \in -ErrWidth..(ErrWidth - 1)
         /\ scd' \in {"relaxing", "recover", "powerOff"} /\ scdLate' = FALSE
         /\ sensor' \in {"off", "idle", "busy", "ready"}
         /\ UNCHANGED <<io, twi, twiCmd, byteIn, buf>>
         /\ errs = 0 => scd' = "relaxing"
<1> USE ScdAssumption
<1>1. errs \in -ErrWidth..(ErrWidth - 1) /\ sensor \in {"off", "idle", "busy", "ready"}
  BY DEF ScdTypeOK
<1>2. More \in -ErrWidth..(ErrWidth - 1) /\ (errs = 0 => More < ErrMax)
  BY <1>1 DEF More
<1> QED BY <1>1, <1>2 DEF HandleError, To, Escalated

(* A poll.                                                                  *)
LEMMA ScdTickKeeps ==
  ASSUME MobInv, ScdInv, ScdTick
  PROVE  /\ MobInv' /\ ScdInv' /\ prog' = prog /\ conf' = conf
         /\ \A o \in Objs \ {Scd} : iodata'[o] = iodata[o]
<1> USE ScdAssumption DEF To, Counts
<1>1. ASSUME UNCHANGED mobVars
      PROVE  MobInv' /\ prog' = prog /\ conf' = conf /\ iodata' = iodata
  BY <1>1, MobStays
<1>2. ASSUME OnBad
      PROVE  /\ MobInv' /\ prog' = prog /\ conf' = conf /\ iodata'[Scd] = Invalid
             /\ \A o \in Objs \ {Scd} : iodata'[o] = iodata[o]
  BY <1>2, ShowKeeps DEF OnBad, Shown0
<1>3. ScdTypeOK
  BY DEF ScdInv
<1>4. /\ first \in 0..SkipFirst /\ waits \in 0..(WaitMax + 1) /\ errs \in -ErrWidth..(ErrWidth - 1)
      /\ scdLate \in BOOLEAN /\ io \in {"idle", "pending", "error"}
      /\ twi \in {"none", "start", "slaw", "write", "rep", "slar", "read", "readLast"}
      /\ twiCmd \in Cmds /\ byteIn \in 0..(MeasLen + 3)
      /\ buf \in {"cmd", "ready", "notReady", "bad", "meas"}
      /\ sensor \in {"off", "idle", "busy", "ready"} /\ forced \in BOOLEAN
  BY <1>3 DEF ScdTypeOK
<1>0. 0 \in 0..SkipFirst /\ {0, 1} \subseteq 0..(WaitMax + 1) /\ 0 < WaitMax
  <2>1. SkipFirst \in Nat /\ WaitMax \in Nat /\ WaitMax # 0
    BY ScdAssumption
  <2> QED BY <2>1
<1>5. ASSUME NEW c \in Cmds, Start(c)
      PROVE  /\ twi' = "start" /\ twiCmd' \in Cmds /\ byteIn' \in 0..(MeasLen + 3)
             /\ buf' = "cmd" /\ io' = "pending" /\ sensor' = sensor
  BY <1>5 DEF Start, Prepare
<1>6. ASSUME NoIo PROVE UNCHANGED <<io, twi, twiCmd, byteIn, buf, sensor>>
  BY <1>6 DEF NoIo
<1>7. ASSUME ScdTypeOK', conf' = conf,
             scd' \notin {"waiting", "initializing", "disabled"} \/ (scd' = "waiting" /\ waits' = 0),
             scd' \in Recovering => iodata'[Scd] = Invalid \/ Scd \notin conf \/ forced'
      PROVE  ScdInv'
  BY <1>7 DEF ScdInv, RecoveringIsInvalid
<1>13. ASSUME Tried PROVE forced' = FALSE
  BY <1>13 DEF Tried
<1>8. CASE Initializing
  <2>1. UNCHANGED <<first, waits, forced, mobVars>> /\ scd = "initializing"
    BY <1>8 DEF Initializing
  <2>2. CASE io = "error"
    <3>1. HandleError
      BY <1>8, <2>2 DEF Initializing
    <3>2. ScdTypeOK'
      BY <1>3, <1>4, <2>1, <3>1, HandleErrorGives DEF ScdTypeOK, Recovering
    <3>3. scd' = "relaxing" \/ iodata[Scd] = Invalid \/ Scd \notin conf \/ forced
      BY <1>3, <2>1, <3>1, HandleErrorGives DEF ScdInv
    <3> QED BY <1>1, <1>3, <1>7, <2>1, <3>1, <3>2, <3>3, HandleErrorGives DEF Recovering
  <2>3. CASE io # "error"
    <3>1. scd' = "relaxing" /\ scdLate' = FALSE /\ UNCHANGED <<errs, io, twi, twiCmd, byteIn, buf, sensor>>
      BY <1>6, <1>8, <2>3 DEF Initializing
    <3>2. ScdTypeOK'
      BY <1>4, <2>1, <3>1 DEF ScdTypeOK
    <3> QED BY <1>1, <1>7, <2>1, <3>1, <3>2 DEF Recovering
  <2> QED BY <2>2, <2>3
<1>9. CASE Relaxing \/ RelaxRead
  <2>1. UNCHANGED <<first, errs, forced, mobVars>> /\ scdLate' = FALSE
    BY <1>9 DEF Relaxing, RelaxRead
  <2>2. \/ scd' = "waiting" /\ waits' = 0
        \/ scd' = "reading" /\ waits' = waits
    BY <1>9 DEF Relaxing, RelaxRead
  <2>3. PICK c \in Cmds : Start(c)
    BY <1>9 DEF Relaxing, RelaxRead, Cmds
  <2>4. ScdTypeOK' /\ twi' = "start"
    BY <1>4, <1>5, <1>0, <2>1, <2>2, <2>3 DEF ScdTypeOK
  <2> QED BY <1>1, <1>7, <2>1, <2>2, <2>4 DEF Recovering
<1>10. CASE Waiting
  <2>1. waits = 0 /\ UNCHANGED first
    BY <1>10 DEF Waiting, ScdInv
  <2>2. CASE OnBad /\ Tried /\ HandleError
    <3>1. waits' \in 0..(WaitMax + 1)
      BY <1>10, <2>1, <2>2 DEF Waiting
    <3>2. ScdTypeOK'
      BY <1>3, <1>4, <1>13, <2>1, <2>2, <3>1, HandleErrorGives DEF ScdTypeOK, Recovering
    <3> QED BY <1>2, <1>3, <1>7, <2>2, <3>2, HandleErrorGives
  <2>3. CASE ~(OnBad /\ Tried /\ HandleError)
    <3>1. /\ scd' \in {"relaxRead", "relaxing"} /\ scdLate' = FALSE /\ waits' \in {0, 1}
          /\ UNCHANGED <<errs, forced, mobVars>> /\ NoIo
      <4>1. CASE io = "idle" /\ buf = "ready"
        BY <1>10, <2>1, <2>3, <4>1 DEF Waiting
      <4>2. CASE io = "idle" /\ buf = "notReady"
        BY <1>10, <1>0, <2>1, <2>3, <4>2 DEF Waiting
      <4> QED BY <1>10, <2>3, <4>1, <4>2 DEF Waiting
    <3>2. ScdTypeOK'
      BY <1>4, <1>6, <1>0, <2>1, <3>1 DEF ScdTypeOK
    <3> QED BY <1>1, <1>6, <1>7, <3>1, <3>2 DEF Recovering
  <2> QED BY <2>2, <2>3
<1>11. CASE Reading
  <2>1. waits' = waits /\ scd = "reading" /\ forced' = FALSE
    BY <1>11, <1>13 DEF Reading
  <2>2. CASE io = "idle" /\ buf # "bad"
    <3>1. /\ errs' = 0 /\ scd' = "relaxing" /\ scdLate' = FALSE /\ NoIo
          /\ \/ first < SkipFirst /\ first' = first + 1 /\ UNCHANGED mobVars
             \/ first' = first /\ \E v \in ScdValues : Show(v)
      BY <1>11, <2>2 DEF Reading
    <3>2. ScdTypeOK'
      <4>1. first' \in 0..SkipFirst /\ errs' \in -ErrWidth..(ErrWidth - 1)
        BY <1>4, <3>1
      <4> QED BY <1>4, <1>6, <2>1, <3>1, <4>1 DEF ScdTypeOK
    <3>3. /\ MobInv' /\ prog' = prog /\ conf' = conf
          /\ \A o \in Objs \ {Scd} : iodata'[o] = iodata[o]
      BY <1>1, <3>1, ShowKeeps DEF Shown0
    <3> QED BY <1>6, <1>7, <3>1, <3>2, <3>3 DEF Recovering
  <2>3. CASE ~(io = "idle" /\ buf # "bad")
    <3>1. OnBad /\ HandleError /\ UNCHANGED first
      BY <1>11, <2>3 DEF Reading
    <3>2. ScdTypeOK'
      BY <1>3, <1>4, <2>1, <3>1, HandleErrorGives DEF ScdTypeOK, Recovering
    <3> QED BY <1>2, <1>3, <1>7, <3>1, <3>2, HandleErrorGives
  <2> QED BY <2>2, <2>3
<1>12. CASE Recover
  <2>1. UNCHANGED <<errs, waits, forced, mobVars>> /\ scd \in Recovering
    BY <1>12 DEF Recover, StartMeas, Recovering
  <2>2. iodata'[Scd] = Invalid \/ Scd \notin conf \/ forced
    BY <1>1, <2>1 DEF ScdInv, RecoveringIsInvalid
  <2>3. ASSUME NEW c \in Cmds, Start(c), scd' \in {"restart", "initializing"},
               first' \in {0, first}, scdLate' = FALSE
        PROVE  ScdInv'
    <3>1. ScdTypeOK' /\ twi' = "start"
      BY <1>4, <1>5, <1>0, <2>1, <2>3 DEF ScdTypeOK, Recovering
    <3> QED BY <1>1, <2>1, <2>2, <2>3, <3>1 DEF ScdInv, RecoveringIsInvalid
  <2>4. ASSUME scd' \in {"powerOn", "powerRelax"}, scdLate' = FALSE, sensor' \in {"idle", sensor},
               UNCHANGED <<io, twi, twiCmd, byteIn, buf, first>>
        PROVE  ScdInv'
    <3>1. ScdTypeOK'
      BY <1>4, <2>1, <2>4 DEF ScdTypeOK, Recovering
    <3> QED BY <1>1, <1>7, <2>1, <2>2, <2>4, <3>1
  <2>5. ScdInv'
    <3>1. CASE scd = "recover"
      <4>1. Start("stop") /\ "stop" \in Cmds /\ scd' = "restart" /\ scdLate' = FALSE /\ first' = first
        BY <1>12, <3>1 DEF Recover, Cmds
      <4> QED BY <2>3, <4>1
    <3>2. CASE scd \in {"restart", "powerRelax"}
      <4>1. Start("start") /\ "start" \in Cmds /\ scd' = "initializing" /\ scdLate' = FALSE /\ first' = 0
        BY <1>12, <3>2 DEF Recover, StartMeas, Cmds
      <4> QED BY <2>3, <4>1
    <3>3. CASE scd \in {"powerOff", "powerOn"}
      BY <1>6, <1>12, <2>4, <3>3 DEF Recover
    <3> QED BY <2>1, <3>1, <3>2, <3>3 DEF Recovering
  <2> QED BY <1>1, <2>1, <2>5
<1> QED BY <1>8, <1>9, <1>10, <1>11, <1>12 DEF ScdTick

(* Time passes for it; it is started and disabled; and the sensor measures  *)
(* or forgets.                                                              *)
LEMMA ScdOthersKeep ==
  ASSUME MobInv, ScdInv, ScdElapse \/ ScdStart \/ ScdDisable \/ Measured \/ Brownout
  PROVE  /\ MobInv' /\ ScdInv' /\ prog' = prog /\ conf' = conf
         /\ \A o \in Objs \ {Scd} : iodata'[o] = iodata[o]
<1> USE ScdAssumption DEF To, Counts
<1>1. ASSUME UNCHANGED mobVars
      PROVE  MobInv' /\ prog' = prog /\ conf' = conf /\ iodata' = iodata
  BY <1>1, MobStays
<1>2. /\ scd \in {"disabled", "initializing", "relaxing", "waiting", "relaxRead", "reading"} \cup Recovering
      /\ first \in 0..SkipFirst /\ waits \in 0..(WaitMax + 1) /\ errs \in -ErrWidth..(ErrWidth - 1)
      /\ scdLate \in BOOLEAN /\ io \in {"idle", "pending", "error"}
      /\ twi \in {"none", "start", "slaw", "write", "rep", "slar", "read", "readLast"}
      /\ twiCmd \in Cmds /\ byteIn \in 0..(MeasLen + 3)
      /\ buf \in {"cmd", "ready", "notReady", "bad", "meas"}
      /\ sensor \in {"off", "idle", "busy", "ready"} /\ forced \in BOOLEAN
  BY DEF ScdInv, ScdTypeOK
<1>3. CASE ScdElapse \/ Measured \/ Brownout
  <2>1. /\ UNCHANGED <<scd, first, waits, errs, io, twi, twiCmd, byteIn, buf, forced, mobVars>>
        /\ scdLate' \in BOOLEAN /\ sensor' \in {"off", "idle", "busy", "ready"}
    BY <1>2, <1>3 DEF ScdElapse, Measured, Brownout
  <2>2. ScdTypeOK'
    BY <1>2, <2>1 DEF ScdTypeOK
  <2> QED BY <1>1, <2>1, <2>2 DEF ScdInv, RecoveringIsInvalid
<1>4. CASE ScdStart
  <2>1. /\ scd' = "initializing" /\ scdLate' = FALSE /\ first' = 0 /\ twi' \in {"start", twi, "rep"}
        /\ twiCmd' = "start" /\ byteIn' = 0 /\ buf' = "cmd" /\ io' = "pending"
        /\ UNCHANGED <<sensor, waits, errs, mobVars>>
    BY <1>4 DEF ScdStart, Prepare
  <2>2. forced' \in BOOLEAN /\ (forced' \/ (~forced /\ (scd = "disabled" \/ iodata[Scd] = Invalid)))
    BY <1>2, <1>4 DEF ScdStart
  <2>3. 0 \in 0..SkipFirst /\ 0 \in 0..(MeasLen + 3)
    BY ScdAssumption
  <2>4. ScdTypeOK'
    BY <1>2, <2>1, <2>2, <2>3 DEF ScdTypeOK, Cmds
  <2>5. Scd \in conf /\ ~forced' => errs = 0 \/ iodata[Scd] = Invalid
    BY <2>2 DEF ScdInv
  <2> QED BY <1>1, <2>1, <2>4, <2>5 DEF ScdInv, RecoveringIsInvalid, Recovering
<1>5. CASE ScdDisable
  <2>1. /\ scd' = "disabled" /\ scdLate' = FALSE /\ Show(Invalid) /\ twi' = "none" /\ forced' = FALSE
        /\ UNCHANGED <<first, waits, errs, io, twiCmd, byteIn, buf, sensor>>
    BY <1>5 DEF ScdDisable, Tried
  <2>2. /\ MobInv' /\ prog' = prog /\ conf' = conf /\ iodata'[Scd] = Invalid
        /\ \A o \in Objs \ {Scd} : iodata'[o] = iodata[o]
    BY <2>1, ShowKeeps DEF Shown0
  <2>3. ScdTypeOK'
    BY <1>2, <2>1 DEF ScdTypeOK
  <2> QED BY <2>1, <2>2, <2>3 DEF ScdInv, RecoveringIsInvalid
<1> QED BY <1>3, <1>4, <1>5

(* At the start there are no errors.                                        *)
LEMMA ScdStarts == (ScdInit => ScdInv) /\ (ScdInv /\ ScdReset => ScdInv')
<1>1. /\ 0 \in 0..SkipFirst /\ 0 \in 0..(WaitMax + 1) /\ 0 \in -ErrWidth..(ErrWidth - 1)
      /\ 0 \in 0..(MeasLen + 3)
  <2>1. SkipFirst \in Nat /\ WaitMax \in Nat /\ ErrWidth \in Nat /\ ErrWidth > 0 /\ MeasLen \in Nat
    BY ScdAssumption
  <2> QED BY <2>1
<1>2. ASSUME ScdInit PROVE ScdInv
  <2>1. ScdTypeOK
    BY <1>1, <1>2 DEF ScdInit, ScdTypeOK, Cmds
  <2> QED BY <1>2, <2>1 DEF ScdInit, ScdInv, RecoveringIsInvalid, Recovering
<1>3. ASSUME ScdInv, ScdReset PROVE ScdInv'
  <2>1. sensor' \in {"idle", sensor}
    BY <1>3 DEF ScdReset
  <2>2. ScdTypeOK'
    BY <1>1, <1>3, <2>1 DEF ScdReset, ScdInv, ScdTypeOK, Cmds
  <2> QED BY <1>3, <2>2 DEF ScdReset, ScdInv, RecoveringIsInvalid, Recovering
<1> QED BY <1>2, <1>3
-----------------------------------------------------------------------------
(* The parts of a node, each with what it keeps of the process data.        *)
IInv == MobInv /\ DinInv /\ OwInv /\ ShtInv /\ ScdInv

(* It holds at the start ...                                                *)
LEMMA InitIInv == Init => IInv
BY MobStarts, DinStarts, OwStarts, ShtStarts, ScdStarts DEF Init, IInv

(* ... and each part may go on without the others: they find their data as  *)
(* they left it, or made invalid by the configuration.                      *)
LEMMA FramesKeep ==
  ASSUME IInv, MobInv', conf' = conf, Running => Running'
  PROVE  /\ UNCHANGED dinVars => DinInv'
         /\ UNCHANGED owVars /\ (\A i \in T : iodata'[Therms[i]] \in {iodata[Therms[i]], Invalid}) => OwInv'
         /\ UNCHANGED shtVars /\ iodata'[Sht] \in {iodata[Sht], Invalid} => ShtInv'
         /\ UNCHANGED scdVars /\ iodata'[Scd] \in {iodata[Scd], Invalid} => ScdInv'
<1>1. UNCHANGED dinVars => DinInv'
  BY DEF IInv, DinInv, DinTypeOK, dinVars
<1>2. ASSUME UNCHANGED owVars, \A i \in T : iodata'[Therms[i]] \in {iodata[Therms[i]], Invalid}
      PROVE  OwInv'
  BY <1>2, OwFrame DEF IInv
<1>3. ASSUME UNCHANGED shtVars, iodata'[Sht] \in {iodata[Sht], Invalid} PROVE ShtInv'
  BY <1>3, ShtFrame DEF IInv
<1>4. ASSUME UNCHANGED scdVars, iodata'[Scd] \in {iodata[Scd], Invalid} PROVE ScdInv'
  BY <1>4, ScdFrame DEF IInv
<1> QED BY <1>1, <1>2, <1>3, <1>4

(* The objects of the parts are different ones.                             *)
LEMMA Disjoint ==
  /\ Sht \in Objs \ Inputs /\ Scd \in Objs \ Inputs /\ Sht # Scd
  /\ \A i \in T : Therms[i] \in Objs \ Inputs /\ Therms[i] # Sht /\ Therms[i] # Scd
BY AvrAssumption, ThermFacts, ShtAssumption, ScdAssumption

(* Every step keeps it.                                                     *)
LEMMA NextIInv == IInv /\ [Next]_vars => IInv'
<1> SUFFICES ASSUME IInv, [Next]_vars PROVE IInv'
  OBVIOUS
<1>1. CASE Main
  <2>1. UNCHANGED <<dinVars, owVars, shtVars, scdVars>>
    BY <1>1 DEF Main
  <2>2. CASE Bus
    <3>1. UNCHANGED <<conf, prog, iodata>>
      BY <2>2 DEF Bus, Load, Transmit
    <3> QED BY <2>1, <2>2, <3>1, BusKeeps, FramesKeep DEF IInv, Running
  <2>3. CASE Configure
    <3>1. /\ UNCHANGED <<conf, prog>> /\ \A o \in Objs : iodata'[o] \in {iodata[o], Invalid}
      BY <2>3 DEF Configure, SetParams
    <3> QED BY <2>1, <2>3, <3>1, ServiceKeeps, FramesKeep, Disjoint DEF IInv, Running
  <2>4. CASE FlushAll
    <3>1. UNCHANGED <<conf, prog, iodata>>
      BY <2>4 DEF FlushAll
    <3> QED BY <2>1, <2>4, <3>1, ServiceKeeps, FramesKeep DEF IInv, Running
  <2>5. CASE \E s \in Commands : SetStage(s)
    <3>1. PICK s \in Commands : SetStage(s)
      BY <2>5
    <3>2. UNCHANGED <<conf, iodata>> /\ (Running => Running')
      BY <3>1 DEF SetStage, Loop, Running
    <3> QED BY <2>1, <3>1, <3>2, SetStageKeeps, FramesKeep DEF IInv
  <2> QED BY <1>1, <2>2, <2>3, <2>4, <2>5 DEF Main, Svc
<1>2. CASE InputsNext
  <2>1. UNCHANGED <<owVars, shtVars, scdVars>>
    BY <1>2 DEF InputsNext, Din
  <2>2. CASE DinTick
    BY <2>1, <2>2, DinTickKeeps, FramesKeep, Disjoint DEF IInv, Running
  <2>3. CASE \E i \in Inputs \cap conf : PinChanges(i)
    <3>1. UNCHANGED mobVars /\ DinInv'
      BY <2>3, PinKeeps DEF IInv, PinChanges
    <3> QED BY <2>1, <3>1, MobStays, FramesKeep DEF IInv, Running
  <2> QED BY <1>2, <2>2, <2>3 DEF InputsNext, Din
<1>3. CASE OneWireNext
  <2>1. UNCHANGED <<dinVars, shtVars, scdVars>> /\ (OwTick \/ OwInterrupt \/ OwElapse \/ OwService)
    BY <1>3 DEF OneWireNext, Ow
  <2>2. /\ MobInv' /\ OwInv' /\ prog' = prog /\ conf' = conf
        /\ \A o \in Objs \ {Therms[i] : i \in T} : iodata'[o] = iodata[o]
    BY <2>1, OneWireKeeps DEF IInv
  <2>3. iodata'[Sht] = iodata[Sht] /\ iodata'[Scd] = iodata[Scd]
    BY <2>2, Disjoint
  <2> QED BY <2>1, <2>2, <2>3, FramesKeep DEF IInv, Running
<1>4. CASE ShtNext
  <2>1. UNCHANGED <<dinVars, owVars, scdVars>>
    BY <1>4 DEF ShtNext, ShtX
  <2>2. /\ MobInv' /\ ShtInv' /\ prog' = prog /\ conf' = conf
        /\ \A o \in Objs \ {Sht} : iodata'[o] = iodata[o]
    <3>1. CASE ShtEnable \/ ShtElapse \/ SensorReady
      BY <3>1, ShtOthersKeep, MobStays DEF IInv
    <3>2. CASE \E noise \in BOOLEAN : ShtTick(noise)
      BY <3>2, ShtTickKeeps DEF IInv
    <3> QED BY <1>4, <3>1, <3>2 DEF ShtNext, ShtX
  <2>3. iodata'[Scd] = iodata[Scd] /\ \A i \in T : iodata'[Therms[i]] = iodata[Therms[i]]
    BY <2>2, Disjoint
  <2> QED BY <2>1, <2>2, <2>3, FramesKeep DEF IInv, Running
<1>5. CASE ScdNext
  <2>1. UNCHANGED <<dinVars, owVars, shtVars>>
    BY <1>5 DEF ScdNext, ScdX
  <2>2. /\ MobInv' /\ ScdInv' /\ prog' = prog /\ conf' = conf
        /\ \A o \in Objs \ {Scd} : iodata'[o] = iodata[o]
    <3>1. CASE ScdTick
      BY <3>1, ScdTickKeeps DEF IInv
    <3>2. CASE ScdElapse \/ ScdStart \/ ScdDisable \/ Measured \/ Brownout
      BY <3>2, ScdOthersKeep DEF IInv
    <3>3. CASE \E ok \in BOOLEAN : ScdInterrupt(ok)
      BY <3>3, ScdInterruptKeeps, MobStays DEF IInv
    <3> QED BY <1>5, <3>1, <3>2, <3>3 DEF ScdNext, ScdX
  <2>3. iodata'[Sht] = iodata[Sht] /\ \A i \in T : iodata'[Therms[i]] = iodata[Therms[i]]
    BY <2>2, Disjoint
  <2> QED BY <2>1, <2>2, <2>3, FramesKeep DEF IInv, Running
<1>6. CASE AvrReset
  BY <1>6, MobStarts, DinStarts, OwStarts, ShtStarts, ScdStarts DEF AvrReset, IInv
<1>7. CASE UNCHANGED vars
  <2>1. UNCHANGED <<mobVars, dinVars, owVars, shtVars, scdVars>>
    BY <1>7 DEF vars
  <2> QED BY <2>1, MobStays, FramesKeep DEF IInv, Running
<1> QED BY <1>1, <1>2, <1>3, <1>4, <1>5, <1>6, <1>7 DEF Next

(* So it always holds.                                                      *)
LEMMA Invariance == Spec => []IInv
<1> QED BY InitIInv, NextIInv, PTL DEF Spec

(* The state keeps its types (statics of main.cpp, ow_sm.cpp, sht11_sm.cpp  *)
(* and scd4x_sm.cpp).                                                       *)
THEOREM TypeCorrect == Spec => []TypeOK
<1>1. IInv => TypeOK
  BY DEF IInv, TypeOK, MobInv, DinInv, OwInv, ShtInv, ScdInv
<1> QED BY <1>1, Invariance, PTL

(* What is neither marked nor unreported is on the bus, or on its way, as   *)
(* it is now (markMobTx, isMobMarkedTx, clearMarkTxMob, run).               *)
THEOREM NothingGoesUnreported == Spec => []NoLostReport
<1>1. IInv => NoLostReport
  BY DEF IInv, MobInv
<1> QED BY <1>1, Invariance, PTL

(* A temperature shown is the own sensor's, sensors convert with strong     *)
(* power, and a failure or a recovery shows (the machines of main.cpp).     *)
THEOREM ValuesStayTrue == Spec => []ValuesTrue
<1>1. IInv => PowerWhileConverting
  BY DEF IInv, OwInv, OwTypeOK, InStep, Asked, Powered, PowerWhileConverting
<1>2. IInv => ValuesTrue
  BY <1>1 DEF IInv, OwInv, ShtInv, ScdInv, ValuesTrue
<1> QED BY <1>2, Invariance, PTL

(* An input's data follow its pin only after it has differed for "debounce" *)
(* ticks before (onTimer4ms096).                                            *)
THEOREM NoiseIsFiltered == Spec => NoiseFiltered
<1> DEFINE Quiet == \A i \in Inputs : DinTick /\ iodata'[i] # iodata[i] => even[i] = Debounce
<1>1. IInv /\ [Next]_vars => [Quiet]_<<mobVars, dinVars>>
  <2> SUFFICES ASSUME IInv, NEW i \in Inputs, DinTick, iodata'[i] # iodata[i]
               PROVE  even[i] = Debounce
    OBVIOUS
  <2>1. Due(i)
    BY DinTickKeeps DEF IInv
  <2> QED BY <2>1, DueAfterTicks DEF IInv
<1> QED BY <1>1, Invariance, PTL DEF Spec, NoiseFiltered
=============================================================================
