------------------------------- MODULE AvrMob -------------------------------
(***************************************************************************)
(* The sending half of a node (avr/fw/main.cpp): the stages it passes, its *)
(* process data gIOData, the marks gMobMarkedTx and the transmit message   *)
(* objects of the CAN controller.  The inputs and the sensors that write   *)
(* the data are in AvrInputs, AvrOneWire, AvrSht11 and AvrScd4x.           *)
(*                                                                         *)
(* One main loop does all this; the controller transmits beside it.  A     *)
(* node is given its objects by the configuration tool: "conf" is chosen   *)
(* once, and one model stands for a node of each kind.                     *)
(***************************************************************************)
EXTENDS Integers, FiniteSets

CONSTANTS
  Objs,      \* the objects of all kinds of nodes
  Confs,     \* the sets of objects a node may be given
  MobOf,     \* obj.mobIdx
  Commands,  \* the stages nodes are sent
  Readings,  \* what an object may hold, besides
  Invalid,   \* cInvalidValue
  None       \* an empty message object; nothing heard yet

Mobs == {MobOf[o] : o \in Objs}
Stages == {"none", "init1", "init2", "running"}

ASSUME MobAssumption ==
  /\ Confs \subseteq SUBSET Objs /\ Commands \subseteq Stages
  /\ DOMAIN MobOf = Objs
  /\ 0 \in Readings /\ Invalid \notin Readings
  /\ \A m \in Mobs : None \notin [{o \in Objs : MobOf[o] = m} -> Readings \cup {Invalid}]

VARIABLES
  conf,        \* the objects this node has
  prog,        \* which of main's loops is running
  stage,       \* gFwStage
  iodata,      \* gIOData, per object
  marked,      \* gMobMarkedTx
  mob,         \* the transmit objects: what is waiting for the bus
  heard,       \* the last frame of each object on the bus
  unreported   \* history: changed or restarted behind the bus's back

mobVars == <<conf, prog, stage, iodata, marked, mob, heard, unreported>>

Members(m) == {o \in Objs : MobOf[o] = m}
Data(m) == [o \in Members(m) |-> iodata[o]]
Frames(m) == [Members(m) -> Readings \cup {Invalid}] \cup {None}
Running == prog = "run"

MobTypeOK ==
  /\ conf \in Confs
  /\ prog \in {"init1", "init2", "run"} /\ stage \in Stages
  /\ iodata \in [Objs -> Readings \cup {Invalid}]
  /\ marked \subseteq Mobs /\ unreported \subseteq Mobs
  /\ mob = [m \in Mobs |-> mob[m]] /\ heard = [m \in Mobs |-> heard[m]]
  /\ \A m \in Mobs : mob[m] \in Frames(m) /\ heard[m] \in Frames(m)

(* After power-on: the statics of main.cpp, and gIOData once it is there.   *)
MobInit ==
  /\ conf \in Confs /\ heard = [m \in Mobs |-> None]
  /\ prog = "init1" /\ stage = "init1"
  /\ iodata = [o \in Objs |-> 0]
  /\ marked = {} /\ mob = [m \in Mobs |-> None]
  /\ unreported = Mobs

MobReset ==
  /\ prog' = "init1" /\ stage' = "init1"
  /\ iodata' = [o \in Objs |-> 0]
  /\ marked' = {} /\ mob' = [m \in Mobs |-> None]
  /\ unreported' = Mobs
  /\ UNCHANGED <<conf, heard>>

-----------------------------------------------------------------------------
(* The loops of main end when the stage is no longer theirs.                *)
Loop(s) == IF prog = "init1" /\ s = "init1" THEN "init1"
           ELSE IF prog # "run" /\ s = "init2" THEN "init2" ELSE "run"

(* enableCanPvExchange writes CANCDMOB: a transmit object that waits for    *)
(* the bus is switched off, unless its frame is just going out.             *)
Enabling(s) == s # stage /\ s = "running"

(* svc(): CmdSetStage.                                                      *)
SetStage(s) ==
  /\ stage' = s /\ prog' = Loop(s)
  /\ \E off \in IF Enabling(s) THEN SUBSET {m \in Mobs : mob[m] # None} ELSE {{}} :
       /\ mob' = [m \in Mobs |-> IF m \in off THEN None ELSE mob[m]]
       /\ unreported' = IF stage = "running" THEN unreported
                        ELSE unreported \cup (off \ marked)
  /\ UNCHANGED <<conf, iodata, marked, heard>>

(* svc(): CmdSetOwObjParams, CmdSetSHT11Params, CmdSetSCD41Params make the  *)
(* values invalid; sent by the configuration tool in stage init2.           *)
SetParams(sensors) ==
  /\ prog = "init2"
  /\ iodata' = [o \in Objs |-> IF o \in sensors \cap conf THEN Invalid ELSE iodata[o]]
  /\ UNCHANGED <<conf, prog, stage, marked, mob, heard, unreported>>

(* svc(): CmdFlushAll.                                                      *)
FlushAll ==
  /\ prog # "init1"
  /\ marked' = marked \cup {MobOf[o] : o \in conf}
  /\ unreported' = unreported \ marked'
  /\ UNCHANGED <<conf, prog, stage, iodata, mob, heard>>

(* An assignment to process data, and markMobTx where it changes them.      *)
Changed(new) == {MobOf[o] : o \in {p \in Objs : new[p] # iodata[p]}}
MutMarks(new) == {}
Marks(new) == Changed(new)
Report(new) ==
  /\ iodata' = new
  /\ marked' = marked \cup Marks(new)
  /\ unreported' = unreported \ Changed(new)
  /\ UNCHANGED <<conf, prog, stage, mob, heard>>

(* run(): a marked object is copied when its message object is free ...     *)
MutFree(m) == TRUE     \* the mark is cleared, busy or not
Free(m) == mob[m] = None
Load(m) ==
  /\ Running /\ m \in marked /\ Free(m)
  /\ mob' = [mob EXCEPT ![m] = IF @ = None THEN Data(m) ELSE @]
  /\ marked' = marked \ {m}
  /\ UNCHANGED <<conf, prog, stage, iodata, heard, unreported>>

(* ... and the controller sends it when the bus is free.                    *)
Transmit(m) ==
  /\ mob[m] # None
  /\ heard' = [heard EXCEPT ![m] = mob[m]]
  /\ mob' = [mob EXCEPT ![m] = None]
  /\ UNCHANGED <<conf, prog, stage, iodata, marked, unreported>>

Svc == FlushAll \/ \E s \in Commands : SetStage(s)
Bus == \E m \in Mobs : Load(m) \/ Transmit(m)
-----------------------------------------------------------------------------
(* What is not marked and has not gone unreported since a restart, an       *)
(* abandoned one-wire round or a change of stage is on the bus, or on its   *)
(* way, as it is now: also when it changed again while its message object   *)
(* waited for the bus (isMobMarkedTx, CANEN, clearMarkTxMob).               *)
NoLostReport ==
  \A m \in Mobs \ (marked \cup unreported) :
    Data(m) = IF mob[m] # None THEN mob[m] ELSE heard[m]
=============================================================================
