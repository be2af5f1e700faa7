----------------------------- MODULE CanOutputs -----------------------------
(***************************************************************************)
(* The output half of the CAN link: bytd's output items (DigOutItem,       *)
(* Pwm16Item), can::OutputControl, CanBus with its single outstanding      *)
(* write, the socket, and the receive side of the nodes (avr/fw).  All     *)
(* bytd code here runs on the io thread, so a handler is one action.       *)
(*                                                                         *)
(* CanBus::send allows one frame at a time: "pending" is cleared only when *)
(* the frame is read back from the bus (CAN_RAW_RECV_OWN_MSGS).  A frame   *)
(* that cannot be sent waits as OutputMsg::needUpdate until writeReady.    *)
(***************************************************************************)
EXTENDS Integers, Sequences, FiniteSets

CONSTANTS
  Items,        \* the output items
  NFrames,      \* output frames are numbered 1..NFrames in OutputControl::outputs
  FrameOf,      \* OutputItem::idx, the frame of each item
  Values,       \* the values of an item (a bit, or a 16 bit duty)
  Off,          \* the value an item and the pins start with
  None,         \* "nothing": no frame, no snapshot
  RxBound,      \* bound on the socket's receive queue
  NodeKeepsUp,  \* TRUE: a node empties its receive object before the next frame
  BusFaults     \* TRUE: socket reads and writes may fail

Frames   == 1..NFrames
StageId  == 0                \* the broadcast "set stage running"
Foreign  == NFrames + 1      \* any frame sent by a node (an input)
Ids      == 0..(NFrames + 1)
Members(f) == {i \in Items : FrameOf[i] = f}
Payload(f) == [Members(f) -> Values]
Message  == UNION {[id : {f}, data : Payload(f)] : f \in Ids}

ASSUME CanAssumption ==
  /\ NFrames \in Nat \ {0}
  /\ FrameOf \in [Items -> Frames]
  /\ Off \in Values
  /\ RxBound \in Nat \ {0}
  /\ NodeKeepsUp \in BOOLEAN
  /\ BusFaults \in BOOLEAN
  /\ None \notin Message
  /\ \A f \in Frames : None \notin Payload(f)

VARIABLES
  value,        \* item.value, which is also what its frame's data holds
  needUpdate,   \* OutputMsg::needUpdate
  pending,      \* CanBus::pending
  frameWr,      \* CanBus::frame_wr
  readArmed,    \* an async_read_some is outstanding
  txSock,       \* the frame handed to the socket and not yet on the bus
  rxq,          \* frames waiting in the socket's receive queue
  handed,       \* per frame, the data of the last send() that took it
  nodeMob,      \* the node's receive object of each id, None when empty
  nodeRun,      \* the node is in stage running
  nodeOut       \* the node's pins

bytd == <<value, needUpdate, handed>>
bus  == <<pending, frameWr, readArmed, txSock, rxq>>
node == <<nodeMob, nodeRun, nodeOut>>
vars == <<value, needUpdate, handed, pending, frameWr, readArmed, txSock, rxq,
          nodeMob, nodeRun, nodeOut>>

Data(f) == [i \in Members(f) |-> value[i]]
MutMsg(f) == [id |-> f, data |-> value]  \* the whole table, not the frame's part
Msg(f)  == [id |-> f, data |-> Data(f)]
Own(m)  == m.id \in 0..NFrames

(* The types; a frame carries the items that live in it and no others.      *)
TypeOK ==
  /\ value \in [Items -> Values]
  /\ needUpdate \in [Frames -> BOOLEAN]
  /\ pending \in BOOLEAN
  /\ frameWr \in Message
  /\ readArmed \in BOOLEAN
  /\ txSock \in Message \cup {None}
  /\ rxq \in Seq(Message)
  /\ handed = [f \in Frames |-> handed[f]]
  /\ \A f \in Frames : handed[f] \in Payload(f) \cup {None}
  /\ nodeMob = [id \in 0..NFrames |-> nodeMob[id]]
  /\ \A id \in 0..NFrames : nodeMob[id] \in [id : {id}, data : Payload(id)] \cup {None}
  /\ nodeRun \in BOOLEAN
  /\ nodeOut \in [Items -> Values]

-----------------------------------------------------------------------------
(* AppContainer's constructor has sent the stage broadcast; OutputControl   *)
(* was built with zeroed frames.                                            *)
Zeros    == [i \in Items |-> Off]
Empty(f) == [id |-> f, data |-> [i \in Members(f) |-> Off]]
StageMsg == Empty(StageId)     \* no item lives in it

Init ==
  /\ value = Zeros
  /\ needUpdate = [f \in Frames |-> FALSE]
  /\ handed = [f \in Frames |-> None]
  /\ pending = TRUE /\ frameWr = StageMsg /\ txSock = StageMsg
  /\ readArmed = TRUE /\ rxq = <<>>
  /\ nodeMob = [id \in 0..NFrames |-> None]
  /\ nodeRun = FALSE
  /\ nodeOut = Zeros

(* CanBus::send: takes the frame only when none is outstanding.             *)
Accept(f) ==
  /\ pending' = TRUE
  /\ frameWr' = Msg(f)'
  /\ txSock' = Msg(f)'
  /\ handed' = [handed EXCEPT ![f] = Data(f)']

MutSetItem(i, v) ==  \* needUpdate cleared whether or not send() took the frame
  LET f == FrameOf[i] IN
  /\ v # value[i]
  /\ value' = [value EXCEPT ![i] = v]
  /\ UNCHANGED needUpdate
  /\ IF pending THEN UNCHANGED <<pending, frameWr, txSock, handed>> ELSE Accept(f)

(* A changed item: set(), send(), OutputControl::update, CanBus::send.      *)
SetItem(i, v) ==
  LET f == FrameOf[i] IN
  /\ v # value[i]
  /\ value' = [value EXCEPT ![i] = v]
  /\ IF pending
       THEN /\ needUpdate' = [needUpdate EXCEPT ![f] = TRUE]
            /\ UNCHANGED <<pending, frameWr, txSock, handed>>
       ELSE /\ needUpdate' = [needUpdate EXCEPT ![f] = FALSE]
            /\ Accept(f)

(* A command from MQTT or a timer.                                          *)
Set == /\ \E i \in Items, v \in Values : SetItem(i, v)
       /\ UNCHANGED <<readArmed, rxq, nodeMob, nodeRun, nodeOut>>

MutFirstWaiting(f) ==  \* scans from the last output
  needUpdate[f] /\ \A g \in Frames : g > f => ~needUpdate[g]

(* The frames writeReady finds waiting, scanned from the first output on:   *)
(* the first is sent, which makes CanBus busy again, so the scan ends.      *)
FirstWaiting(f) == /\ needUpdate[f]
                   /\ \A g \in Frames : g < f => ~needUpdate[g]

MutWriteReady ==  \* nobody connected: the bus is freed and nothing is sent
  /\ pending' = FALSE
  /\ UNCHANGED <<value, needUpdate, frameWr, txSock, handed>>

WriteReady ==
  \/ /\ \E f \in Frames : needUpdate[f]
     /\ \E f \in Frames :
          /\ FirstWaiting(f)
          /\ needUpdate' = [needUpdate EXCEPT ![f] = FALSE]
          /\ value' = value
          /\ Accept(f)
  \/ /\ \A f \in Frames : ~needUpdate[f]
     /\ pending' = FALSE
     /\ UNCHANGED <<value, needUpdate, frameWr, txSock, handed>>

MutReadBack ==  \* any frame read while one is pending counts as its echo
  /\ readArmed /\ rxq # <<>> /\ pending
  /\ rxq' = Tail(rxq)
  /\ WriteReady
  /\ UNCHANGED <<readArmed, nodeMob, nodeRun, nodeOut>>

(* CanBus::read's handler when the frame is the outstanding one: pending is *)
(* cleared and writeReady called.                                           *)
ReadBack ==
  /\ readArmed /\ rxq # <<>>
  /\ pending /\ Head(rxq) = frameWr
  /\ rxq' = Tail(rxq)
  /\ WriteReady
  /\ UNCHANGED <<readArmed, nodeMob, nodeRun, nodeOut>>

MutReadOther ==  \* read() is not called again after onRecv
  /\ readArmed /\ rxq # <<>>
  /\ ~(pending /\ Head(rxq) = frameWr)
  /\ rxq' = Tail(rxq)
  /\ readArmed' = FALSE
  /\ UNCHANGED <<bytd, pending, frameWr, txSock, nodeMob, nodeRun, nodeOut>>

(* ... and for any other frame: onRecv, InputControl::onRecvMsg.  A changed *)
(* input may be wired to an output (a button that toggles a light).         *)
ReadOther ==
  /\ readArmed /\ rxq # <<>>
  /\ ~(pending /\ Head(rxq) = frameWr)
  /\ rxq' = Tail(rxq)
  /\ \/ UNCHANGED <<value, needUpdate, pending, frameWr, txSock, handed>>
     \/ Head(rxq).id = Foreign /\ \E i \in Items, v \in Values : SetItem(i, v)
  /\ UNCHANGED <<readArmed, nodeMob, nodeRun, nodeOut>>

(* A failed read is logged and read() is not called again.                  *)
ReadFails ==
  /\ BusFaults /\ readArmed
  /\ readArmed' = FALSE
  /\ UNCHANGED <<bytd, pending, frameWr, txSock, rxq, node>>

(* A failed write is logged only: pending stays set.                        *)
WriteFails ==
  /\ BusFaults /\ txSock # None
  /\ txSock' = None
  /\ UNCHANGED <<bytd, pending, frameWr, readArmed, rxq, node>>

-----------------------------------------------------------------------------
(* The bus: the frame reaches the nodes and is echoed to the sender.  A     *)
(* receive object that still holds a frame, or is not enabled yet, misses   *)
(* it.                                                                      *)
Listening(id) == nodeMob[id] = None /\ (id # StageId => nodeRun)

Transmit ==
  /\ txSock # None /\ Len(rxq) < RxBound
  /\ NodeKeepsUp => \A id \in 0..NFrames : nodeMob[id] = None
  /\ nodeMob' = IF Listening(txSock.id)
                  THEN [nodeMob EXCEPT ![txSock.id] = txSock]
                  ELSE nodeMob
  /\ rxq' = Append(rxq, txSock)
  /\ txSock' = None
  /\ UNCHANGED <<bytd, pending, frameWr, readArmed, nodeRun, nodeOut>>

(* A node reports an input; one place of the queue is left for the echo.    *)
NodeSends ==
  /\ Len(rxq) < RxBound - 1
  /\ rxq' = Append(rxq, Empty(Foreign))
  /\ UNCHANGED <<bytd, pending, frameWr, readArmed, txSock, node>>

(* The node's loop: svc() CmdSetStage enables the process values ...        *)
NodeStage ==
  /\ nodeMob[StageId] # None
  /\ nodeRun' = TRUE
  /\ nodeMob' = [nodeMob EXCEPT ![StageId] = None]
  /\ UNCHANGED <<bytd, bus, nodeOut>>

MutNodeOutput(f) ==  \* the iteration ends with the first pin that changes
  /\ nodeRun /\ nodeMob[f] # None
  /\ \E i \in Members(f) : nodeOut' = [nodeOut EXCEPT ![i] = nodeMob[f].data[i]]
  /\ nodeMob' = [nodeMob EXCEPT ![f] = None]
  /\ UNCHANGED <<bytd, bus, nodeRun>>

(* ... and run() copies a received frame and drives every pin it maps to.   *)
NodeOutput(f) ==
  /\ nodeRun /\ nodeMob[f] # None
  /\ nodeOut' = [i \in Items |-> IF FrameOf[i] = f THEN nodeMob[f].data[i]
                                                   ELSE nodeOut[i]]
  /\ nodeMob' = [nodeMob EXCEPT ![f] = None]
  /\ UNCHANGED <<bytd, bus, nodeRun>>

(* bytd is restarted; by the time it is up again the kernel has sent what   *)
(* it held.                                                                 *)
Restart ==
  /\ txSock = None
  /\ value' = Zeros
  /\ needUpdate' = [f \in Frames |-> FALSE]
  /\ handed' = [f \in Frames |-> None]
  /\ pending' = TRUE /\ frameWr' = StageMsg /\ txSock' = StageMsg
  /\ readArmed' = TRUE /\ rxq' = <<>>
  /\ UNCHANGED node

Next ==
  \/ Set \/ ReadBack \/ ReadOther \/ ReadFails \/ WriteFails
  \/ Transmit \/ NodeSends \/ NodeStage \/ Restart
  \/ \E f \in Frames : NodeOutput(f)

Spec == Init /\ [][Next]_vars

(* The kernel sends what it was given, asio delivers what was received, a   *)
(* node's main loop polls its receive objects.                              *)
Fairness ==
  /\ WF_vars(Transmit)
  /\ WF_vars(ReadBack)
  /\ WF_vars(ReadOther)
  /\ WF_vars(NodeStage)
  /\ \A f \in Frames : WF_vars(NodeOutput(f))

FairSpec == Spec /\ Fairness
-----------------------------------------------------------------------------
(* A frame waits only behind an outstanding one: the daemon never sits on a *)
(* change with the bus free (send() under the lock, writeReady's scan).     *)
NoIdleBacklog == (\E f \in Frames : needUpdate[f]) => pending

(* No update is lost in the daemon: a frame that is not marked needUpdate   *)
(* was last handed to the socket with the values its items have now.        *)
NoLostUpdate ==
  \A f \in Frames : ~needUpdate[f] =>
     IF handed[f] = None THEN Data(f) = [i \in Members(f) |-> Off]
                         ELSE handed[f] = Data(f)

(* Whatever of the daemon's is under way, in the socket or as an echo, is   *)
(* the one frame in frame_wr, and pending is set: so the echo that clears   *)
(* pending is the echo of the frame being waited for.                       *)
OneInFlight ==
  /\ txSock # None => /\ pending /\ txSock = frameWr
                      /\ \A k \in 1..Len(rxq) : ~Own(rxq[k])
  /\ \A k \in 1..Len(rxq) : Own(rxq[k]) =>
        /\ pending /\ rxq[k] = frameWr
        /\ \A l \in 1..Len(rxq) : Own(rxq[l]) => l = k

(* Pins of a frame sent since the daemon started show the daemon's values.  *)
Agreed == \A f \in Frames : handed[f] # None =>
             \A i \in Members(f) : nodeOut[i] = value[i]

(* Once the daemon's values stay put, the pins come to agree with them and  *)
(* stay so, in whatever order changes and echoes met (update, writeReady).  *)
OutputsConverge == <>[][~(Restart \/ value' # value)]_vars => <>[]Agreed

(* The first output is never starved, however often the others change:      *)
(* writeReady scans from the front.  (The later ones can be.)               *)
FirstFrameServed == needUpdate[1] ~> ~needUpdate[1]

(* The pins see snapshots of the daemon's table, in order, each at most     *)
(* once: frame_wr is a copy and only one of it is under way.                *)
Chan == [f \in Frames |->
           (IF nodeMob[f] # None THEN <<nodeMob[f].data>> ELSE <<>>) \o
           (IF txSock # None /\ txSock.id = f THEN <<txSock.data>> ELSE <<>>)]
LV == INSTANCE LatestValue WITH chan <- Chan, Depth <- 2
SnapshotsInOrder == LV!LVSpec

(* No change of an output is ever lost in the daemon, nor left waiting with *)
(* the bus free, whatever comes while its frame is under way (update, send, *)
(* writeReady).                                                             *)
UpdatesKept == NoLostUpdate /\ NoIdleBacklog

(* Outputs left alone are shown, and the first is served even if the others *)
(* never rest (update, writeReady).                                         *)
OutputsServed == OutputsConverge /\ FirstFrameServed
=============================================================================
