-------------------------- MODULE CanOutputsProofs --------------------------
(***************************************************************************)
(* Safety of the CAN output path for any number of items, frames, values   *)
(* and any receive queue length, with or without faults; and that it       *)
(* implements LatestValue: every step of the daemon, the bus and the nodes *)
(* is one of the abstract specification's, or leaves what the pins can get *)
(* to see alone.                                                           *)
(***************************************************************************)
EXTENDS CanOutputs, SequenceTheorems, TLAPS

(* TypeOK alone does not say that the outstanding frame is one of bytd's,   *)
(* which is what makes its echo recognisable among the nodes' frames.       *)
IInv == /\ TypeOK
        /\ Own(frameWr)
        /\ txSock # None => Own(txSock)
        /\ NoIdleBacklog
        /\ NoLostUpdate
        /\ OneInFlight

(* A frame of the right items is a message.                                 *)
LEMMA MessageOf ==
  ASSUME NEW f \in Ids, NEW d \in Payload(f)
  PROVE  [id |-> f, data |-> d] \in Message
BY DEF Message

(* A message is a frame of the items of its id.                             *)
LEMMA MessageParts ==
  ASSUME NEW m \in Message
  PROVE  m.id \in Ids /\ m \in [id : {m.id}, data : Payload(m.id)]
BY DEF Message

(* The zeroed frame of every id is a message.                               *)
LEMMA EmptyIsMessage == \A f \in Ids : Empty(f) \in Message
<1> TAKE f \in Ids
<1>1. [i \in Members(f) |-> Off] \in Payload(f)
  BY CanAssumption DEF Payload
<1> QED BY <1>1, MessageOf DEF Empty

(* The stage broadcast is one of bytd's own frames.                         *)
LEMMA StageIsOwn == StageMsg \in Message /\ Own(StageMsg) /\ StageMsg # None
<1>1. StageId \in Ids
  BY CanAssumption DEF StageId, Ids
<1>2. StageMsg \in Message
  BY <1>1, EmptyIsMessage DEF StageMsg
<1>3. Own(StageMsg)
  BY CanAssumption DEF StageMsg, Empty, Own, StageId
<1> QED BY <1>2, <1>3, CanAssumption

(* Taking a snapshot of the table as the next outstanding frame.            *)
LEMMA SnapshotIsOwn ==
  ASSUME NEW f \in Frames, NEW table \in [Items -> Values]
  PROVE  LET d == [i \in Members(f) |-> table[i]]
             m == [id |-> f, data |-> d]
         IN d \in Payload(f) /\ m \in Message /\ Own(m)
<1> DEFINE d == [i \in Members(f) |-> table[i]]
<1>1. d \in Payload(f)
  BY DEF Payload, Members
<1>2. f \in Ids /\ f \in 0..NFrames
  BY CanAssumption DEF Frames, Ids
<1>3. [id |-> f, data |-> d] \in Message
  BY <1>1, <1>2, MessageOf
<1> QED BY <1>1, <1>2, <1>3 DEF Own

(* At the start only the stage broadcast is under way.                      *)
LEMMA InitIInv == Init => IInv
<1> SUFFICES ASSUME Init PROVE IInv
  OBVIOUS
<1>1. Zeros \in [Items -> Values]
  BY CanAssumption DEF Zeros
<1>2. TypeOK
  <2>1. handed = [f \in Frames |-> handed[f]] /\ \A f \in Frames : handed[f] = None
    BY DEF Init
  <2>2. /\ nodeMob = [id \in 0..NFrames |-> nodeMob[id]]
        /\ \A id \in 0..NFrames : nodeMob[id] = None
    BY DEF Init
  <2>3. rxq \in Seq(Message)
    BY DEF Init
  <2> QED BY <1>1, <2>1, <2>2, <2>3, StageIsOwn DEF Init, TypeOK
<1>3. OneInFlight
  BY DEF OneInFlight, Init
<1>4. NoLostUpdate
  BY DEF NoLostUpdate, Data, Init, Zeros, Members
<1> QED BY <1>2, <1>3, <1>4, StageIsOwn DEF IInv, NoIdleBacklog, Init

-----------------------------------------------------------------------------
(* Reading the head of the queue moves every other frame one place up.      *)
LEMMA TailOf ==
  ASSUME NEW q \in Seq(Message), q # <<>>
  PROVE  /\ Tail(q) \in Seq(Message)
         /\ Head(q) = q[1] /\ 1 \in 1..Len(q)
         /\ \A k \in 1..Len(Tail(q)) : k + 1 \in 1..Len(q) /\ Tail(q)[k] = q[k + 1]
  OBVIOUS

(* send() with nothing of the daemon's under way.                           *)
LEMMA AcceptStep ==
  ASSUME NEW f \in Frames, value' \in [Items -> Values], TypeOK, Accept(f),
         rxq' \in Seq(Message), \A k \in 1..Len(rxq') : ~Own(rxq'[k])
  PROVE  /\ pending' \in BOOLEAN /\ frameWr' \in Message
         /\ txSock' \in Message \cup {None}
         /\ handed' = [g \in Frames |-> handed'[g]]
         /\ \A g \in Frames : handed'[g] \in Payload(g) \cup {None}
         /\ handed'[f] = Data(f)' /\ handed'[f] # None
         /\ \A g \in Frames \ {f} : handed'[g] = handed[g]
         /\ Own(frameWr') /\ Own(txSock')
         /\ OneInFlight'
<1>1. /\ Data(f)' \in Payload(f) /\ Msg(f)' \in Message /\ Own(Msg(f)')
  BY SnapshotIsOwn DEF Data, Msg
<1>2. handed' = [handed EXCEPT ![f] = Data(f)']
  BY DEF Accept
<1>3. pending' = TRUE /\ frameWr' = Msg(f)' /\ txSock' = Msg(f)'
  BY DEF Accept
<1>4. OneInFlight'
  BY <1>3 DEF OneInFlight
<1>5. handed'[f] = Data(f)' /\ handed'[f] # None
  BY <1>1, <1>2, CanAssumption DEF TypeOK
<1>6. /\ handed' = [g \in Frames |-> handed'[g]]
      /\ \A g \in Frames \ {f} : handed'[g] = handed[g]
  BY <1>2 DEF TypeOK
<1>7. \A g \in Frames : handed'[g] \in Payload(g) \cup {None}
  BY <1>1, <1>5, <1>6 DEF TypeOK
<1> QED BY <1>1, <1>3, <1>4, <1>5, <1>6, <1>7

(* What set() keeps, whether the frame is sent or left waiting; the queue   *)
(* may have lost its head, read just before.                                *)
LEMMA SetItemStep ==
  ASSUME IInv, NEW i \in Items, NEW v \in Values, SetItem(i, v),
         rxq' = rxq \/ (rxq # <<>> /\ rxq' = Tail(rxq) /\ ~(pending /\ Head(rxq) = frameWr)),
         UNCHANGED <<readArmed, nodeMob, nodeRun, nodeOut>>
  PROVE  IInv'
<1> DEFINE f == FrameOf[i]
<1> USE DEF IInv
<1>1. f \in Frames /\ i \in Members(f)
  BY CanAssumption DEF Members
<1>2. value' = [value EXCEPT ![i] = v] /\ value' \in [Items -> Values]
  BY DEF SetItem, TypeOK
<1>3. \A g \in Frames \ {f} : Data(g)' = Data(g)
  BY <1>2 DEF Data, Members, TypeOK
<1>4. rxq' \in Seq(Message)
  BY TailOf DEF TypeOK
<1>5. CASE pending
  <2>1. /\ needUpdate' = [needUpdate EXCEPT ![f] = TRUE]
        /\ UNCHANGED <<pending, frameWr, txSock, handed>>
    BY <1>5 DEF SetItem
  <2>2. TypeOK'
    BY <1>2, <1>4, <2>1 DEF TypeOK
  <2>3. NoIdleBacklog'
    BY <1>5, <2>1 DEF NoIdleBacklog
  <2>4. NoLostUpdate'
    BY <1>1, <1>3, <2>1 DEF NoLostUpdate, TypeOK
  <2>5. OneInFlight'
    <3>1. CASE rxq' = rxq
      BY <2>1, <3>1 DEF OneInFlight
    <3>2. CASE rxq # <<>> /\ rxq' = Tail(rxq)
      BY <2>1, <3>2, TailOf DEF OneInFlight, TypeOK
    <3> QED BY <3>1, <3>2
  <2> QED BY <2>1, <2>2, <2>3, <2>4, <2>5 DEF Own
<1>6. CASE ~pending
  <2>1. needUpdate' = [needUpdate EXCEPT ![f] = FALSE] /\ Accept(f)
    BY <1>6 DEF SetItem
  <2>2. \A k \in 1..Len(rxq') : ~Own(rxq'[k])
    BY <1>6, TailOf DEF OneInFlight, TypeOK
  <2>3. /\ pending' \in BOOLEAN /\ frameWr' \in Message
        /\ txSock' \in Message \cup {None}
        /\ handed' = [g \in Frames |-> handed'[g]]
        /\ \A g \in Frames : handed'[g] \in Payload(g) \cup {None}
        /\ handed'[f] = Data(f)' /\ handed'[f] # None
        /\ \A g \in Frames \ {f} : handed'[g] = handed[g]
        /\ Own(frameWr') /\ Own(txSock')
        /\ OneInFlight'
    BY <1>1, <1>2, <1>4, <2>1, <2>2, AcceptStep
  <2>4. TypeOK'
    BY <1>2, <1>4, <2>1, <2>3 DEF TypeOK
  <2>5. NoIdleBacklog'
    BY <2>1 DEF NoIdleBacklog, Accept
  <2>6. NoLostUpdate'
    BY <1>1, <1>3, <2>1, <2>3 DEF NoLostUpdate, TypeOK
  <2> QED BY <2>3, <2>4, <2>5, <2>6 DEF Own
<1> QED BY <1>5, <1>6

(* The echo of the outstanding frame: nothing else of bytd's is under way,  *)
(* so the first waiting frame can be sent.                                  *)
LEMMA ReadBackStep == IInv /\ ReadBack => IInv'
<1> SUFFICES ASSUME IInv, ReadBack PROVE IInv'
  OBVIOUS
<1> USE DEF IInv
<1>1. /\ rxq # <<>> /\ pending /\ Head(rxq) = frameWr /\ rxq' = Tail(rxq)
      /\ WriteReady
      /\ UNCHANGED <<readArmed, nodeMob, nodeRun, nodeOut>>
  BY DEF ReadBack
<1>2. rxq' \in Seq(Message)
  BY <1>1, TailOf DEF TypeOK
<1>3. txSock = None /\ \A k \in 1..Len(rxq') : ~Own(rxq'[k])
  <2>1. 1 \in 1..Len(rxq) /\ Own(rxq[1])
    BY <1>1, TailOf DEF TypeOK
  <2>2. \A l \in 1..Len(rxq) : Own(rxq[l]) => l = 1
    BY <2>1 DEF OneInFlight
  <2>3. txSock = None
    BY <2>1 DEF OneInFlight
  <2>4. \A k \in 1..Len(rxq') : k + 1 \in 1..Len(rxq) /\ rxq'[k] = rxq[k + 1]
    BY <1>1, TailOf DEF TypeOK
  <2>5. \A k \in 1..Len(rxq') : k + 1 # 1
    OBVIOUS
  <2> QED BY <2>2, <2>3, <2>4, <2>5
<1>4. ASSUME NEW f \in Frames, FirstWaiting(f),
             needUpdate' = [needUpdate EXCEPT ![f] = FALSE], value' = value, Accept(f)
      PROVE  IInv'
  <2>1. /\ pending' \in BOOLEAN /\ frameWr' \in Message
        /\ txSock' \in Message \cup {None}
        /\ handed' = [g \in Frames |-> handed'[g]]
        /\ \A g \in Frames : handed'[g] \in Payload(g) \cup {None}
        /\ handed'[f] = Data(f)' /\ handed'[f] # None
        /\ \A g \in Frames \ {f} : handed'[g] = handed[g]
        /\ Own(frameWr') /\ Own(txSock')
        /\ OneInFlight'
    BY <1>2, <1>3, <1>4, AcceptStep DEF TypeOK
  <2>2. TypeOK'
    BY <1>1, <1>2, <1>4, <2>1 DEF TypeOK
  <2>3. NoIdleBacklog'
    BY <1>4 DEF NoIdleBacklog, Accept
  <2>4. \A g \in Frames : Data(g)' = Data(g)
    BY <1>4 DEF Data
  <2>5. NoLostUpdate'
    BY <1>4, <2>1, <2>4 DEF NoLostUpdate, TypeOK
  <2> QED BY <2>1, <2>2, <2>3, <2>5 DEF Own
<1>5. CASE /\ \A f \in Frames : ~needUpdate[f]
           /\ pending' = FALSE
           /\ UNCHANGED <<value, needUpdate, frameWr, txSock, handed>>
  <2>1. TypeOK'
    BY <1>1, <1>2, <1>5 DEF TypeOK
  <2>2. NoIdleBacklog' /\ OneInFlight'
    BY <1>3, <1>5 DEF NoIdleBacklog, OneInFlight
  <2>3. NoLostUpdate'
    BY <1>5 DEF NoLostUpdate, Data
  <2> QED BY <1>5, <2>1, <2>2, <2>3 DEF Own
<1> QED BY <1>1, <1>4, <1>5 DEF WriteReady

(* Any other frame read: an input may set an output.                        *)
LEMMA ReadOtherStep == IInv /\ ReadOther => IInv'
<1> SUFFICES ASSUME IInv, ReadOther PROVE IInv'
  OBVIOUS
<1>1. /\ rxq # <<>> /\ rxq' = Tail(rxq) /\ ~(pending /\ Head(rxq) = frameWr)
      /\ UNCHANGED <<readArmed, nodeMob, nodeRun, nodeOut>>
  BY DEF ReadOther
<1>2. CASE UNCHANGED <<value, needUpdate, pending, frameWr, txSock, handed>>
  <2>1. TypeOK'
    BY <1>1, <1>2, TailOf DEF IInv, TypeOK
  <2>2. OneInFlight'
    BY <1>1, <1>2, TailOf DEF IInv, OneInFlight, TypeOK
  <2>3. NoLostUpdate' /\ NoIdleBacklog'
    BY <1>2 DEF IInv, NoLostUpdate, NoIdleBacklog, Data
  <2> QED BY <1>2, <2>1, <2>2, <2>3 DEF IInv, Own
<1>3. CASE \E i \in Items, v \in Values : SetItem(i, v)
  BY <1>1, <1>3, SetItemStep
<1> QED BY <1>2, <1>3 DEF ReadOther

(* The frame leaves the socket and its echo enters the queue.               *)
LEMMA TransmitStep == IInv /\ Transmit => IInv'
<1> SUFFICES ASSUME IInv, Transmit PROVE IInv'
  OBVIOUS
<1> USE DEF IInv
<1>1. /\ txSock # None /\ txSock \in Message /\ Own(txSock)
      /\ rxq' = Append(rxq, txSock) /\ txSock' = None
      /\ UNCHANGED <<value, needUpdate, handed, pending, frameWr, readArmed, nodeRun, nodeOut>>
  BY DEF Transmit, TypeOK, bytd
<1>2. /\ rxq' \in Seq(Message) /\ Len(rxq') = Len(rxq) + 1
      /\ rxq'[Len(rxq) + 1] = txSock
      /\ \A k \in 1..Len(rxq) : rxq'[k] = rxq[k]
      /\ Len(rxq) \in Nat
  BY <1>1 DEF TypeOK
<1>3. \A id \in 0..NFrames : nodeMob'[id] \in [id : {id}, data : Payload(id)] \cup {None}
  <2>1. txSock.id \in 0..NFrames /\ txSock \in [id : {txSock.id}, data : Payload(txSock.id)]
    BY <1>1, MessageParts DEF Own
  <2>2. nodeMob' = IF Listening(txSock.id)
                      THEN [nodeMob EXCEPT ![txSock.id] = txSock] ELSE nodeMob
    BY DEF Transmit
  <2> QED BY <2>1, <2>2 DEF TypeOK
<1>4. nodeMob' = [id \in 0..NFrames |-> nodeMob'[id]]
  BY DEF Transmit, TypeOK
<1>5. TypeOK'
  BY <1>1, <1>2, <1>3, <1>4 DEF TypeOK
<1>6. OneInFlight'
  <2>1. /\ pending' /\ txSock = frameWr' /\ \A k \in 1..Len(rxq) : ~Own(rxq[k])
    BY <1>1 DEF OneInFlight
  <2>2. \A k \in 1..Len(rxq') : Own(rxq'[k]) => k = Len(rxq) + 1
    BY <1>2, <2>1
  <2> QED BY <1>1, <1>2, <2>1, <2>2 DEF OneInFlight
<1>7. NoLostUpdate' /\ NoIdleBacklog'
  BY <1>1 DEF NoLostUpdate, NoIdleBacklog, Data
<1> QED BY <1>1, <1>5, <1>6, <1>7 DEF Own

(* A node's frame in the queue is not taken for one of bytd's.              *)
LEMMA NodeSendsStep == IInv /\ NodeSends => IInv'
<1> SUFFICES ASSUME IInv, NodeSends PROVE IInv'
  OBVIOUS
<1> USE DEF IInv
<1>1. /\ rxq' = Append(rxq, Empty(Foreign))
      /\ UNCHANGED <<value, needUpdate, handed, pending, frameWr, readArmed, txSock,
                     nodeMob, nodeRun, nodeOut>>
  BY DEF NodeSends, bytd, node
<1>2. Empty(Foreign) \in Message /\ ~Own(Empty(Foreign))
  BY EmptyIsMessage, CanAssumption DEF Foreign, Ids, Own, Empty
<1>3. /\ rxq' \in Seq(Message) /\ Len(rxq') = Len(rxq) + 1 /\ Len(rxq) \in Nat
      /\ ~Own(rxq'[Len(rxq) + 1])
      /\ \A k \in 1..Len(rxq) : rxq'[k] = rxq[k]
  BY <1>1, <1>2 DEF TypeOK
<1>4. \A k \in 1..Len(rxq') : Own(rxq'[k]) => k \in 1..Len(rxq) /\ Own(rxq[k])
  BY <1>3
<1>5. TypeOK'
  BY <1>1, <1>3 DEF TypeOK
<1>6. OneInFlight'
  BY <1>1, <1>3, <1>4 DEF OneInFlight
<1>7. NoLostUpdate' /\ NoIdleBacklog'
  BY <1>1 DEF NoLostUpdate, NoIdleBacklog, Data
<1> QED BY <1>1, <1>5, <1>6, <1>7 DEF Own

(* Steps of the socket's faults and of the nodes leave the daemon's table,  *)
(* its marks and the queue alone.                                           *)
LEMMA OutsideStep ==
  ASSUME IInv, UNCHANGED <<value, needUpdate, handed, pending, frameWr, rxq>>,
         txSock' = txSock \/ txSock' = None
  PROVE  (TypeOK' => IInv')
BY DEF IInv, NoLostUpdate, NoIdleBacklog, OneInFlight, Data, Own

(* The pins take what arrived; the daemon's side is not touched.            *)
LEMMA NodeOutputStep ==
  ASSUME IInv, NEW f \in Frames, NodeOutput(f)
  PROVE  IInv'
<1>1. f \in 0..NFrames /\ nodeMob[f].data \in Payload(f)
  BY CanAssumption DEF Frames, IInv, TypeOK, NodeOutput
<1>2. nodeOut' \in [Items -> Values]
  BY <1>1 DEF NodeOutput, Payload, Members, IInv, TypeOK
<1>3. /\ nodeMob' = [id \in 0..NFrames |-> nodeMob'[id]]
      /\ \A id \in 0..NFrames : nodeMob'[id] = nodeMob[id] \/ nodeMob'[id] = None
  BY <1>1 DEF NodeOutput, IInv, TypeOK
<1>4. UNCHANGED <<value, needUpdate, handed, pending, frameWr, readArmed, txSock, rxq, nodeRun>>
  BY DEF NodeOutput, bytd, bus
<1>5. TypeOK'
  BY <1>2, <1>3, <1>4 DEF IInv, TypeOK
<1> QED BY <1>4, <1>5, OutsideStep

(* A restart begins again with the stage broadcast alone.                   *)
LEMMA RestartStep == IInv /\ Restart => IInv'
<1> SUFFICES ASSUME IInv, Restart PROVE IInv'
  OBVIOUS
<1>1. Zeros \in [Items -> Values]
  BY CanAssumption DEF Zeros
<1>2. TypeOK'
  <2>1. handed' = [f \in Frames |-> handed'[f]] /\ \A f \in Frames : handed'[f] = None
    BY DEF Restart
  <2>2. rxq' \in Seq(Message) /\ UNCHANGED <<nodeMob, nodeRun, nodeOut>>
    BY DEF Restart, node
  <2> QED BY <1>1, <2>1, <2>2, StageIsOwn DEF Restart, IInv, TypeOK
<1>3. OneInFlight'
  BY DEF OneInFlight, Restart
<1>4. NoLostUpdate'
  BY DEF NoLostUpdate, Data, Restart, Zeros, Members
<1> QED BY <1>2, <1>3, <1>4, StageIsOwn DEF IInv, NoIdleBacklog, Restart, Own

(* Every step of the daemon, the bus and the nodes keeps the invariant.     *)
LEMMA NextIInv == IInv /\ [Next]_vars => IInv'
<1> SUFFICES ASSUME IInv, [Next]_vars PROVE IInv'
  OBVIOUS
<1>1. CASE Set
  BY <1>1, SetItemStep DEF Set
<1>2. CASE ReadBack
  BY <1>2, ReadBackStep
<1>3. CASE ReadOther
  BY <1>3, ReadOtherStep
<1>4. CASE ReadFails
  BY <1>4, OutsideStep DEF ReadFails, bytd, node, IInv, TypeOK
<1>5. CASE WriteFails
  BY <1>5, OutsideStep DEF WriteFails, bytd, node, IInv, TypeOK
<1>6. CASE Transmit
  BY <1>6, TransmitStep
<1>7. CASE NodeSends
  BY <1>7, NodeSendsStep
<1>8. CASE NodeStage
  <2>1. /\ nodeMob' = [id \in 0..NFrames |-> nodeMob'[id]]
        /\ \A id \in 0..NFrames : nodeMob'[id] = nodeMob[id] \/ nodeMob'[id] = None
    BY <1>8, CanAssumption DEF NodeStage, IInv, TypeOK, StageId
  <2>2. TypeOK'
    BY <1>8, <2>1 DEF NodeStage, bytd, bus, IInv, TypeOK
  <2> QED BY <1>8, <2>2, OutsideStep DEF NodeStage, bytd, bus
<1>9. CASE Restart
  BY <1>9, RestartStep
<1>10. CASE \E f \in Frames : NodeOutput(f)
  BY <1>10, NodeOutputStep
<1>11. CASE UNCHANGED vars
  <2>1. TypeOK'
    BY <1>11 DEF vars, IInv, TypeOK
  <2> QED BY <1>11, <2>1, OutsideStep DEF vars
<1> QED
  BY <1>1, <1>2, <1>3, <1>4, <1>5, <1>6, <1>7, <1>8, <1>9, <1>10, <1>11 DEF Next

(* So the invariant holds in every state.                                   *)
LEMMA Invariance == Spec => []IInv
BY InitIInv, NextIInv, PTL DEF Spec

-----------------------------------------------------------------------------
(* Every variable keeps its type: the frames of bytd and of the nodes never *)
(* leave the shapes the receivers rely on.                                  *)
THEOREM TypeCorrect == Spec => []TypeOK
BY Invariance, PTL DEF IInv

(* OutputControl never holds back a changed frame while CanBus is free.     *)
THEOREM NeverIdleWithBacklog == Spec => []NoIdleBacklog
BY Invariance, PTL DEF IInv

(* OutputControl never forgets a change: what is not marked needUpdate has  *)
(* been handed over with the values its items have now.                     *)
THEOREM NeverLosesUpdate == Spec => []NoLostUpdate
BY Invariance, PTL DEF IInv

(* CanBus has at most one frame under way and takes only its own echo for   *)
(* its confirmation.                                                        *)
THEOREM AtMostOneInFlight == Spec => []OneInFlight
BY Invariance, PTL DEF IInv

(* So no change of an output is lost or stuck in the daemon.                *)
THEOREM UpdatesStayKept == Spec => []UpdatesKept
BY NeverLosesUpdate, NeverIdleWithBacklog, PTL DEF UpdatesKept

-----------------------------------------------------------------------------
(* The snapshots of a frame under way are what its node has received and    *)
(* not shown, and what the socket holds.                                    *)
Received(f) == IF nodeMob[f] # None THEN <<nodeMob[f].data>> ELSE <<>>
InSocket(f) == IF txSock # None /\ txSock.id = f THEN <<txSock.data>> ELSE <<>>

(* So the abstract channel is these two, the older first.                   *)
LEMMA ChanIs ==
  /\ Chan = [f \in Frames |-> Received(f) \o InSocket(f)]
  /\ Chan' = [f \in Frames |-> Received(f)' \o InSocket(f)']
BY DEF Chan, Received, InSocket

(* Sequences of two, put together and taken apart.                          *)
LEMMA Pairs ==
  ASSUME NEW a, NEW b
  PROVE  /\ <<a>> \o <<b>> = <<a, b>>
         /\ Append(<<a>>, b) = <<a, b>>
         /\ SubSeq(<<a, b>>, 1, 1) = <<a>>
         /\ Tail(<<a, b>>) = <<b>>
         /\ Head(<<a, b>>) = a
         /\ Len(<<a, b>>) = 2
<1> DEFINE S == {a, b}
<1>1. <<a>> \in Seq(S) /\ <<b>> \in Seq(S) /\ <<a, b>> \in Seq(S)
  OBVIOUS
<1>2. /\ Len(<<a>>) = 1 /\ Len(<<b>>) = 1 /\ Len(<<a, b>>) = 2
      /\ <<a>>[1] = a /\ <<b>>[1] = b /\ <<a, b>>[1] = a /\ <<a, b>>[2] = b
  OBVIOUS
<1>3. Append(<<a>>, b) = <<a, b>>
  <2>1. /\ Append(<<a>>, b) \in Seq(S) /\ Len(Append(<<a>>, b)) = 2
        /\ Append(<<a>>, b)[1] = a /\ Append(<<a>>, b)[2] = b
    BY <1>1, <1>2, AppendProperties
  <2>2. \A k \in 1..2 : Append(<<a>>, b)[k] = <<a, b>>[k]
    BY <1>2, <2>1
  <2> QED BY <1>1, <1>2, <2>1, <2>2, SeqEqual
<1>4. <<a>> \o <<b>> = <<a, b>>
  <2>1. /\ <<a>> \o <<b>> \in Seq(S) /\ Len(<<a>> \o <<b>>) = 2
        /\ (<<a>> \o <<b>>)[1] = a /\ (<<a>> \o <<b>>)[2] = b
    BY <1>1, <1>2, ConcatProperties
  <2>2. \A k \in 1..2 : (<<a>> \o <<b>>)[k] = <<a, b>>[k]
    BY <1>2, <2>1
  <2> QED BY <1>1, <1>2, <2>1, <2>2, SeqEqual
<1>5. SubSeq(<<a, b>>, 1, 1) = <<a>>
  <2>1. /\ SubSeq(<<a, b>>, 1, 1) \in Seq(S) /\ Len(SubSeq(<<a, b>>, 1, 1)) = 1
        /\ SubSeq(<<a, b>>, 1, 1)[1] = a
    BY <1>1, <1>2, SubSeqProperties
  <2>2. \A k \in 1..1 : SubSeq(<<a, b>>, 1, 1)[k] = <<a>>[k]
    BY <1>2, <2>1
  <2> QED BY <1>1, <1>2, <2>1, <2>2, SeqEqual
<1>6. Tail(<<a, b>>) = <<b>> /\ Head(<<a, b>>) = a
  OBVIOUS
<1> QED BY <1>2, <1>3, <1>4, <1>5, <1>6

(* Sequences of one, likewise.                                              *)
LEMMA Singles ==
  ASSUME NEW a
  PROVE  /\ <<>> \o <<>> = <<>> /\ <<a>> \o <<>> = <<a>> /\ <<>> \o <<a>> = <<a>>
         /\ Append(<<>>, a) = <<a>>
         /\ SubSeq(<<a>>, 1, 0) = <<>>
         /\ Tail(<<a>>) = <<>> /\ Head(<<a>>) = a
         /\ Len(<<>>) = 0 /\ Len(<<a>>) = 1
OBVIOUS
-----------------------------------------------------------------------------
(* A frame handed to an empty socket is the newest of its snapshots.        *)
LEMMA SocketTakes ==
  ASSUME NEW f \in Frames, txSock = None, txSock' # None, txSock'.id = f,
         UNCHANGED nodeMob
  PROVE  /\ Len(Chan[f]) < 2
         /\ Chan' = [Chan EXCEPT ![f] = Append(@, txSock'.data)]
<1>1. \A g \in Frames : InSocket(g) = <<>> /\ Received(g)' = Received(g)
  BY DEF InSocket, Received
<1>2. /\ InSocket(f)' = <<txSock'.data>>
      /\ \A g \in Frames \ {f} : InSocket(g)' = <<>>
  BY DEF InSocket
<1>3. /\ Len(Chan[f]) < 2
      /\ Received(f) \o <<txSock'.data>> = Append(Received(f) \o <<>>, txSock'.data)
  BY <1>1, ChanIs, Pairs, Singles DEF Received
<1> QED BY <1>1, <1>2, <1>3, ChanIs

(* A frame that leaves the socket for nowhere was the newest, ...           *)
LEMMA SocketLoses ==
  ASSUME NEW f \in Frames, txSock # None, txSock.id = f, txSock' = None,
         UNCHANGED nodeMob
  PROVE  /\ Chan[f] # <<>>
         /\ Chan' = [Chan EXCEPT ![f] = SubSeq(@, 1, Len(@) - 1)]
<1>1. \A g \in Frames : InSocket(g)' = <<>> /\ Received(g)' = Received(g)
  BY DEF InSocket, Received
<1>2. /\ InSocket(f) = <<txSock.data>>
      /\ \A g \in Frames \ {f} : InSocket(g) = <<>>
  BY DEF InSocket
<1> DEFINE c == Received(f) \o <<txSock.data>>
<1>4. c # <<>> /\ Received(f) \o <<>> = SubSeq(c, 1, Len(c) - 1)
  <2>1. CASE nodeMob[f] # None
    <3>1. c = <<nodeMob[f].data, txSock.data>> /\ Len(c) = 2
      BY <2>1, Pairs DEF Received
    <3> QED BY <2>1, <3>1, Pairs, Singles DEF Received
  <2>2. CASE nodeMob[f] = None
    <3>1. c = <<txSock.data>> /\ Len(c) = 1
      BY <2>2, Singles DEF Received
    <3> QED BY <2>2, <3>1, Singles DEF Received
  <2> QED BY <2>1, <2>2
<1> QED BY <1>1, <1>2, <1>4, ChanIs

(* ... and one that an empty receive object takes stays the newest.         *)
LEMMA SocketDelivers ==
  ASSUME TypeOK, NEW f \in Frames, txSock # None, txSock.id = f, txSock' = None,
         nodeMob[f] = None, nodeMob' = [nodeMob EXCEPT ![f] = txSock]
  PROVE  Chan' = Chan
<1>1. f \in 0..NFrames
  BY CanAssumption DEF Frames
<1>2. /\ InSocket(f) = <<txSock.data>> /\ Received(f) = <<>>
      /\ \A g \in Frames \ {f} : InSocket(g) = <<>>
  BY DEF InSocket, Received
<1>3. /\ InSocket(f)' = <<>> /\ Received(f)' = <<txSock.data>>
      /\ \A g \in Frames \ {f} : InSocket(g)' = <<>> /\ Received(g)' = Received(g)
  BY <1>1 DEF InSocket, Received, TypeOK
<1> QED BY <1>2, <1>3, Singles, ChanIs

(* A frame without items, and steps elsewhere, are nothing to the pins.     *)
LEMMA NothingUnderWay ==
  ASSUME \A f \in Frames : Received(f)' = Received(f) /\ InSocket(f)' = InSocket(f)
  PROVE  Chan' = Chan
BY ChanIs
-----------------------------------------------------------------------------
(* At first the stage broadcast is under way, in which no item lives.       *)
LEMMA InitRefines == Init => LV!LVInit
<1> SUFFICES ASSUME Init PROVE LV!LVInit
  OBVIOUS
<1>1. \A f \in Frames : f # StageId /\ f \in 0..NFrames
  BY CanAssumption DEF Frames, StageId
<1>2. \A f \in Frames : Received(f) = <<>> /\ InSocket(f) = <<>>
  BY <1>1 DEF Init, Received, InSocket, StageMsg, Empty
<1>3. Chan = [f \in Frames |-> <<>>]
  BY <1>2, Singles, ChanIs
<1> QED BY <1>3 DEF Init, Zeros, LV!LVInit

(* An item set: only wanted while a frame is under way, else taken at once. *)
LEMMA SetItemRefines ==
  ASSUME IInv, NEW i \in Items, NEW v \in Values, SetItem(i, v),
         UNCHANGED <<nodeMob, nodeOut>>
  PROVE  LV!LVNext
<1> DEFINE f == FrameOf[i]
<1>1. f \in Frames /\ i \in LV!Members(f)
  BY CanAssumption DEF LV!Members
<1>2. value' = [value EXCEPT ![i] = v]
  BY DEF SetItem
<1>3. CASE pending
  <2>1. Chan' = Chan
    BY <1>3, NothingUnderWay DEF SetItem, Received, InSocket
  <2> QED BY <1>2, <2>1 DEF LV!LVNext, LV!Want
<1>4. CASE ~pending
  <2>1. txSock = None
    BY <1>4 DEF IInv, OneInFlight
  <2>2. txSock' = Msg(f)' /\ txSock'.id = f /\ txSock'.data = LV!Snapshot(f)'
    BY <1>4 DEF SetItem, Accept, Msg, Data, Members, LV!Snapshot, LV!Members
  <2>3. txSock' # None
    <3>1. value' \in [Items -> Values]
      BY <1>2 DEF IInv, TypeOK
    <3>2. Msg(f)' \in Message
      BY <1>1, <3>1, SnapshotIsOwn DEF Msg, Data
    <3> QED BY <2>2, <3>2, CanAssumption
  <2>4. /\ Len(Chan[f]) < 2
        /\ Chan' = [Chan EXCEPT ![f] = Append(@, LV!Snapshot(f)')]
    BY <1>1, <2>1, <2>2, <2>3, SocketTakes
  <2> QED BY <1>1, <1>2, <2>4 DEF LV!LVNext, LV!WantAndTake
<1> QED BY <1>3, <1>4

(* The echo: the frame that waits first is taken, if one waits.             *)
LEMMA ReadBackRefines ==
  ASSUME IInv, ReadBack
  PROVE  LV!LVNext \/ UNCHANGED LV!lvVars
<1>1. txSock = None
  <2>1. 1 \in 1..Len(rxq) /\ Own(rxq[1])
    BY TailOf DEF ReadBack, IInv, TypeOK
  <2> QED BY <2>1 DEF IInv, OneInFlight
<1>2. UNCHANGED <<value, nodeMob, nodeOut>>
  BY DEF ReadBack, WriteReady
<1>3. ASSUME NEW f \in Frames, Accept(f) PROVE LV!LVNext
  <2>1. txSock' = Msg(f)' /\ txSock'.id = f /\ txSock'.data = LV!Snapshot(f)
    BY <1>2, <1>3 DEF Accept, Msg, Data, Members, LV!Snapshot, LV!Members
  <2>2. txSock' # None
    <3>1. Msg(f)' \in Message
      BY <1>2, SnapshotIsOwn DEF Msg, Data, IInv, TypeOK
    <3> QED BY <2>1, <3>1, CanAssumption
  <2>3. /\ Len(Chan[f]) < 2
        /\ Chan' = [Chan EXCEPT ![f] = Append(@, LV!Snapshot(f))]
    BY <1>1, <1>2, <2>1, <2>2, SocketTakes
  <2> QED BY <1>2, <2>3 DEF LV!LVNext, LV!Take
<1>4. CASE UNCHANGED txSock
  <2>1. Chan' = Chan
    BY <1>2, <1>4, NothingUnderWay DEF Received, InSocket
  <2> QED BY <1>2, <2>1 DEF LV!lvVars
<1> QED BY <1>3, <1>4 DEF ReadBack, WriteReady

(* A frame that cannot be written is lost.                                  *)
LEMMA WriteFailsRefines ==
  ASSUME IInv, WriteFails
  PROVE  LV!LVNext \/ UNCHANGED LV!lvVars
<1>1. txSock # None /\ txSock' = None /\ UNCHANGED <<value, nodeMob, nodeOut>>
  BY DEF WriteFails, bytd, node
<1>2. CASE txSock.id \in Frames
  BY <1>1, <1>2, SocketLoses DEF LV!LVNext, LV!Lose
<1>3. CASE txSock.id \notin Frames
  <2>1. Chan' = Chan
    BY <1>1, <1>3, NothingUnderWay DEF Received, InSocket
  <2> QED BY <1>1, <2>1 DEF LV!lvVars
<1> QED BY <1>2, <1>3

(* A frame on the bus: received, or lost on a node that is not ready.       *)
LEMMA TransmitRefines ==
  ASSUME IInv, Transmit
  PROVE  LV!LVNext \/ UNCHANGED LV!lvVars
<1>1. txSock # None /\ txSock' = None /\ UNCHANGED <<value, nodeOut>>
  BY DEF Transmit, bytd
<1>2. CASE txSock.id \in Frames /\ Listening(txSock.id)
  <2>1. nodeMob[txSock.id] = None /\ nodeMob' = [nodeMob EXCEPT ![txSock.id] = txSock]
    BY <1>2 DEF Transmit, Listening
  <2>2. Chan' = Chan
    BY <1>1, <1>2, <2>1, SocketDelivers DEF IInv
  <2> QED BY <1>1, <2>2 DEF LV!lvVars
<1>3. CASE txSock.id \in Frames /\ ~Listening(txSock.id)
  <2>1. UNCHANGED nodeMob
    BY <1>3 DEF Transmit
  <2> QED BY <1>1, <1>3, <2>1, SocketLoses DEF LV!LVNext, LV!Lose
<1>4. CASE txSock.id \notin Frames
  <2>1. \A f \in Frames : nodeMob'[f] = nodeMob[f]
    BY <1>4, CanAssumption DEF Transmit, IInv, TypeOK, Frames
  <2>2. Chan' = Chan
    BY <1>1, <1>4, <2>1, NothingUnderWay DEF Received, InSocket
  <2> QED BY <1>1, <2>2 DEF LV!lvVars
<1> QED BY <1>2, <1>3, <1>4

(* The pins show the oldest snapshot, and it is no longer under way.        *)
LEMMA NodeOutputRefines ==
  ASSUME IInv, NEW f \in Frames, NodeOutput(f)
  PROVE  LV!LVNext
<1>1. /\ nodeMob[f] # None /\ nodeMob' = [nodeMob EXCEPT ![f] = None]
      /\ UNCHANGED <<value, txSock>>
  BY DEF NodeOutput, bytd, bus
<1>2. f \in 0..NFrames
  BY CanAssumption DEF Frames
<1>3. /\ Received(f) = <<nodeMob[f].data>> /\ Received(f)' = <<>>
      /\ \A g \in Frames \ {f} : Received(g)' = Received(g)
      /\ \A g \in Frames : InSocket(g)' = InSocket(g)
  BY <1>1, <1>2 DEF Received, InSocket, IInv, TypeOK
<1> DEFINE c == <<nodeMob[f].data>> \o InSocket(f)
<1>5. c # <<>> /\ Head(c) = nodeMob[f].data /\ <<>> \o InSocket(f) = Tail(c)
  <2>1. CASE InSocket(f) = <<>>
    BY <2>1, Singles
  <2>2. CASE InSocket(f) = <<txSock.data>>
    <3>1. c = <<nodeMob[f].data, txSock.data>>
      BY <2>2, Pairs
    <3> QED BY <2>2, <3>1, Pairs, Singles
  <2> QED BY <2>1, <2>2 DEF InSocket
<1>6. /\ Chan[f] # <<>> /\ Head(Chan[f]) = nodeMob[f].data
      /\ Chan' = [Chan EXCEPT ![f] = Tail(@)]
  BY <1>3, <1>5, ChanIs
<1>7. nodeOut' = [i \in Items |-> IF FrameOf[i] = f THEN Head(Chan[f])[i] ELSE nodeOut[i]]
  BY <1>6 DEF NodeOutput
<1> QED BY <1>1, <1>6, <1>7 DEF LV!LVNext, LV!Show
-----------------------------------------------------------------------------
(* Every step is one of the abstract specification's, or stutters.          *)
LEMMA NextRefines == IInv /\ [Next]_vars => [LV!LVNext]_(LV!lvVars)
<1> SUFFICES ASSUME IInv, [Next]_vars PROVE LV!LVNext \/ UNCHANGED LV!lvVars
  OBVIOUS
<1>1. ASSUME UNCHANGED <<value, txSock, nodeOut>>,
             \A f \in Frames : nodeMob'[f] = nodeMob[f]
      PROVE  UNCHANGED LV!lvVars
  <2>1. Chan' = Chan
    BY <1>1, NothingUnderWay DEF Received, InSocket
  <2> QED BY <1>1, <2>1 DEF LV!lvVars
<1>2. CASE Set
  BY <1>2, SetItemRefines DEF Set
<1>3. CASE ReadBack
  BY <1>3, ReadBackRefines
<1>4. CASE ReadOther
  BY <1>1, <1>4, SetItemRefines DEF ReadOther
<1>5. CASE ReadFails \/ NodeSends \/ UNCHANGED vars
  BY <1>1, <1>5 DEF ReadFails, NodeSends, bytd, node, vars
<1>6. CASE WriteFails
  BY <1>6, WriteFailsRefines
<1>7. CASE Transmit
  BY <1>7, TransmitRefines
<1>8. CASE NodeStage
  <2>1. \A f \in Frames : nodeMob'[f] = nodeMob[f]
    BY <1>8, CanAssumption DEF NodeStage, IInv, TypeOK, Frames, StageId
  <2> QED BY <1>1, <1>8, <2>1 DEF NodeStage, bytd, bus
<1>9. CASE Restart
  <2>1. \A f \in Frames : InSocket(f) = <<>> /\ InSocket(f)' = <<>> /\ Received(f)' = Received(f)
    BY <1>9, CanAssumption DEF Restart, node, InSocket, Received, StageMsg, Empty, StageId, Frames
  <2>2. Chan' = Chan
    BY <2>1, NothingUnderWay
  <2> QED BY <1>9, <2>2 DEF Restart, node, Zeros, LV!LVNext, LV!Want
<1>10. CASE \E f \in Frames : NodeOutput(f)
  BY <1>10, NodeOutputRefines
<1> QED
  BY <1>2, <1>3, <1>4, <1>5, <1>6, <1>7, <1>8, <1>9, <1>10 DEF Next

(* The pins see snapshots of the daemon's table, in order and each at most  *)
(* once, whatever the bus, the nodes and restarts do (CanBus::send, read).  *)
THEOREM PathImplementsLatestValue == Spec => SnapshotsInOrder
<1>1. Spec => []IInv
  BY Invariance
<1> QED BY <1>1, InitRefines, NextRefines, PTL DEF Spec, SnapshotsInOrder, LV!LVSpec
=============================================================================
