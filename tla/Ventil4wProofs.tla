--------------------------- MODULE Ventil4wProofs ---------------------------
(***************************************************************************)
(* Proofs about the four-way valve of module Ventil4w: the types and what  *)
(* becomes of the file for any number of edges the mover may be behind;    *)
(* and, while that is one edge, that the valve stands where it is believed *)
(* to stand.                                                               *)
(***************************************************************************)
EXTENDS Ventil4w, TLAPS

AtRest  == {"idle", "begin"}
Writing == {"truncate", "write"}
Homing  == {"home", "homing", "homeSettle"}

MotorRuns == motor => pc \in {"homing", "leaving", "travelling"}

(* At rest the file says what is believed, while the shaft homes there is   *)
(* none, and before a movement it is not wrong yet.                         *)
FileFollows ==
  /\ pc \in AtRest => file = IF inPos THEN cur ELSE None
  /\ pc \in Homing => ~inPos /\ file = None
  /\ pc = "move" => inPos /\ file \in {None, cur} /\ cur # target
  /\ pc \in Writing => inPos /\ cur = target

(* While the motor runs there is a port to go; homing without the absolute  *)
(* mark ends after all five marks.                                          *)
PortsToGo ==
  /\ pc \in {"homing", "leaving", "travelling"} => dist < goal
  /\ pc = "homing" /\ ~absSeen => goal <= 5

IInv == TypeOK /\ MotorRuns /\ FileFollows /\ PortsToGo

(* The sector the mover has seen the shaft in: it may be one ahead, and     *)
(* then the edge between the two waits.                                     *)
Seen == IF EdgesWaiting THEN (shaft - dir + 10) % 10 ELSE shaft
EdgeWaits ==
  EdgesWaiting =>
    /\ portQ = IF PortMark(shaft) THEN <<"fall">> ELSE IF PortMark(Seen) THEN <<"rise">> ELSE <<>>
    /\ absQ = IF AbsMark(shaft) THEN <<"fall">> ELSE IF AbsMark(Seen) THEN <<"rise">> ELSE <<>>

(* What was published last.                                                 *)
Published ==
  /\ pc \in Writing => pub = cur
  /\ pc \in AtRest /\ inPos /\ anchored /\ pub \in Positions => pub = cur
  /\ pc \notin AtRest \cup Writing => pub = Moving

(* Homing: after the absolute mark the next port is the first.              *)
HomeNext ==
  /\ pc = "homing" => dir = 1 /\ (absSeen => Seen \in {8, 9} /\ goal = dist + 1)
  /\ pc = "homeSettle" => dir = 1 /\ (absSeen => Seen \in {8, 9, 0})

(* A movement has one or two ports to go.                                   *)
OnTheWay ==
  pc \in {"leaving", "travelling"} =>
    /\ goal - dist \in {1, 2}
    /\ target = (cur + dir * (goal - dist) + 4) % 4

(* The sectors between the absolute mark and the next port, and those from  *)
(* the port last passed to the next one.                                    *)
AbsAhead == IF dir = 1 THEN {8, 9} ELSE {7, 8}
Leg == IF ExpectedAbsMark(cur, dir)
         THEN {PortSector(cur), (PortSector(cur) + dir + 10) % 10} \cup AbsAhead
         ELSE {PortSector(cur), PortSector(cur) + dir}

(* The mover knows of the absolute mark what it has passed; and, if it knew *)
(* where it started, or has met the mark where it expected it, where it is. *)
Travelled ==
  /\ pc = "leaving" => PortMark(Seen) /\ (anchored => Seen = PortSector(cur))
  /\ pc = "travelling" =>
       /\ expectAbs = ExpectedAbsMark(cur, dir)
       /\ absSeen <=> Seen \in AbsAhead
       /\ anchored => Seen \in Leg
  /\ pc = "settle" /\ cur = target /\ anchored => Seen = PortSector(cur)
Stands ==
  pc \in AtRest \cup Writing \cup {"move"} /\ inPos /\ anchored => shaft = PortSector(cur)

PInv == EdgeWaits /\ Published /\ HomeNext /\ OnTheWay /\ Travelled /\ Stands
-----------------------------------------------------------------------------
(* Ports are the even sectors below the absolute mark.                      *)
LEMMA PortSectors ==
  /\ \A s \in Sectors : PortMark(s) <=> s \in {0, 2, 4, 6}
  /\ \A p \in Positions : PortSector(p) = 2 * p
<1>1. \A p \in Positions : PortSector(p) = 2 * p
  BY DEF PortSector
<1>2. ASSUME NEW s \in Sectors PROVE PortMark(s) <=> s \in {0, 2, 4, 6}
  <2>1. PortMark(s) <=> \E p \in Positions : s = 2 * p
    BY DEF PortMark, PortSector
  <2> QED BY <2>1 DEF Positions, Sectors
<1> QED BY <1>1, <1>2

(* No position is a mark of the file or of the topic.                       *)
LEMMA NoPosition == None \notin Positions /\ Garbage \notin Positions /\ Moving \notin Positions
                    /\ Error \notin Positions /\ None # Garbage
BY VentilAssumption DEF Positions

(* The short way round takes one port or two, and leads there.              *)
LEMMA ShortWay ==
  ASSUME NEW from \in Positions, NEW to \in Positions, from # to
  PROVE  LET w == CalcMotion(from, to)
         IN /\ w[1] \in {-1, 1} /\ w[2] \in {1, 2}
            /\ to = (from + w[1] * w[2] + 4) % 4
<1>1. from \in {0, 1, 2, 3} /\ to \in {0, 1, 2, 3}
  BY DEF Positions
<1>2. CASE to - from \in {-3, 3}
  BY <1>1, <1>2 DEF CalcMotion
<1>3. CASE to - from \notin {-3, 3}
  BY <1>1, <1>3 DEF CalcMotion
<1> QED BY <1>2, <1>3

(* Ports and sectors form rings.                                            *)
LEMMA Rings ==
  ASSUME NEW d \in {-1, 1}
  PROVE  /\ \A p \in Positions : (p + d + 4) % 4 \in Positions
         /\ \A s \in Sectors : (s + d + 10) % 10 \in Sectors /\ (s - d + 10) % 10 \in Sectors
         /\ \A s \in Sectors : (((s + d + 10) % 10) - d + 10) % 10 = s
BY DEF Positions, Sectors
-----------------------------------------------------------------------------
(* The types and the file, action by action.                                *)

(* What the constructor takes from the file.                                *)
LEMMA Loaded ==
  ASSUME NEW content \in Positions \cup {None, Garbage}
  PROVE  /\ Load(content).pos \in Positions /\ Load(content).in \in BOOLEAN
         /\ Load(content).file = IF Load(content).in THEN Load(content).pos ELSE None
         /\ Load(content).file \in Positions \cup {None}
         /\ Load(content).in => content = Load(content).pos
BY DEF Load, Positions

(* At the first start.                                                      *)
LEMMA InitIInv == Init => IInv
<1> SUFFICES ASSUME Init PROVE IInv
  OBVIOUS
<1>1. file \in Positions \cup {None, Garbage} /\ file \in Positions \cup {None}
  BY DEF Init
<1>2. /\ cur = Load(file).pos /\ inPos = Load(file).in
      /\ cur \in Positions /\ inPos \in BOOLEAN /\ file = IF inPos THEN cur ELSE None
  <2>1. Load(file).file = file
    BY <1>1 DEF Load
  <2> QED BY <1>1, <2>1, Loaded DEF Init
<1>3. TypeOK
  <2>1. portQ \in Seq({"fall", "rise"}) /\ absQ \in Seq({"fall", "rise"})
    BY DEF Init
  <2>2. shaft \in Sectors /\ dir \in {-1, 1} /\ 0 \in Positions /\ 0 \in 0..6
    BY DEF Init, Positions
  <2>3. target \in Positions /\ dist \in 0..6 /\ goal \in 0..6 /\ motor \in BOOLEAN
    BY <2>2, Zenon DEF Init
  <2> QED BY <1>1, <1>2, <2>1, <2>2, <2>3 DEF Init, TypeOK
<1> QED BY <1>2, <1>3 DEF Init, IInv, MotorRuns, FileFollows, PortsToGo, AtRest, Homing, Writing

(* The shaft turns.                                                         *)
LEMMA TurnTypes == IInv /\ Turn => IInv'
<1> SUFFICES ASSUME IInv, Turn PROVE IInv'
  OBVIOUS
<1>1. shaft' \in Sectors
  BY Rings DEF Turn, IInv, TypeOK
<1>2. portQ' \in Seq({"fall", "rise"}) /\ absQ' \in Seq({"fall", "rise"})
  BY DEF Turn, IInv, TypeOK
<1>3. UNCHANGED <<motor, dir, belief, request, thread>>
  BY DEF Turn
<1> QED BY <1>1, <1>2, <1>3 DEF IInv, TypeOK, MotorRuns, FileFollows, PortsToGo, belief, thread

(* A wakeup of the mover leaves queues of edges.                            *)
LEMMA EdgesTaken ==
  ASSUME TypeOK, TakeEdges
  PROVE  portQ' \in Seq({"fall", "rise"}) /\ absQ' \in Seq({"fall", "rise"})
BY DEF TypeOK, TakeEdges, Rest

(* A request comes, is launched or dropped, and is looked at.               *)
LEMMA RequestTypes ==
  IInv /\ (Launch \/ Begin \/ \E t \in Positions : MoveTo(t)) => IInv'
<1>1. ASSUME IInv, NEW t \in Positions, MoveTo(t) PROVE IInv'
  BY <1>1 DEF MoveTo, IInv, TypeOK, MotorRuns, FileFollows, PortsToGo, belief, shaftVars, thread
<1>2. ASSUME IInv, Launch PROVE IInv'
  <2>1. CASE pc = "idle"
    <3>1. pc' = "begin" /\ target' = request /\ request' = None /\ request \in Positions
      BY <1>2, <2>1 DEF Launch, IInv, TypeOK
    <3> QED BY <1>2, <2>1, <3>1
        DEF Launch, IInv, TypeOK, MotorRuns, FileFollows, PortsToGo, AtRest, Homing, Writing, belief, shaftVars
  <2>2. CASE pc # "idle"
    BY <1>2, <2>2 DEF Launch, IInv, TypeOK, MotorRuns, FileFollows, PortsToGo, belief, shaftVars
  <2> QED BY <2>1, <2>2
<1>3. ASSUME IInv, Begin PROVE IInv'
  <2>1. CASE target = cur /\ inPos
    BY <1>3, <2>1 DEF Begin, IInv, TypeOK, MotorRuns, FileFollows, PortsToGo, AtRest, Homing, Writing, shaftVars
  <2>2. CASE ~(target = cur /\ inPos)
    BY <1>3, <2>2 DEF Begin, IInv, TypeOK, MotorRuns, FileFollows, PortsToGo, AtRest, Homing, Writing, shaftVars
  <2> QED BY <2>1, <2>2
<1> QED BY <1>1, <1>2, <1>3

(* Homing, from its start to what it finds.                                 *)
LEMMA HomeTypes == IInv /\ (StartHome \/ HomeEdge \/ HomeDone) => IInv'
<1>1. ASSUME IInv, StartHome PROVE IInv'
  <2>1. /\ goal' \in 0..6 /\ dist' \in 0..6 /\ dist' < goal' /\ goal' <= 5 /\ absSeen' \in BOOLEAN
        /\ portQ' \in Seq({"fall", "rise"}) /\ absQ' \in Seq({"fall", "rise"})
    BY <1>1 DEF StartHome, AbsMark
  <2> QED BY <1>1, <2>1
      DEF StartHome, IInv, TypeOK, MotorRuns, FileFollows, PortsToGo, AtRest, Homing, Writing, belief
<1>2. ASSUME IInv, HomeEdge PROVE IInv'
  <2>1. dist' \in 0..6 /\ goal' \in 0..6 /\ (~absSeen' => goal' <= 5)
    <3>1. dist \in 0..6 /\ goal \in 0..6 /\ dist < goal /\ (~absSeen => goal <= 5)
      BY <1>2 DEF HomeEdge, IInv, TypeOK, PortsToGo
    <3>2. \A i \in 0..6, n \in 0..6 : i < n /\ n <= 5 => i + 1 \in 0..6 /\ i + 1 + 1 \in 0..6
      OBVIOUS
    <3>3. \A i \in 0..6, n \in 0..6 : i < n => i + 1 \in 0..6
      OBVIOUS
    <3>4. /\ dist' = dist \/ dist' = dist + 1
          /\ goal' = goal \/ (goal' = dist' + 1 /\ ~absSeen)
          /\ ~absSeen' => ~absSeen /\ goal' = goal
      BY <1>2 DEF HomeEdge
    <3>5. dist' \in 0..6
      BY <3>1, <3>3, <3>4, Zenon
    <3>6. CASE goal' = goal
      BY <3>1, <3>4, <3>5, <3>6, Zenon
    <3>7. CASE goal' = dist' + 1 /\ ~absSeen
      <4>1. dist + 1 \in 0..6 /\ dist + 1 + 1 \in 0..6
        BY <3>1, <3>2, <3>7, Zenon
      <4>2. goal' = dist + 1 \/ goal' = dist + 1 + 1
        BY <3>4, <3>7, Zenon
      <4>3. goal' \in 0..6
        BY <4>1, <4>2, Zenon
      <4> QED BY <3>1, <3>4, <3>5, <4>3, Zenon
    <3> QED BY <3>4, <3>6, <3>7, Zenon
  <2>2. absSeen' \in BOOLEAN /\ motor' \in BOOLEAN
    BY <1>2 DEF HomeEdge, AbsEdge, IInv, TypeOK
  <2>3. /\ pc' \in {"homing", "homeSettle"} /\ (motor' => pc' = "homing")
        /\ pc' = "homing" => dist' < goal'
    BY <1>2 DEF HomeEdge
  <2>4. TypeOK'
    BY <1>2, <2>1, <2>2, <2>3, EdgesTaken DEF HomeEdge, IInv, TypeOK, belief
  <2> QED BY <1>2, <2>1, <2>3, <2>4 DEF HomeEdge, IInv, MotorRuns, FileFollows, PortsToGo, AtRest, Homing, Writing, belief
<1>3. ASSUME IInv, HomeDone PROVE IInv'
  <2>1. CASE PortMark(shaft) /\ absSeen
    BY <1>3, <2>1 DEF HomeDone, IInv, TypeOK, MotorRuns, FileFollows, PortsToGo, AtRest, Homing, Writing, shaftVars, Positions
  <2>2. CASE ~(PortMark(shaft) /\ absSeen)
    BY <1>3, <2>2 DEF HomeDone, Lost, IInv, TypeOK, MotorRuns, FileFollows, PortsToGo, AtRest, Homing, Writing, shaftVars
  <2> QED BY <2>1, <2>2
<1> QED BY <1>1, <1>2, <1>3

(* A movement, from its start to the last port, and a wait without an edge. *)
LEMMA MoveTypes == IInv /\ (StartMove \/ LeaveEdge \/ TravelEdge \/ GiveUp) => IInv'
<1>1. ASSUME IInv, StartMove PROVE IInv'
  <2>1. CASE AbsMark(shaft) \/ ~PortMark(shaft)
    <3>1. portQ' \in Seq({"fall", "rise"}) /\ absQ' \in Seq({"fall", "rise"})
      BY <1>1 DEF StartMove
    <3> QED BY <1>1, <2>1, <3>1 DEF StartMove, Lost, IInv, TypeOK, MotorRuns, FileFollows, PortsToGo, AtRest, Homing, Writing
  <2>2. CASE ~(AbsMark(shaft) \/ ~PortMark(shaft))
    <3>1. cur \in Positions /\ target \in Positions /\ cur # target
      BY <1>1 DEF StartMove, IInv, TypeOK, FileFollows
    <3>2. /\ dir' = CalcMotion(cur, target)[1] /\ goal' = CalcMotion(cur, target)[2] /\ dist' = 0
          /\ motor' = TRUE /\ pc' = "leaving" /\ UNCHANGED <<pub, file, inPos>>
      BY <1>1, <2>2 DEF StartMove
    <3>3. dir' \in {-1, 1} /\ goal' \in 0..6 /\ dist' \in 0..6 /\ dist' < goal'
      BY <3>1, <3>2, ShortWay
    <3>4. portQ' \in Seq({"fall", "rise"}) /\ absQ' \in Seq({"fall", "rise"})
      BY <1>1 DEF StartMove
    <3> QED BY <1>1, <3>2, <3>3, <3>4 DEF StartMove, IInv, TypeOK, MotorRuns, FileFollows, PortsToGo, AtRest, Homing, Writing
  <2> QED BY <2>1, <2>2
<1>2. ASSUME IInv, LeaveEdge PROVE IInv'
  <2>1. absSeen' \in BOOLEAN /\ expectAbs' \in BOOLEAN /\ pc' \in {"leaving", "travelling"}
    BY <1>2 DEF LeaveEdge, IInv, TypeOK, AbsMark, ExpectedAbsMark
  <2>2. TypeOK'
    BY <1>2, <2>1, EdgesTaken DEF LeaveEdge, IInv, TypeOK, belief
  <2> QED BY <1>2, <2>1, <2>2 DEF LeaveEdge, IInv, MotorRuns, FileFollows, PortsToGo, AtRest, Homing, Writing, belief
<1>3. ASSUME IInv, TravelEdge PROVE IInv'
  <2>0. /\ pc = "travelling" /\ TakeEdges /\ UNCHANGED <<shaft, dir, inPos, file, pub, request, target, goal>>
        /\ TypeOK
    BY <1>3 DEF TravelEdge, IInv
  <2>1. CASE TravelPort
    <3>1. cur' \in Positions
      BY <2>0, <2>1, Rings DEF TravelPort, TypeOK
    <3>2. /\ pc' \in {"travelling", "misplaced", "settle"} /\ (motor' => pc' = "travelling")
          /\ pc' = "travelling" => dist' < goal'
      BY <2>0, <2>1 DEF TravelPort
    <3>3. motor' \in BOOLEAN /\ absSeen' \in BOOLEAN
      <4>1. expectAbs \in BOOLEAN /\ absSeen \in BOOLEAN
        BY <2>0 DEF TypeOK
      <4>2. CASE expectAbs # absSeen
        <5>1. motor' = FALSE /\ absSeen' = absSeen
          BY <2>1, <4>2 DEF TravelPort
        <5> QED BY <4>1, <5>1, Zenon
      <4>3. CASE expectAbs = absSeen
        <5>1. motor' = (dist' < goal) /\ absSeen' = AbsEdge("fall")
          BY <2>1, <4>3 DEF TravelPort
        <5>2. motor' \in BOOLEAN
          BY <5>1
        <5>3. absSeen' \in BOOLEAN
          BY <5>1 DEF AbsEdge
        <5> QED BY <5>2, <5>3
      <4> QED BY <4>2, <4>3
    <3>4. expectAbs' \in BOOLEAN /\ anchored' \in BOOLEAN
      BY <2>0, <2>1 DEF TravelPort, TypeOK, ExpectedAbsMark
    <3>5. dist' \in 0..6
      <4>1. dist \in 0..6 /\ goal \in 0..6 /\ dist < goal
        BY <1>3, <2>0 DEF IInv, TypeOK, PortsToGo
      <4> QED BY <2>1, <4>1 DEF TravelPort
    <3> QED BY <2>0, <3>1, <3>2, <3>3, <3>4, <3>5, EdgesTaken
        DEF IInv, TypeOK, MotorRuns, FileFollows, PortsToGo, AtRest, Homing, Writing
  <2>2. CASE ~PortEdge("fall")
    <3>1. absSeen' \in BOOLEAN
      BY <1>3, <2>0, <2>2 DEF TravelEdge, TravelPort, TypeOK, AbsEdge
    <3>2. UNCHANGED <<dist, cur, anchored, expectAbs, motor, pc>>
      BY <1>3, <2>2 DEF TravelEdge, TravelPort
    <3> QED BY <1>3, <2>0, <3>1, <3>2, EdgesTaken DEF IInv, TypeOK, MotorRuns, FileFollows, PortsToGo, AtRest, Homing, Writing
  <2>3. TravelPort \/ ~PortEdge("fall")
    BY <1>3, Zenon DEF TravelEdge
  <2> QED BY <2>1, <2>2, <2>3
<1>4. ASSUME IInv, GiveUp PROVE IInv'
  <2>1. CASE pc = "homing"
    <3>1. TypeOK'
      BY <1>4, <2>1 DEF GiveUp, IInv, TypeOK, belief
    <3> QED BY <1>4, <2>1, <3>1 DEF GiveUp, IInv, MotorRuns, FileFollows, PortsToGo, AtRest, Homing, Writing, belief
  <2>2. CASE pc # "homing"
    <3>1. TypeOK'
      BY <1>4, <2>2 DEF GiveUp, IInv, TypeOK, belief
    <3> QED BY <1>4, <2>2, <3>1 DEF GiveUp, IInv, MotorRuns, FileFollows, PortsToGo, AtRest, Homing, Writing, belief
  <2> QED BY <2>1, <2>2
<1> QED BY <1>1, <1>2, <1>3, <1>4

(* A movement ends, the file is written, and bytd starts again.             *)
LEMMA EndTypes == IInv /\ (Arrive \/ Truncate \/ Write \/ Restart) => IInv'
<1>1. ASSUME IInv, Arrive PROVE IInv'
  <2>1. CASE pc = "misplaced" \/ ~PortMark(shaft) \/ cur # target
    BY <1>1, <2>1 DEF Arrive, Lost, IInv, TypeOK, MotorRuns, FileFollows, PortsToGo, AtRest, Homing, Writing, shaftVars
  <2>2. CASE ~(pc = "misplaced" \/ ~PortMark(shaft) \/ cur # target)
    BY <1>1, <2>2 DEF Arrive, IInv, TypeOK, MotorRuns, FileFollows, PortsToGo, AtRest, Homing, Writing, shaftVars
  <2> QED BY <2>1, <2>2
<1>2. ASSUME IInv, Truncate PROVE IInv'
  BY <1>2 DEF Truncate, IInv, TypeOK, MotorRuns, FileFollows, PortsToGo, AtRest, Homing, Writing, shaftVars
<1>3. ASSUME IInv, Write PROVE IInv'
  BY <1>3 DEF Write, IInv, TypeOK, MotorRuns, FileFollows, PortsToGo, AtRest, Homing, Writing, shaftVars
<1>4. ASSUME IInv, Restart PROVE IInv'
  <2>1. /\ cur' \in Positions /\ inPos' \in BOOLEAN /\ file' \in Positions \cup {None}
        /\ file' = IF inPos' THEN cur' ELSE None
    BY <1>4, Loaded, Zenon DEF Restart, IInv, TypeOK
  <2>2. portQ' \in Seq({"fall", "rise"}) /\ absQ' \in Seq({"fall", "rise"})
    BY <1>4 DEF Restart
  <2>3. shaft' \in Sectors
    BY <1>4 DEF Restart, IInv, TypeOK
  <2>4. anchored' \in BOOLEAN
    BY <1>4 DEF Restart, IInv, TypeOK
  <2>5. TypeOK'
    BY <1>4, <2>1, <2>2, <2>3, <2>4 DEF Restart, IInv, TypeOK
  <2> QED BY <1>4, <2>1, <2>5 DEF Restart, IInv, MotorRuns, FileFollows, PortsToGo, AtRest, Homing, Writing
<1> QED BY <1>1, <1>2, <1>3, <1>4

(* Every step keeps the types and the file.                                 *)
LEMMA NextIInv == IInv /\ [Next]_vars => IInv'
<1> SUFFICES ASSUME IInv, [Next]_vars PROVE IInv'
  OBVIOUS
<1>1. CASE Next
  BY <1>1, TurnTypes, RequestTypes, HomeTypes, MoveTypes, EndTypes, Zenon DEF Next, Mover
<1>2. CASE UNCHANGED vars
  BY <1>2 DEF vars, shaftVars, belief, thread, IInv, TypeOK, MotorRuns, FileFollows, PortsToGo
<1> QED BY <1>1, <1>2

(* However far the mover is behind the shaft, the types hold, the motor     *)
(* runs only for a movement, and the file follows what is believed.         *)
THEOREM Invariance == Spec => []IInv
BY InitIInv, NextIInv, PTL DEF Spec

(* The types, for any number of edges the mover is behind.                  *)
THEOREM TypeCorrect == Spec => []TypeOK
BY Invariance, PTL DEF IInv

(* A restart at rest changes nothing: file and memory agree.                *)
THEOREM FileIsBelieved == Spec => []FileAgrees
<1>1. IInv => FileAgrees
  BY DEF IInv, FileFollows, FileAgrees, AtRest
<1> QED BY <1>1, Invariance, PTL
-----------------------------------------------------------------------------
(* From here on the mover is at most one edge behind.                       *)

(* Of two neighbouring sectors one carries a mark and one is blank.         *)
LEMMA Boundary ==
  ASSUME NEW d \in {-1, 1}, NEW s \in Sectors
  PROVE  LET n == (s + d + 10) % 10
         IN /\ PortMark(s) \/ AbsMark(s) <=> ~(PortMark(n) \/ AbsMark(n))
            /\ ~(PortMark(s) /\ AbsMark(s)) /\ ~(PortMark(n) /\ AbsMark(n))
<1> DEFINE n == (s + d + 10) % 10
<1>1. n \in Sectors
  BY Rings
<1>2. /\ PortMark(s) <=> s \in {0, 2, 4, 6}
      /\ PortMark(n) <=> n \in {0, 2, 4, 6}
  BY <1>1, PortSectors
<1>3. s \in {0, 2, 4, 6, 8} <=> ~(n \in {0, 2, 4, 6, 8})
  BY DEF Sectors
<1> QED BY <1>2, <1>3 DEF AbsMark

(* Neither the shaft nor the queues change: the mover has seen what it had. *)
LEMMA SeenStays ==
  ASSUME UNCHANGED <<shaft, dir, portQ, absQ>>
  PROVE  Seen' = Seen /\ (EdgeWaits => EdgeWaits')
BY DEF Seen, EdgesWaiting, EdgeWaits

(* No edge waits: the mover has seen the shaft where it is.                 *)
LEMMA NoneWaits ==
  ASSUME portQ' = <<>>, absQ' = <<>>
  PROVE  Seen' = shaft' /\ EdgeWaits'
BY DEF Seen, EdgesWaiting, EdgeWaits

(* The mover has seen the sector the shaft is in, or the one it came from.  *)
LEMMA SeenBehind ==
  ASSUME TypeOK
  PROVE  Seen \in Sectors /\ (Seen = shaft \/ shaft = (Seen + dir + 10) % 10)
<1>1. shaft \in Sectors /\ dir \in {-1, 1}
  BY DEF TypeOK
<1>2. \A s \in Sectors, d \in {-1, 1} : (s - d + 10) % 10 \in Sectors /\ ((((s - d + 10) % 10) + d + 10) % 10) = s
  BY DEF Sectors
<1> QED BY <1>1, <1>2 DEF Seen

(* The shaft turns only when it has been seen, and the edge waits.          *)
LEMMA TurnOnce ==
  ASSUME MaxSlip = 1, TypeOK, Turn
  PROVE  Seen' = Seen /\ EdgeWaits' /\ Seen = shaft
<1>1. portQ = <<>> /\ absQ = <<>>
  <2>1. Len(portQ) \in Nat /\ Len(absQ) \in Nat /\ Len(portQ) + Len(absQ) < 1
    BY DEF Turn, TypeOK
  <2> QED BY <2>1 DEF TypeOK
<1>2. /\ shaft' = (shaft + dir + 10) % 10 /\ dir' = dir /\ shaft \in Sectors /\ dir \in {-1, 1}
      /\ portQ' = IF PortMark(shaft') THEN <<"fall">> ELSE IF PortMark(shaft) THEN <<"rise">> ELSE <<>>
      /\ absQ' = IF AbsMark(shaft') THEN <<"fall">> ELSE IF AbsMark(shaft) THEN <<"rise">> ELSE <<>>
  BY <1>1 DEF Turn, TypeOK
<1>3. PortMark(shaft) \/ AbsMark(shaft) \/ PortMark(shaft') \/ AbsMark(shaft')
  BY <1>2, Boundary
<1>4. EdgesWaiting'
  BY <1>2, <1>3 DEF EdgesWaiting
<1>5. Seen' = shaft
  BY <1>2, <1>4, Rings DEF Seen
<1>6. Seen = shaft
  BY <1>1 DEF Seen, EdgesWaiting
<1> QED BY <1>2, <1>5, <1>6 DEF EdgeWaits

(* A wakeup takes the one edge that waits, and that tells where the shaft is.*)
LEMMA WakeUp ==
  ASSUME TypeOK, EdgeWaits, EdgesWaiting, TakeEdges, UNCHANGED <<shaft, dir>>
  PROVE  /\ Seen' = shaft /\ EdgeWaits'
         /\ shaft = (Seen + dir + 10) % 10
         /\ PortEdge("fall") <=> PortMark(shaft)
         /\ PortEdge("rise") <=> PortMark(Seen)
         /\ AbsEdge("fall") <=> AbsMark(shaft)
<1>1. shaft = (Seen + dir + 10) % 10 /\ Seen \in Sectors /\ dir \in {-1, 1}
  <2>1. shaft \in Sectors /\ dir \in {-1, 1}
    BY DEF TypeOK
  <2>2. \A s \in Sectors, d \in {-1, 1} : ((((s - d + 10) % 10) + d + 10) % 10) = s
    BY DEF Sectors
  <2>3. Seen = (shaft - dir + 10) % 10
    BY DEF Seen
  <2> QED BY <2>1, <2>2, <2>3, SeenBehind
<1>2. ~(PortMark(Seen) /\ PortMark(shaft))
  BY <1>1, Boundary
<1>3. /\ portQ = IF PortMark(shaft) THEN <<"fall">> ELSE IF PortMark(Seen) THEN <<"rise">> ELSE <<>>
      /\ absQ = IF AbsMark(shaft) THEN <<"fall">> ELSE IF AbsMark(Seen) THEN <<"rise">> ELSE <<>>
  BY DEF EdgeWaits
<1>4. portQ' = <<>> /\ absQ' = <<>>
  BY <1>3 DEF TakeEdges, Rest
<1>5. PortEdge("fall") <=> PortMark(shaft)
  BY <1>3 DEF PortEdge
<1>6. PortEdge("rise") <=> PortMark(Seen)
  BY <1>2, <1>3 DEF PortEdge
<1>7. AbsEdge("fall") <=> AbsMark(shaft)
  BY <1>3 DEF AbsEdge
<1> QED BY <1>1, <1>4, <1>5, <1>6, <1>7, NoneWaits
-----------------------------------------------------------------------------
(* That the valve stands where it is believed to stand, action by action.   *)

(* At the first start the file, if there is one, is right.                  *)
LEMMA InitPInv == Init => PInv
<1> SUFFICES ASSUME Init PROVE PInv
  OBVIOUS
<1>1. portQ = <<>> /\ absQ = <<>> /\ pc = "idle" /\ pub = None /\ None \notin Positions
  BY NoPosition DEF Init
<1>2. inPos => shaft = PortSector(cur)
  BY NoPosition DEF Init, Load
<1> QED BY <1>1, <1>2 DEF PInv, EdgeWaits, EdgesWaiting, Published, HomeNext, OnTheWay, Travelled, Stands, AtRest, Writing

(* The shaft turns or coasts.                                               *)
LEMMA TurnKeeps == MaxSlip = 1 /\ IInv /\ PInv /\ Turn => PInv'
<1> SUFFICES ASSUME MaxSlip = 1, IInv, PInv, Turn PROVE PInv'
  OBVIOUS
<1>1. Seen' = Seen /\ EdgeWaits'
  BY TurnOnce DEF IInv
<1>2. UNCHANGED <<motor, dir, cur, inPos, file, pub, anchored, request, pc, target, dist, goal, absSeen, expectAbs>>
  BY DEF Turn, belief, thread
<1>3. pc \in {"homing", "leaving", "travelling", "homeSettle", "settle", "misplaced"}
  BY DEF Turn, IInv, MotorRuns
<1>4. Published' /\ HomeNext' /\ OnTheWay' /\ Stands'
  BY <1>1, <1>2, <1>3 DEF PInv, Published, HomeNext, OnTheWay, Stands, AtRest, Writing
<1>5. Travelled'
  <2>1. Leg' = Leg /\ AbsAhead' = AbsAhead
    BY <1>2 DEF Leg, AbsAhead
  <2> QED BY <1>1, <1>2, <2>1 DEF PInv, Travelled
<1> QED BY <1>1, <1>4, <1>5 DEF PInv

(* A request comes, is launched or dropped, and is looked at.               *)
LEMMA RequestKeeps ==
  IInv /\ PInv /\ (Launch \/ Begin \/ \E t \in Positions : MoveTo(t)) => PInv'
<1>1. ASSUME IInv, PInv, NEW t \in Positions, MoveTo(t) PROVE PInv'
  <2>1. UNCHANGED <<shaft, motor, dir, portQ, absQ, cur, inPos, file, pub, anchored, pc, target, dist, goal, absSeen, expectAbs>>
    BY <1>1 DEF MoveTo, shaftVars, belief, thread
  <2>2. Seen' = Seen /\ EdgeWaits' /\ Leg' = Leg /\ AbsAhead' = AbsAhead
    BY <1>1, <2>1, SeenStays DEF PInv, Leg, AbsAhead
  <2> QED BY <1>1, <2>1, <2>2 DEF PInv, Published, HomeNext, OnTheWay, Travelled, Stands
<1>2. ASSUME IInv, PInv, Launch PROVE PInv'
  <2>1. UNCHANGED <<shaft, motor, dir, portQ, absQ, cur, inPos, file, pub, anchored, dist, goal, absSeen, expectAbs>>
    BY <1>2 DEF Launch, shaftVars, belief
  <2>2. Seen' = Seen /\ EdgeWaits' /\ Leg' = Leg /\ AbsAhead' = AbsAhead
    BY <1>2, <2>1, SeenStays DEF PInv, Leg, AbsAhead
  <2>3. CASE pc = "idle"
    <3>1. pc' = "begin"
      BY <1>2, <2>3 DEF Launch
    <3> QED BY <1>2, <2>1, <2>2, <2>3, <3>1 DEF PInv, Published, HomeNext, OnTheWay, Travelled, Stands, AtRest, Writing
  <2>4. CASE pc # "idle"
    <3>1. pc' = pc /\ target' = target
      BY <1>2, <2>4 DEF Launch
    <3> QED BY <1>2, <2>1, <2>2, <3>1 DEF PInv, Published, HomeNext, OnTheWay, Travelled, Stands
  <2> QED BY <2>3, <2>4
<1>3. ASSUME IInv, PInv, Begin PROVE PInv'
  <2>1. /\ UNCHANGED <<shaft, motor, dir, portQ, absQ, cur, inPos, anchored>>
        /\ pc = "begin" /\ Moving \notin Positions
    BY <1>3, NoPosition DEF Begin, shaftVars
  <2>2. Seen' = Seen /\ EdgeWaits'
    BY <1>3, <2>1, SeenStays DEF PInv
  <2>3. (pc' = "idle" /\ pub' = pub) \/ (pc' \in {"move", "home"} /\ pub' = Moving)
    BY <1>3 DEF Begin
  <2> QED BY <1>3, <2>1, <2>2, <2>3 DEF PInv, Published, HomeNext, OnTheWay, Travelled, Stands, AtRest, Writing
<1> QED BY <1>1, <1>2, <1>3

(* The shaft homes.                                                         *)
LEMMA HomeKeeps == IInv /\ PInv /\ (StartHome \/ HomeEdge \/ HomeDone) => PInv'
<1>1. ASSUME IInv, PInv, StartHome PROVE PInv'
  <2>1. Seen' = shaft' /\ EdgeWaits'
    BY <1>1, NoneWaits DEF StartHome
  <2>2. pc = "home" /\ pc' = "homing" /\ dir' = 1 /\ shaft' = shaft /\ pub' = pub /\ dist' = 0
    BY <1>1 DEF StartHome, belief
  <2>3. absSeen' => shaft = 8 /\ goal' = 1
    BY <1>1 DEF StartHome, AbsMark
  <2> QED BY <1>1, <2>1, <2>2, <2>3 DEF PInv, Published, HomeNext, OnTheWay, Travelled, Stands, AtRest, Writing
<1>2. ASSUME IInv, PInv, HomeEdge PROVE PInv'
  <2>1. /\ pc = "homing" /\ dir = 1 /\ dir' = 1 /\ shaft' = shaft /\ pub' = pub /\ shaft \in Sectors /\ Seen \in Sectors
        /\ dist \in Nat /\ goal \in Nat
    BY <1>2, SeenBehind DEF HomeEdge, PInv, HomeNext, belief, IInv, TypeOK
  <2>2. /\ Seen' = shaft /\ EdgeWaits' /\ shaft = (Seen + dir + 10) % 10
        /\ PortEdge("fall") <=> PortMark(shaft)
        /\ AbsEdge("fall") <=> AbsMark(shaft)
    BY <1>2, WakeUp DEF HomeEdge, PInv, IInv
  <2>3. pc' \in {"homing", "homeSettle"} /\ (pc' = "homing" <=> dist' < goal')
    BY <1>2 DEF HomeEdge
  <2>4. PortMark(shaft) <=> shaft \in {0, 2, 4, 6}
    BY <2>1, PortSectors
  <2>5. absSeen' => \/ shaft \in {8, 9} /\ goal' = dist' + 1
                    \/ shaft = 0 /\ goal' = dist'
    <3>1. CASE absSeen
      <4>1. Seen \in {8, 9} /\ goal = dist + 1 /\ shaft \in {9, 0}
        BY <1>2, <2>1, <2>2, <3>1 DEF PInv, HomeNext
      <4>2. goal' = goal
        BY <1>2, <3>1 DEF HomeEdge
      <4>3. dist' = IF shaft = 0 THEN dist + 1 ELSE dist
        BY <1>2, <2>2, <2>4, <4>1 DEF HomeEdge
      <4> QED BY <2>1, <4>1, <4>2, <4>3
    <3>2. CASE ~absSeen
      <4>1. ASSUME absSeen' PROVE shaft = 8 /\ goal' = dist' + 1
        BY <1>2, <2>2, <3>2, <4>1 DEF HomeEdge, AbsMark
      <4> QED BY <4>1
    <3> QED BY <3>1, <3>2
  <2>6. dist' \in Nat /\ goal' \in Nat
    <3>1. IInv'
      BY <1>2, HomeTypes
    <3>2. dist' \in 0..6 /\ goal' \in 0..6
      BY <3>1, Zenon DEF IInv, TypeOK
    <3>3. \A i \in 0..6 : i \in Nat
      OBVIOUS
    <3> QED BY <3>2, <3>3, Zenon
  <2>7. HomeNext'
    <3>1. CASE ~absSeen'
      BY <2>1, <2>2, <3>1 DEF HomeNext
    <3>2. CASE shaft \in {8, 9} /\ goal' = dist' + 1
      <4>1. \A i, n \in Nat : n = i + 1 => i < n
        OBVIOUS
      <4>2. pc' = "homing"
        BY <2>3, <2>6, <3>2, <4>1, Zenon
      <4> QED BY <2>1, <2>2, <3>2, <4>2 DEF HomeNext
    <3>3. CASE shaft = 0 /\ goal' = dist'
      <4>1. \A i, n \in Nat : n = i => ~(i < n)
        OBVIOUS
      <4>2. pc' = "homeSettle"
        <5>1. pc' # "homing"
          BY <2>3, <2>6, <3>3, <4>1, Zenon
        <5> QED BY <2>3, <5>1
      <4> QED BY <2>1, <2>2, <3>3, <4>2 DEF HomeNext
    <3> QED BY <2>5, <3>1, <3>2, <3>3
  <2> QED BY <1>2, <2>1, <2>2, <2>3, <2>7 DEF PInv, Published, OnTheWay, Travelled, Stands, AtRest, Writing
<1>3. ASSUME IInv, PInv, HomeDone PROVE PInv'
  <2>1. UNCHANGED <<shaft, motor, dir, portQ, absQ>> /\ pc = "homeSettle"
    BY <1>3 DEF HomeDone, shaftVars
  <2>2. Seen' = Seen /\ EdgeWaits'
    BY <1>3, <2>1, SeenStays DEF PInv
  <2>3. CASE PortMark(shaft) /\ absSeen
    <3>1. dir = 1 /\ Seen \in {8, 9, 0} /\ (Seen = shaft \/ shaft = (Seen + dir + 10) % 10)
      BY <1>3, <2>1, <2>3, SeenBehind DEF PInv, HomeNext, IInv
    <3>2. shaft \in {0, 2, 4, 6}
      BY <1>3, <2>3, PortSectors DEF IInv, TypeOK
    <3>3. shaft = 0 /\ PortSector(0) = 0
      BY <3>1, <3>2 DEF PortSector
    <3>4. cur' = 0 /\ inPos' = TRUE /\ pc' \in {"truncate", "move"} /\ pub' = IF pc' = "truncate" THEN 0 ELSE pub
      BY <1>3, <2>3 DEF HomeDone
    <3> QED BY <1>3, <2>1, <2>2, <3>3, <3>4 DEF PInv, Published, HomeNext, OnTheWay, Travelled, Stands, AtRest, Writing
  <2>4. CASE ~(PortMark(shaft) /\ absSeen)
    <3>1. pc' = "idle" /\ ~inPos'
      BY <1>3, <2>4 DEF HomeDone, Lost
    <3> QED BY <2>2, <3>1 DEF PInv, Published, HomeNext, OnTheWay, Travelled, Stands, AtRest, Writing
  <2> QED BY <2>3, <2>4
<1> QED BY <1>1, <1>2, <1>3

(* A movement of which the first edge takes it off its port.                *)
LEMMA StartKeeps == IInv /\ PInv /\ (StartMove \/ LeaveEdge \/ GiveUp) => PInv'
<1>1. ASSUME IInv, PInv, StartMove PROVE PInv'
  <2>1. Seen' = shaft' /\ EdgeWaits'
    BY <1>1, NoneWaits DEF StartMove
  <2>2. pc = "move" /\ UNCHANGED <<shaft, cur, anchored, target>>
    BY <1>1 DEF StartMove
  <2>3. CASE AbsMark(shaft) \/ ~PortMark(shaft)
    <3>1. pc' = "idle" /\ ~inPos'
      BY <1>1, <2>3 DEF StartMove, Lost
    <3> QED BY <2>1, <3>1 DEF PInv, Published, HomeNext, OnTheWay, Travelled, Stands, AtRest, Writing
  <2>4. CASE ~(AbsMark(shaft) \/ ~PortMark(shaft))
    <3>1. cur \in Positions /\ target \in Positions /\ cur # target /\ inPos
      BY <1>1, <2>2 DEF IInv, TypeOK, FileFollows
    <3>2. /\ dir' = CalcMotion(cur, target)[1] /\ goal' = CalcMotion(cur, target)[2] /\ dist' = 0
          /\ pc' = "leaving" /\ pub' = pub
      BY <1>1, <2>4 DEF StartMove
    <3>3. OnTheWay'
      <4>1. dir' \in {-1, 1} /\ goal' \in {1, 2} /\ target = (cur + dir' * goal' + 4) % 4
        BY <3>1, <3>2, ShortWay
      <4>2. goal' - dist' = goal'
        BY <3>2, <4>1
      <4> QED BY <2>2, <4>1, <4>2 DEF OnTheWay
    <3>4. anchored => shaft = PortSector(cur)
      BY <1>1, <2>2, <3>1 DEF PInv, Stands
    <3> QED BY <1>1, <2>1, <2>2, <2>4, <3>2, <3>3, <3>4 DEF PInv, Published, HomeNext, Travelled, Stands, AtRest, Writing
  <2> QED BY <2>3, <2>4
<1>2. ASSUME IInv, PInv, LeaveEdge PROVE PInv'
  <2>1. /\ pc = "leaving" /\ TypeOK /\ shaft \in Sectors /\ Seen \in Sectors /\ dir \in {-1, 1} /\ cur \in Positions
        /\ PortMark(Seen) /\ (anchored => Seen = PortSector(cur))
        /\ UNCHANGED <<shaft, motor, dir, cur, inPos, file, pub, anchored, target, dist, goal>>
    BY <1>2, SeenBehind DEF LeaveEdge, IInv, TypeOK, PInv, Travelled, belief
  <2>2. /\ Seen' = shaft /\ EdgeWaits' /\ shaft = (Seen + dir + 10) % 10
        /\ PortEdge("rise") <=> PortMark(Seen)
    BY <1>2, WakeUp, <2>1 DEF LeaveEdge, PInv
  <2>3. pc' = "travelling" /\ absSeen' = AbsMark(shaft) /\ expectAbs' = ExpectedAbsMark(cur, dir)
    BY <1>2, <2>1, <2>2 DEF LeaveEdge
  <2>4. Seen \in {0, 2, 4, 6}
    BY <2>1, PortSectors
  <2>5. ~AbsMark(shaft) /\ shaft \notin AbsAhead
    BY <2>1, <2>2, <2>4 DEF AbsMark, AbsAhead
  <2>6. anchored => shaft \in Leg
    <3>1. SUFFICES ASSUME anchored PROVE shaft \in Leg
      OBVIOUS
    <3>2. cur \in {0, 1, 2, 3} /\ Seen = 2 * cur /\ PortSector(cur) = 2 * cur
      BY <2>1, <3>1 DEF Positions, PortSector
    <3> QED BY <2>1, <2>2, <3>2 DEF Leg, ExpectedAbsMark
  <2>7. Travelled'
    <3>1. Leg' = Leg /\ AbsAhead' = AbsAhead
      BY <2>1 DEF Leg, AbsAhead
    <3>2. absSeen' = FALSE
      BY <2>3, <2>5 DEF AbsMark
    <3> QED BY <2>1, <2>2, <2>3, <2>5, <2>6, <3>1, <3>2 DEF Travelled
  <2> QED BY <1>2, <2>1, <2>2, <2>3, <2>7 DEF PInv, Published, HomeNext, OnTheWay, Stands, AtRest, Writing
<1>3. ASSUME IInv, PInv, GiveUp PROVE PInv'
  <2>1. UNCHANGED <<shaft, dir, portQ, absQ, cur, inPos, file, pub, anchored, target, dist, goal, absSeen>>
    BY <1>3 DEF GiveUp, belief
  <2>2. Seen' = Seen /\ EdgeWaits'
    BY <1>3, <2>1, SeenStays DEF PInv
  <2>3. CASE pc = "homing"
    <3>1. pc' = "homeSettle"
      BY <1>3, <2>3 DEF GiveUp
    <3> QED BY <1>3, <2>1, <2>2, <2>3, <3>1 DEF PInv, Published, HomeNext, OnTheWay, Travelled, Stands, AtRest, Writing
  <2>4. CASE pc \in {"leaving", "travelling"}
    <3>1. pc' = "settle"
      BY <1>3, <2>4 DEF GiveUp
    <3>2. cur # target
      <4>1. /\ goal - dist \in {1, 2} /\ target = (cur + dir * (goal - dist) + 4) % 4
            /\ cur \in {0, 1, 2, 3} /\ dir \in {-1, 1}
        BY <1>3, <2>4 DEF PInv, OnTheWay, IInv, TypeOK, Positions
      <4>2. \A c \in {0, 1, 2, 3}, d \in {-1, 1}, n \in {1, 2} : c # (c + d * n + 4) % 4
        OBVIOUS
      <4> QED BY <4>1, <4>2, Zenon
    <3> QED BY <1>3, <2>1, <2>2, <2>4, <3>1, <3>2 DEF PInv, Published, HomeNext, OnTheWay, Travelled, Stands, AtRest, Writing
  <2> QED BY <1>3, <2>3, <2>4 DEF GiveUp
<1> QED BY <1>1, <1>2, <1>3

(* A movement between two ports, and the port it reaches.                   *)
LEMMA TravelKeeps == IInv /\ PInv /\ TravelEdge => PInv'
<1> SUFFICES ASSUME IInv, PInv, TravelEdge PROVE PInv'
  OBVIOUS
<1>1. /\ pc = "travelling" /\ TypeOK /\ EdgesWaiting /\ EdgeWaits /\ TakeEdges
      /\ UNCHANGED <<shaft, dir, inPos, file, pub, request, target, goal>>
  BY DEF TravelEdge, IInv, PInv
<1>2. /\ shaft \in Sectors /\ Seen \in Sectors /\ dir \in {-1, 1} /\ cur \in {0, 1, 2, 3} /\ cur \in Positions
      /\ dist \in 0..6 /\ goal \in 0..6
  BY <1>1, SeenBehind DEF TypeOK, Positions
<1>3. /\ Seen' = shaft /\ EdgeWaits' /\ shaft = (Seen + dir + 10) % 10
      /\ PortEdge("fall") <=> PortMark(shaft)
      /\ AbsEdge("fall") <=> AbsMark(shaft)
  BY <1>1, WakeUp
<1>4. /\ PortMark(shaft) <=> shaft \in {0, 2, 4, 6}
      /\ AbsMark(shaft) <=> shaft = 8
      /\ \A p \in Positions : PortSector(p) = 2 * p
  BY <1>2, PortSectors DEF AbsMark
<1>5. /\ expectAbs = ExpectedAbsMark(cur, dir)
      /\ absSeen <=> Seen \in AbsAhead
      /\ anchored => Seen \in Leg
  BY <1>1 DEF PInv, Travelled
<1>6. goal - dist \in {1, 2} /\ target = (cur + dir * (goal - dist) + 4) % 4 /\ pub = Moving
  BY <1>1 DEF PInv, OnTheWay, Published, AtRest, Writing
<1>7. CASE PortMark(shaft)
  <2>1. /\ TravelPort /\ cur' = (cur + dir + 4) % 4 /\ dist' = dist + 1
        /\ anchored' = (anchored \/ (expectAbs /\ absSeen))
    BY <1>3, <1>7 DEF TravelEdge, TravelPort
  <2>2. CASE expectAbs # absSeen
    <3>1. pc' = "misplaced"
      BY <2>1, <2>2 DEF TravelPort
    <3> QED BY <1>1, <1>3, <1>6, <3>1 DEF PInv, Published, HomeNext, OnTheWay, Travelled, Stands, AtRest, Writing
  <2>3. CASE expectAbs = absSeen
    <3>1. /\ expectAbs' = ExpectedAbsMark(cur', dir)
          /\ absSeen' = AbsEdge("fall")
          /\ pc' = IF dist' < goal THEN "travelling" ELSE "settle"
      BY <2>1, <2>3 DEF TravelPort
    <3>2. ~absSeen' /\ shaft \notin AbsAhead /\ shaft \in {0, 2, 4, 6}
      BY <1>2, <1>3, <1>4, <1>7, <3>1 DEF AbsAhead
    <3>3. cur' \in Positions
      BY <1>2, <2>1, Rings
    <3>4. anchored' => shaft = PortSector(cur')
      <4>1. CASE anchored
        <5>1. Seen \in Leg
          BY <1>5, <4>1
        <5>2. shaft = 2 * ((cur + dir + 4) % 4)
          BY <1>2, <1>3, <1>4, <3>2, <5>1 DEF Leg, AbsAhead, ExpectedAbsMark
        <5> QED BY <1>4, <2>1, <3>3, <5>2
      <4>2. CASE expectAbs /\ absSeen
        <5>1. Seen \in AbsAhead /\ ExpectedAbsMark(cur, dir)
          BY <1>5, <4>2
        <5>2. shaft = 2 * ((cur + dir + 4) % 4)
          BY <1>2, <1>3, <3>2, <5>1 DEF AbsAhead, ExpectedAbsMark
        <5> QED BY <1>4, <2>1, <3>3, <5>2
      <4> QED BY <2>1, <4>1, <4>2
    <3>5. AbsAhead' = AbsAhead /\ (anchored' => shaft \in Leg')
      BY <1>1, <3>4 DEF AbsAhead, Leg
    <3>6. CASE goal - dist = 1
      <4>1. pc' = "settle"
        <5>1. \A i, n \in 0..6 : n - i = 1 => ~(i + 1 < n)
          OBVIOUS
        <5>2. ~(dist + 1 < goal)
          BY <1>2, <3>6, <5>1, Zenon
        <5> QED BY <2>1, <3>1, <5>2
      <4> QED BY <1>1, <1>3, <1>6, <3>4, <4>1 DEF PInv, Published, HomeNext, OnTheWay, Travelled, Stands, AtRest, Writing
    <3>7. CASE goal - dist = 2
      <4>1. pc' = "travelling" /\ goal - dist' = 1
        <5>1. \A i, n \in 0..6 : n - i = 2 => i + 1 < n /\ n - (i + 1) = 1
          OBVIOUS
        <5>2. dist + 1 < goal /\ goal - (dist + 1) = 1
          BY <1>2, <3>7, <5>1, Zenon
        <5> QED BY <2>1, <3>1, <5>2
      <4>2. target = (cur' + dir * 1 + 4) % 4
        <5>1. \A c \in {0, 1, 2, 3}, d \in {-1, 1} : (c + d * 2 + 4) % 4 = (((c + d + 4) % 4) + d * 1 + 4) % 4
          OBVIOUS
        <5> QED BY <1>2, <1>6, <2>1, <3>7, <5>1, Zenon
      <4>3. OnTheWay'
        BY <1>1, <4>1, <4>2 DEF OnTheWay
      <4>4. Travelled'
        BY <1>1, <1>3, <3>1, <3>2, <3>5, <4>1 DEF Travelled
      <4> QED BY <1>1, <1>3, <1>6, <4>1, <4>3, <4>4 DEF PInv, Published, HomeNext, Stands, AtRest, Writing
    <3> QED BY <1>6, <3>6, <3>7
  <2> QED BY <2>2, <2>3
<1>8. CASE ~PortMark(shaft)
  <2>1. /\ absSeen' = (absSeen \/ AbsEdge("fall"))
        /\ UNCHANGED <<dist, cur, anchored, expectAbs, motor, pc>>
    BY <1>3, <1>8 DEF TravelEdge, TravelPort
  <2>2. absSeen' <=> shaft \in AbsAhead
    <3>1. Seen \in AbsAhead \/ shaft = 8 <=> shaft \in AbsAhead
      <4>1. shaft \notin {0, 2, 4, 6}
        BY <1>4, <1>8
      <4>2. CASE dir = 1
        BY <1>2, <1>3, <4>1, <4>2 DEF AbsAhead, Sectors
      <4>3. CASE dir = -1
        BY <1>2, <1>3, <4>1, <4>3 DEF AbsAhead, Sectors
      <4> QED BY <1>2, <4>2, <4>3
    <3> QED BY <1>3, <1>4, <1>5, <2>1, <3>1, Zenon
  <2>3. anchored => shaft \in Leg
    BY <1>2, <1>3, <1>4, <1>5, <1>8 DEF Leg, AbsAhead, ExpectedAbsMark
  <2>4. Leg' = Leg /\ AbsAhead' = AbsAhead
    BY <1>1, <2>1 DEF Leg, AbsAhead
  <2>5. Travelled'
    BY <1>1, <1>3, <1>5, <2>1, <2>2, <2>3, <2>4 DEF Travelled
  <2> QED BY <1>1, <1>3, <2>1, <2>5 DEF PInv, Published, HomeNext, OnTheWay, Stands, AtRest, Writing
<1> QED BY <1>7, <1>8

(* A movement ends and the file is written.                                 *)
LEMMA EndKeeps == IInv /\ PInv /\ (Arrive \/ Truncate \/ Write) => PInv'
<1>1. ASSUME IInv, PInv, Arrive PROVE PInv'
  <2>1. UNCHANGED <<shaft, dir, portQ, absQ, cur, anchored, target>> /\ pc \in {"settle", "misplaced"}
    BY <1>1 DEF Arrive, shaftVars
  <2>2. Seen' = Seen /\ EdgeWaits'
    BY <1>1, <2>1, SeenStays DEF PInv
  <2>3. CASE pc = "misplaced" \/ ~PortMark(shaft) \/ cur # target
    <3>1. pc' = "idle" /\ ~inPos'
      BY <1>1, <2>3 DEF Arrive, Lost
    <3> QED BY <2>2, <3>1 DEF PInv, Published, HomeNext, OnTheWay, Travelled, Stands, AtRest, Writing
  <2>4. CASE pc = "settle" /\ PortMark(shaft) /\ cur = target
    <3>1. pc' = "truncate" /\ pub' = cur
      BY <1>1, <2>4 DEF Arrive
    <3>2. anchored => shaft = PortSector(cur)
      <4>1. /\ anchored => Seen = PortSector(cur)
            /\ Seen = shaft \/ shaft = (Seen + dir + 10) % 10
            /\ dir \in {-1, 1} /\ cur \in Positions /\ shaft \in Sectors
        BY <1>1, <2>4, SeenBehind DEF PInv, Travelled, IInv, TypeOK
      <4>2. cur \in {0, 1, 2, 3} /\ PortSector(cur) = 2 * cur /\ shaft \in {0, 2, 4, 6}
        BY <2>4, <4>1, PortSectors DEF Positions
      <4> QED BY <4>1, <4>2
    <3> QED BY <2>1, <2>2, <3>1, <3>2 DEF PInv, Published, HomeNext, OnTheWay, Travelled, Stands, AtRest, Writing
  <2> QED BY <2>1, <2>3, <2>4
<1>2. ASSUME IInv, PInv, Truncate \/ Write PROVE PInv'
  <2>1. /\ UNCHANGED <<shaft, dir, portQ, absQ, cur, inPos, pub, anchored>>
        /\ pc \in {"truncate", "write"} /\ pc' \in {"write", "idle"}
    BY <1>2 DEF Truncate, Write, shaftVars
  <2>2. EdgeWaits'
    BY <1>2, <2>1, SeenStays DEF PInv
  <2> QED BY <1>2, <2>1, <2>2 DEF PInv, Published, HomeNext, OnTheWay, Travelled, Stands, AtRest, Writing
<1> QED BY <1>1, <1>2

(* bytd starts again: the file was right, or there was none.                *)
LEMMA RestartKeeps == IInv /\ PInv /\ Restart => PInv'
<1> SUFFICES ASSUME IInv, PInv, Restart PROVE PInv'
  OBVIOUS
<1>1. portQ' = <<>> /\ absQ' = <<>> /\ pc' = "idle" /\ pub' = pub
  BY DEF Restart
<1>2. EdgeWaits'
  BY <1>1, NoneWaits
<1>3. ASSUME inPos', anchored'
      PROVE  inPos /\ anchored /\ cur' = cur /\ shaft' = shaft /\ pc \in {"idle", "begin", "move"}
  <2>1. file = cur' /\ cur' \in Positions /\ file # None
    BY <1>3, Loaded, NoPosition DEF Restart, IInv, TypeOK
  <2>2. pc \in {"idle", "begin", "home", "move"} /\ anchored
    BY <1>3 DEF Restart
  <2>3. inPos /\ file = cur /\ pc # "home"
    BY <2>1, <2>2 DEF IInv, FileFollows, AtRest, Homing
  <2>4. shaft' = shaft
    BY <2>2 DEF Restart, IInv, MotorRuns
  <2> QED BY <2>1, <2>2, <2>3, <2>4
<1>4. Published' /\ Stands'
  BY <1>1, <1>3, NoPosition DEF PInv, Published, Stands, AtRest, Writing
<1> QED BY <1>1, <1>2, <1>4 DEF PInv, HomeNext, OnTheWay, Travelled

(* While the mover is one edge behind at most, the position established by  *)
(* the absolute mark is at rest the port the shaft stands at and the one    *)
(* published, and the file says the same: moveTo, home_pos, move,           *)
(* lostPosition, loadPosition, restarts and lost movements at any point.    *)
THEOREM PositionIsTrue == MaxSlip = 1 /\ Spec => []PositionHolds
<1> SUFFICES ASSUME MaxSlip = 1 PROVE Spec => []PositionHolds
  OBVIOUS
<1>1. IInv /\ PInv /\ [Next]_vars => PInv'
  <2> SUFFICES ASSUME IInv, PInv, [Next]_vars PROVE PInv'
    OBVIOUS
  <2>1. CASE Next
    BY <2>1, TurnKeeps, RequestKeeps, HomeKeeps, StartKeeps, TravelKeeps, EndKeeps, RestartKeeps, Zenon DEF Next, Mover
  <2>2. CASE UNCHANGED vars
    <3>1. /\ UNCHANGED <<shaft, motor, dir, portQ, absQ, cur, inPos, file, pub, anchored>>
          /\ UNCHANGED <<pc, target, dist, goal, absSeen, expectAbs>>
      BY <2>2 DEF vars, shaftVars, belief, thread
    <3>2. Seen' = Seen /\ EdgeWaits' /\ Leg' = Leg /\ AbsAhead' = AbsAhead
      BY <3>1, SeenStays DEF PInv, Leg, AbsAhead
    <3> QED BY <3>1, <3>2 DEF PInv, Published, HomeNext, OnTheWay, Travelled, Stands
  <2> QED BY <2>1, <2>2
<1>2. IInv /\ PInv => PositionHolds
  BY DEF IInv, FileFollows, PInv, Published, Stands, PositionHolds, BeliefIsTrue, FileAgrees, AtRest
<1> QED BY <1>1, <1>2, InitPInv, Invariance, PTL DEF Spec
====
