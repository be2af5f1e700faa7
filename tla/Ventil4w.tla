------------------------------ MODULE Ventil4w ------------------------------
(***************************************************************************)
(* The motorised four-way valve (bytd/src/Ventil4w.cpp): moveTo on the io  *)
(* thread, the detached mover thread it starts, the shaft with its port    *)
(* and absolute marks, and the file the position survives a restart in.    *)
(*                                                                         *)
(* The shaft is a ring of ten sectors: port p is sector 2p, the absolute   *)
(* mark is sector 8, odd sectors are blank.  Every sector boundary the     *)
(* shaft crosses is one edge on one of the two lines.                      *)
(***************************************************************************)
EXTENDS Integers, Sequences

CONSTANTS None,     \* no file, no request
          Garbage,  \* a file cut short
          Moving, Error,  \* published while moving, and when the position is lost
          MaxSlip   \* edges the mover may be behind the shaft, coasting included

ASSUME VentilAssumption ==
  /\ MaxSlip \in Nat \ {0}
  /\ None # Garbage
  /\ {None, Garbage, Moving, Error} \cap (0..3) = {}

Positions == 0..3           \* Kotol, StudenaVoda, Boiler, KotolBoiler
Sectors   == 0..9
PortSector(p) == 2 * p
PortMark(s)   == s \in {PortSector(p) : p \in Positions}
AbsMark(s)    == s = 8

VARIABLES
  shaft, motor, dir,     \* sector, motor powered, +1 forward or -1
  portQ, absQ,           \* edges not read yet: "fall" (mark reached), "rise"
  cur, inPos,            \* cur_position, in_position
  file,                  \* ventil4way-last-position
  pub,                   \* last value published on the position topic
  request,               \* moveTo has passed its check, not yet test_and_set
  pc, target,            \* the mover; "idle" when the moving flag is clear
  dist, goal,            \* ports counted, ports to count
  absSeen, expectAbs,    \* absMarkReached / absMarkHit, expectAbsMark
  anchored               \* history: see Anchored below

thread == <<pc, target, dist, goal, absSeen, expectAbs>>
shaftVars == <<shaft, motor, dir, portQ, absQ>>
belief == <<cur, inPos, file, pub, anchored>>
vars == <<shaftVars, belief, request, thread>>

(* The types; the position stays on the ring of four ports.                 *)
TypeOK ==
  /\ shaft \in Sectors /\ motor \in BOOLEAN /\ dir \in {-1, 1}
  /\ portQ \in Seq({"fall", "rise"}) /\ absQ \in Seq({"fall", "rise"})
  /\ cur \in Positions /\ inPos \in BOOLEAN
  /\ file \in Positions \cup {None, Garbage}
  /\ pub \in Positions \cup {None, Moving, Error}
  /\ request \in Positions \cup {None}
  /\ pc \in {"idle", "begin", "home", "homing", "homeSettle", "move", "leaving",
             "travelling", "settle", "misplaced", "truncate", "write"}
  /\ target \in Positions /\ dist \in 0..6 /\ goal \in 0..6
  /\ absSeen \in BOOLEAN /\ expectAbs \in BOOLEAN /\ anchored \in BOOLEAN

-----------------------------------------------------------------------------
(* calcMotion: the short way round, <<direction, number of ports>>.         *)
CalcMotion(from, to) ==
  LET d == to - from IN
  IF d \in {-3, 3} THEN <<IF d > 0 THEN -1 ELSE 1, 1>>
                   ELSE <<IF d > 0 THEN 1 ELSE -1, IF d > 0 THEN d ELSE -d>>

(* forward: AbsMark -> K -> Voda -> B -> KB -> AbsMark                      *)
ExpectedAbsMark(p, d) == (p = 3 /\ d = 1) \/ (p = 0 /\ d = -1)

(* loadPosition, in the constructor.                                        *)
Load(content) ==
  IF content \in Positions THEN [pos |-> content, in |-> TRUE, file |-> content]
                           ELSE [pos |-> 0, in |-> FALSE, file |-> None]

Init ==
  /\ shaft \in Sectors /\ motor = FALSE /\ dir = 1
  /\ portQ = <<>> /\ absQ = <<>>
  /\ file \in {p \in Positions : shaft = PortSector(p)} \cup {None}
  /\ cur = Load(file).pos /\ inPos = Load(file).in
  /\ pub = None /\ request = None
  /\ pc = "idle" /\ target = 0 /\ dist = 0 /\ goal = 0
  /\ absSeen = FALSE /\ expectAbs = FALSE
  /\ anchored = TRUE

-----------------------------------------------------------------------------
(* The shaft crosses a sector boundary: driven, or coasting while the mover *)
(* sleeps after motorStop.                                                  *)
Turn ==
  /\ motor \/ pc \in {"homeSettle", "settle", "misplaced"}
  /\ Len(portQ) + Len(absQ) < MaxSlip
  /\ shaft' = (shaft + dir + 10) % 10
  /\ portQ' = IF PortMark(shaft') THEN Append(portQ, "fall")
              ELSE IF PortMark(shaft) THEN Append(portQ, "rise") ELSE portQ
  /\ absQ' = IF AbsMark(shaft') THEN Append(absQ, "fall")
             ELSE IF AbsMark(shaft) THEN Append(absQ, "rise") ELSE absQ
  /\ UNCHANGED <<motor, dir, belief, request, thread>>

(* waitEvent: the first unread edge of each line, in one wakeup.            *)
EdgesWaiting == portQ # <<>> \/ absQ # <<>>
PortEdge(e)  == portQ # <<>> /\ Head(portQ) = e
AbsEdge(e)   == absQ # <<>> /\ Head(absQ) = e
Rest(q)      == IF q = <<>> THEN q ELSE Tail(q)
TakeEdges    == portQ' = Rest(portQ) /\ absQ' = Rest(absQ)

-----------------------------------------------------------------------------
(* moveTo on the io thread: the check, and later the test_and_set.  A       *)
(* request that finds the flag set is dropped.                              *)
MoveTo(t) ==
  /\ request = None
  /\ ~(t = cur /\ inPos)
  /\ request' = t
  /\ UNCHANGED <<shaftVars, belief, thread>>

Launch ==
  /\ request # None
  /\ request' = None
  /\ IF pc = "idle" THEN pc' = "begin" /\ target' = request
                    ELSE UNCHANGED <<pc, target>>
  /\ UNCHANGED <<shaftVars, belief, dist, goal, absSeen, expectAbs>>

MutLost == /\ pub' = Error /\ inPos' = FALSE /\ pc' = "idle"  \* the file is kept
           /\ UNCHANGED file

(* task: lostPosition and "error".                                          *)
Lost == /\ pub' = Error /\ file' = None /\ inPos' = FALSE
        /\ pc' = "idle"

Begin ==
  /\ pc = "begin"
  /\ IF target = cur /\ inPos
       THEN pc' = "idle" /\ UNCHANGED pub
       ELSE pc' = (IF inPos THEN "move" ELSE "home") /\ pub' = Moving
  /\ UNCHANGED <<shaftVars, cur, inPos, file, anchored, request,
                 target, dist, goal, absSeen, expectAbs>>

(* home_pos: spurious edges are flushed, then forward until the port after  *)
(* the absolute mark.                                                       *)
StartHome ==
  /\ pc = "home" /\ pc' = "homing"
  /\ portQ' = <<>> /\ absQ' = <<>>
  /\ motor' = TRUE /\ dir' = 1
  /\ absSeen' = AbsMark(shaft)
  /\ dist' = 0 /\ goal' = IF AbsMark(shaft) THEN 1 ELSE 5
  /\ UNCHANGED <<shaft, belief, request, target, expectAbs>>

HomeEdge ==
  /\ pc = "homing" /\ EdgesWaiting /\ TakeEdges
  /\ dist' = IF PortEdge("fall") THEN dist + 1 ELSE dist
  /\ absSeen' = (absSeen \/ AbsEdge("fall"))
  /\ goal' = IF AbsEdge("fall") /\ ~absSeen THEN dist' + 1 ELSE goal
  /\ motor' = (dist' < goal')
  /\ pc' = IF dist' < goal' THEN "homing" ELSE "homeSettle"
  /\ UNCHANGED <<shaft, dir, belief, request, target, expectAbs>>

MutGiveUp ==  \* only homing has a deadline
  /\ pc = "homing" /\ motor' = FALSE /\ pc' = "homeSettle"
  /\ UNCHANGED <<shaft, dir, portQ, absQ, belief, request,
                 target, dist, goal, absSeen, expectAbs>>

(* waitEvent ran out, or the deadline of the whole movement did.            *)
GiveUp ==
  /\ pc \in {"homing", "leaving", "travelling"}
  /\ motor' = FALSE
  /\ pc' = IF pc = "homing" THEN "homeSettle" ELSE "settle"
  /\ UNCHANGED <<shaft, dir, portQ, absQ, belief, request,
                 target, dist, goal, absSeen, expectAbs>>

HomeDone ==
  /\ pc = "homeSettle"
  /\ IF PortMark(shaft) /\ absSeen
       THEN /\ inPos' = TRUE /\ cur' = 0 /\ anchored' = TRUE
            /\ IF target = 0 THEN pub' = 0 /\ pc' = "truncate"
                             ELSE UNCHANGED pub /\ pc' = "move"
            /\ UNCHANGED file
       ELSE Lost /\ UNCHANGED <<cur, anchored>>
  /\ UNCHANGED <<shaftVars, request, target, dist, goal, absSeen, expectAbs>>

(* move: refused unless the shaft stands at a port.                         *)
StartMove ==
  /\ pc = "move"
  /\ portQ' = <<>> /\ absQ' = <<>>
  /\ IF AbsMark(shaft) \/ ~PortMark(shaft)
       THEN Lost /\ UNCHANGED <<motor, dir, dist, goal>>
       ELSE /\ dir' = CalcMotion(cur, target)[1]
            /\ goal' = CalcMotion(cur, target)[2] /\ dist' = 0
            /\ motor' = TRUE /\ pc' = "leaving"
            /\ UNCHANGED <<pub, file, inPos>>
  /\ UNCHANGED <<shaft, cur, anchored, request, target, absSeen, expectAbs>>

LeaveEdge ==
  /\ pc = "leaving" /\ EdgesWaiting /\ TakeEdges
  /\ IF PortEdge("rise")
       THEN /\ pc' = "travelling"
            /\ absSeen' = AbsMark(shaft)
            /\ expectAbs' = ExpectedAbsMark(cur, dir)
       ELSE UNCHANGED <<pc, absSeen, expectAbs>>
  /\ UNCHANGED <<shaft, motor, dir, belief, request, target, dist, goal>>

MutTravelPort ==  \* the position is not wrapped round
  /\ PortEdge("fall") /\ dist' = dist + 1 /\ cur' = cur + dir
  /\ anchored' = (anchored \/ (expectAbs /\ absSeen))
  /\ absSeen' = AbsEdge("fall") /\ motor' = (dist' < goal)
  /\ pc' = IF dist' < goal THEN "travelling" ELSE "settle"
  /\ UNCHANGED expectAbs

(* A port is reached; the absolute mark must have been passed exactly when  *)
(* it was expected.                                                         *)
TravelPort ==
  /\ PortEdge("fall")
  /\ dist' = dist + 1
  /\ cur' = (cur + dir + 4) % 4
  /\ anchored' = (anchored \/ (expectAbs /\ absSeen))
  /\ IF expectAbs # absSeen
       THEN motor' = FALSE /\ pc' = "misplaced" /\ UNCHANGED <<absSeen, expectAbs>>
       ELSE /\ expectAbs' = ExpectedAbsMark(cur', dir)
            /\ absSeen' = AbsEdge("fall")
            /\ motor' = (dist' < goal)
            /\ pc' = IF dist' < goal THEN "travelling" ELSE "settle"

TravelEdge ==
  /\ pc = "travelling" /\ EdgesWaiting /\ TakeEdges
  /\ \/ TravelPort
     \/ /\ ~PortEdge("fall")
        /\ absSeen' = (absSeen \/ AbsEdge("fall"))
        /\ UNCHANGED <<dist, cur, anchored, expectAbs, motor, pc>>
  /\ UNCHANGED <<shaft, dir, inPos, file, pub, request, target, goal>>

MutArrive ==  \* the port mark is not looked at once the motor has stopped
  /\ pc \in {"settle", "misplaced"}
  /\ IF pc = "misplaced" \/ cur # target
       THEN Lost
       ELSE inPos' = TRUE /\ pub' = cur /\ pc' = "truncate" /\ UNCHANGED file
  /\ UNCHANGED <<shaftVars, cur, anchored, request, target, dist, goal, absSeen, expectAbs>>

Arrive ==
  /\ pc \in {"settle", "misplaced"}
  /\ IF pc = "misplaced" \/ ~PortMark(shaft) \/ cur # target
       THEN Lost
       ELSE inPos' = TRUE /\ pub' = cur /\ pc' = "truncate" /\ UNCHANGED file
  /\ UNCHANGED <<shaftVars, cur, anchored, request, target, dist, goal, absSeen, expectAbs>>

(* The position file is opened (and emptied), then written.                 *)
Truncate == /\ pc = "truncate" /\ pc' = "write" /\ file' = Garbage
            /\ UNCHANGED <<shaftVars, cur, inPos, pub, anchored, request,
                           target, dist, goal, absSeen, expectAbs>>

Write == /\ pc = "write" /\ pc' = "idle" /\ file' = target
         /\ UNCHANGED <<shaftVars, cur, inPos, pub, anchored, request,
                        target, dist, goal, absSeen, expectAbs>>

(* bytd stops at any point and starts again; a running motor stops anywhere.*)
Restart ==
  /\ shaft' \in IF motor THEN Sectors ELSE {shaft}
  /\ motor' = FALSE /\ portQ' = <<>> /\ absQ' = <<>> /\ dir' = dir
  /\ cur' = Load(file).pos /\ inPos' = Load(file).in /\ file' = Load(file).file
  /\ anchored' = (pc \in {"idle", "begin", "home", "move"} /\ anchored)
  /\ request' = None /\ pc' = "idle" /\ pub' = pub
  /\ UNCHANGED <<target, dist, goal, absSeen, expectAbs>>

Mover == \/ Begin \/ StartHome \/ HomeEdge \/ GiveUp \/ HomeDone \/ StartMove
         \/ LeaveEdge \/ TravelEdge \/ Arrive \/ Truncate \/ Write

Next == Turn \/ Launch \/ Mover \/ Restart \/ \E t \in Positions : MoveTo(t)

Spec == Init /\ [][Next]_vars

(* The mover thread is scheduled and its waits have deadlines; nothing is   *)
(* assumed of the motor.                                                    *)
FairSpec == Spec /\ WF_vars(Mover)

-----------------------------------------------------------------------------
(* The position was established by the absolute mark (homing, or passing it *)
(* where it was expected) and bytd did not stop during a movement since.    *)
(* While that is so, the position the valve is believed in at rest is the   *)
(* port the shaft stands at, and the one published, whatever slipped, stalled *)
(* or failed before.                                                        *)
BeliefIsTrue ==
  pc = "idle" /\ inPos /\ anchored => /\ shaft = PortSector(cur)
                                      /\ pub \in Positions => pub = cur

(* At rest the file and the memory agree, so that a restart at rest changes *)
(* nothing: lostPosition and the two steps of the write.                    *)
FileAgrees == pc = "idle" => file = IF inPos THEN cur ELSE None

(* A movement ends, even if the motor is stuck: otherwise the moving flag   *)
(* stays set and every later request is dropped.                            *)
MovementEnds == pc # "idle" ~> pc = "idle"

(* At rest shaft, belief, topic and file say the same, through faults and   *)
(* restarts at any point (move, home_pos, lostPosition, loadPosition).      *)
PositionHolds == BeliefIsTrue /\ FileAgrees
=============================================================================
