---------------------------- MODULE BoilerProofs ----------------------------
(***************************************************************************)
(* Proofs about the circulation pump of module Boiler, for any limit of    *)
(* flame-offs and any messages: the types, the count and the topic.        *)
(***************************************************************************)
EXTENDS Boiler, TLAPS

(* What each thread may be doing in Pumpa.                                  *)
CallsFit ==
  /\ call["ot"] \in {None, "off"} /\ call["io"] \in {None, "start", "stop"}
  /\ \A t \in Threads : call[t] = None <=> line[t] = "out"
  /\ line["io"] \in {"out", "test", "write", "publish", "set"}

(* Two threads inside are an overlap, whose damage is on record.            *)
OverlapIsWrong ==
  /\ Inside("ot") /\ Inside("io") => overlap
  /\ overlap => wrong = {"count", "topic"}

(* The counter stays below its limit until onPlamenOff stores.              *)
BelowLimit == line["ot"] \in {"out", "look", "load"} => count <= MaxOff

(* What a thread that is alone has done so far.                             *)
Alone(t) ==
  /\ line[t] = "write" => out # Value(call[t])
  /\ line[t] \in {"publish", "set"} => out = Value(call[t])

(* The count from the flame-off being seen to its being stored.             *)
CountKept ==
  /\ AtRest => count = IF out THEN offs ELSE -1
  /\ line["ot"] = "look" => offs > 0 /\ count = IF out THEN offs - 1 ELSE -1
  /\ line["ot"] \in {"load", "store"} => out /\ count = offs - 1
  /\ line["ot"] = "store" => n = offs

TopicKept == (\A t \in Threads : line[t] # "publish") => published = out

IInv ==
  /\ TypeOK /\ CallsFit /\ OverlapIsWrong /\ BelowLimit
  /\ ~overlap => /\ \A t \in Threads : Alone(t)
                 /\ Inside("io") => offs = 0
                 /\ "count" \notin wrong => CountKept
                 /\ "topic" \notin wrong => TopicKept
-----------------------------------------------------------------------------
(* There are two threads.                                                   *)
LEMMA TheOther == Other("ot") = "io" /\ Other("io") = "ot"
BY DEF Other, Threads

(* Initially nobody is inside and nothing is wrong but the retained topic.  *)
LEMMA InitIInv == Init => IInv
<1> SUFFICES ASSUME Init PROVE IInv
  OBVIOUS
<1>1. TypeOK
  <2>1. setpoint \in [Kinds -> Temps \cup {NaN, 0, 38}] /\ setpoint["ch"] # NaN
    BY BoilerAssumption DEF Init, Kinds
  <2>2. n \in 0..(MaxOff + 1) /\ count \in -1..(MaxOff + 1) /\ offs \in 0..(MaxOff + 1)
    BY BoilerAssumption DEF Init
  <2>3. call \in [Threads -> Calls] /\ line \in [Threads -> Lines]
    BY DEF Init, Calls, Lines
  <2>4. boiler \in [Kinds -> Wires \cup {None}] /\ wrong \subseteq {"count", "topic"}
    BY DEF Init
  <2>5. at = "status" /\ req = None /\ sent = None
    BY DEF Init
  <2>6. flame \in BOOLEAN /\ out \in BOOLEAN /\ published \in BOOLEAN /\ overlap \in BOOLEAN
    BY DEF Init
  <2>7. at \in {"status", "flame", "async", "answer", "ch", "dhw"}
    BY <2>5
  <2>8. req \in Requests \cup {None} /\ sent \in Requests \cup {None}
    BY <2>5
  <2> QED BY <2>1, <2>2, <2>3, <2>4, <2>6, <2>7, <2>8, Zenon DEF TypeOK
<1>2. CallsFit /\ OverlapIsWrong /\ BelowLimit
  BY BoilerAssumption DEF Init, CallsFit, OverlapIsWrong, BelowLimit, Inside, Threads
<1>3. (\A t \in Threads : Alone(t)) /\ CountKept /\ ~Inside("io")
  BY DEF Init, Alone, CountKept, Inside, AtRest, Threads
<1> QED BY <1>1, <1>2, <1>3 DEF Init, IInv

(* A call begins: alone it finds the pump as the last one left it,          *)
(* otherwise the overlap is recorded.                                       *)
LEMMA EnterKeeps ==
  ASSUME IInv, NEW t \in Threads, NEW c \in Calls \ {None}, Enter(t, c),
         (t = "ot") <=> (c = "off"), UNCHANGED <<setpoint, boiler, req, sent>>,
         at' \in {"status", "flame", "async", "answer", "ch", "dhw"},
         flame' \in BOOLEAN
  PROVE  IInv'
<1>1. TypeOK'
  <2>1. call' \in [Threads -> Calls] /\ line' \in [Threads -> Lines]
    BY DEF IInv, Enter, TypeOK, Lines
  <2>2. offs' \in 0..(MaxOff + 1)
    BY BoilerAssumption DEF IInv, Enter, TypeOK
  <2>3. overlap' \in BOOLEAN /\ wrong' \subseteq {"count", "topic"}
    BY DEF IInv, Enter, TypeOK, Inside
  <2> QED BY <2>1, <2>2, <2>3 DEF IInv, Enter, TypeOK
<1>2. CallsFit'
  BY BoilerAssumption DEF IInv, Enter, CallsFit, TypeOK, Calls, Threads, Inside
<1>3. OverlapIsWrong' /\ BelowLimit'
  BY TheOther DEF IInv, Enter, OverlapIsWrong, BelowLimit, TypeOK, Threads, Inside
<1>4. ASSUME ~overlap' PROVE ~Inside(Other(t)) /\ AtRest
  BY <1>4, TheOther DEF Enter, AtRest, Threads
<1>5. ASSUME ~overlap' PROVE (\A u \in Threads : Alone(u)') /\ (Inside("io")' => offs' = 0)
  BY <1>4, <1>5, TheOther DEF IInv, Enter, TypeOK, Alone, Inside, Threads
<1>6. ASSUME ~overlap', "count" \notin wrong' PROVE CountKept'
  <2>1. AtRest /\ ~overlap /\ "count" \notin wrong /\ CountKept
    BY <1>4, <1>6 DEF IInv, Enter, OverlapIsWrong
  <2>2. count = IF out THEN offs ELSE -1
    BY <2>1 DEF CountKept
  <2>3. count <= MaxOff
    BY <2>1 DEF IInv, BelowLimit, AtRest, Inside, Threads
  <2>4. line' = [line EXCEPT ![t] = IF c = "off" THEN "look" ELSE "test"]
        /\ count' = count /\ out' = out
    BY DEF Enter
  <2>5. CASE t = "ot"
    <3>1. line'["ot"] = "look" /\ ~AtRest'
      BY <2>4, <2>5 DEF IInv, TypeOK, AtRest, Inside, Threads
    <3>2. offs' = IF offs > MaxOff THEN offs ELSE offs + 1
      BY <2>5 DEF Enter
    <3> QED BY <3>1, <3>2, <2>2, <2>3, <2>4, BoilerAssumption DEF CountKept, IInv, TypeOK
  <2>6. CASE t = "io"
    <3>1. line'["io"] = "test" /\ line'["ot"] = "out" /\ ~AtRest'
      BY <2>1, <2>4, <2>6 DEF IInv, TypeOK, AtRest, Inside, Threads
    <3> QED BY <3>1 DEF CountKept
  <2> QED BY <2>5, <2>6 DEF Threads
<1>7. ASSUME ~overlap', "topic" \notin wrong' PROVE TopicKept'
  <2>1. AtRest /\ ~overlap /\ "topic" \notin wrong /\ TopicKept
    BY <1>4, <1>7 DEF IInv, Enter, OverlapIsWrong
  <2> QED BY <2>1 DEF Enter, TopicKept, AtRest, Inside
<1> QED BY <1>1, <1>2, <1>3, <1>5, <1>6, <1>7 DEF IInv

(* Where a call goes next.                                                  *)
LEMMA LineTypes ==
  ASSUME IInv, NEW t \in Threads, NEW l \in Lines,
         Goto(t, l) \/ (Leave(t) /\ l = "out")
  PROVE  /\ line'[t] = l /\ line'[Other(t)] = line[Other(t)]
         /\ line' \in [Threads -> Lines] /\ call' \in [Threads -> Calls]
         /\ call'[Other(t)] = call[Other(t)]
         /\ call'[t] = IF Leave(t) /\ l = "out" THEN None ELSE call[t]
BY TheOther DEF IInv, TypeOK, Goto, Leave, Threads, Lines, Calls
(* The steps inside Pumpa: each changes one line, and what a thread that is *)
(* alone meets is what it left.                                             *)
LEMMA LookKeeps == ASSUME IInv, NEW t \in Threads, Look(t), UNCHANGED <<loop, setpoint, req>>
                   PROVE  IInv'
<1>0. t = "ot" /\ call["ot"] = "off"
  BY DEF IInv, CallsFit, Look, Threads
<1>1. PICK l \in {"load", "out"} :
        /\ l = IF count >= 0 THEN "load" ELSE "out"
        /\ Goto(t, l) \/ (Leave(t) /\ l = "out")
  BY DEF Look
<1>2. /\ line'["ot"] = l /\ line'["io"] = line["io"]
      /\ line' \in [Threads -> Lines] /\ call' \in [Threads -> Calls]
      /\ call'["io"] = call["io"]
      /\ call'["ot"] = IF l = "out" THEN None ELSE "off"
  BY <1>0, <1>1, LineTypes, TheOther DEF Lines, Look, Goto, Leave, IInv, TypeOK
<1>3. TypeOK' /\ CallsFit' /\ OverlapIsWrong' /\ BelowLimit'
  BY <1>0, <1>1, <1>2 DEF IInv, TypeOK, CallsFit, OverlapIsWrong, BelowLimit, Look,
     loop, Inside, Threads
<1>4. ASSUME ~overlap PROVE (\A u \in Threads : Alone(u)') /\ (Inside("io")' => offs' = 0)
  BY <1>1, <1>2, <1>4 DEF IInv, Alone, Inside, Threads, Look
<1>5. ASSUME ~overlap, "count" \notin wrong PROVE CountKept'
  BY <1>0, <1>1, <1>2, <1>5 DEF IInv, TypeOK, CountKept, OverlapIsWrong, AtRest, Inside,
     Threads, Look
<1>6. ASSUME ~overlap, "topic" \notin wrong PROVE TopicKept'
  BY <1>0, <1>1, <1>2, <1>6 DEF IInv, TopicKept, OverlapIsWrong, Inside, Threads, Look
<1> QED BY <1>3, <1>4, <1>5, <1>6 DEF IInv, Look

(* The count is read for its increment.                                     *)
LEMMA LoadKeeps == ASSUME IInv, NEW t \in Threads, Load(t), UNCHANGED <<loop, setpoint, req>>
                   PROVE  IInv'
<1>0. t = "ot" /\ call["ot"] = "off"
  BY DEF IInv, CallsFit, Load, Threads
<1>1. Goto(t, "store")
  BY DEF Load
<1>2. /\ line'["ot"] = "store" /\ line'["io"] = line["io"]
      /\ line' \in [Threads -> Lines] /\ call' = call
  BY <1>0, <1>1 DEF Goto, IInv, TypeOK, Threads, Lines
<1>3. TypeOK' /\ CallsFit' /\ OverlapIsWrong' /\ BelowLimit'
  BY <1>0, <1>1, <1>2, BoilerAssumption DEF IInv, TypeOK, CallsFit, OverlapIsWrong,
     BelowLimit, Load, loop, Inside, Threads
<1>4. ASSUME ~overlap PROVE (\A u \in Threads : Alone(u)') /\ (Inside("io")' => offs' = 0)
  BY <1>1, <1>2, <1>4 DEF IInv, Alone, Inside, Threads, Load
<1>5. ASSUME ~overlap, "count" \notin wrong PROVE CountKept'
  BY <1>0, <1>1, <1>2, <1>5 DEF IInv, TypeOK, CountKept, AtRest, Inside, Threads, Load
<1>6. ASSUME ~overlap, "topic" \notin wrong PROVE TopicKept'
  BY <1>0, <1>1, <1>2, <1>6 DEF IInv, TopicKept, Threads, Load
<1> QED BY <1>3, <1>4, <1>5, <1>6 DEF IInv, Load

(* The count is written back; the last one leads to the stop.               *)
LEMMA StoreKeeps == ASSUME IInv, NEW t \in Threads, Store(t), UNCHANGED <<loop, setpoint, req>>
                    PROVE  IInv'
<1>0. t = "ot" /\ call["ot"] = "off"
  BY DEF IInv, CallsFit, Store, Threads
<1>1. /\ line'["ot"] = IF n > MaxOff THEN "test" ELSE "out"
      /\ line'["io"] = line["io"] /\ line' \in [Threads -> Lines]
      /\ call' \in [Threads -> Calls] /\ call'["io"] = call["io"]
      /\ call'["ot"] = IF n > MaxOff THEN "off" ELSE None
  BY <1>0 DEF Store, Full, Goto, Leave, IInv, TypeOK, Threads, Lines, Calls
<1>2. count' = n /\ n \in Nat /\ n <= MaxOff + 1
  BY BoilerAssumption DEF Store, IInv, TypeOK
<1>3. TypeOK' /\ CallsFit' /\ OverlapIsWrong' /\ BelowLimit'
  BY <1>0, <1>1, <1>2, BoilerAssumption DEF IInv, TypeOK, CallsFit, OverlapIsWrong,
     BelowLimit, Store, loop, Inside, Threads
<1>4. ASSUME ~overlap PROVE (\A u \in Threads : Alone(u)') /\ (Inside("io")' => offs' = 0)
  BY <1>1, <1>4 DEF IInv, Alone, Inside, Threads, Store
<1>5. ASSUME ~overlap, "count" \notin wrong PROVE CountKept'
  BY <1>0, <1>1, <1>2, <1>5 DEF IInv, TypeOK, CountKept, AtRest, Inside, Threads, Store
<1>6. ASSUME ~overlap, "topic" \notin wrong PROVE TopicKept'
  BY <1>0, <1>1, <1>6 DEF IInv, TopicKept, Threads, Store
<1> QED BY <1>3, <1>4, <1>5, <1>6 DEF IInv, Store
(* setPumpa.                                                                *)
LEMMA TestKeeps == ASSUME IInv, NEW t \in Threads, Test(t), UNCHANGED <<loop, setpoint, req>>
                   PROVE  IInv'
<1>1. PICK l \in {"set", "write"} : l = (IF out = Value(call[t]) THEN "set" ELSE "write")
                                    /\ Goto(t, l)
  BY DEF Test
<1>2. /\ line'[t] = l /\ line'[Other(t)] = line[Other(t)]
      /\ line' \in [Threads -> Lines] /\ call' = call
  BY <1>1, TheOther DEF Goto, IInv, TypeOK, Threads, Lines
<1>3. TypeOK' /\ CallsFit' /\ OverlapIsWrong' /\ BelowLimit'
  BY <1>2, TheOther DEF IInv, TypeOK, CallsFit, OverlapIsWrong, BelowLimit, Test,
     loop, Inside, Threads
<1>4. ASSUME ~overlap PROVE (\A u \in Threads : Alone(u)') /\ (Inside("io")' => offs' = 0)
  BY <1>1, <1>2, <1>4, TheOther DEF IInv, Alone, Inside, Threads, Test
<1>5. ASSUME ~overlap, "count" \notin wrong PROVE CountKept'
  BY <1>2, <1>5, TheOther DEF IInv, CountKept, AtRest, Inside, Threads, Test
<1>6. ASSUME ~overlap, "topic" \notin wrong PROVE TopicKept'
  BY <1>2, <1>6, TheOther DEF IInv, TopicKept, Threads, Test
<1> QED BY <1>3, <1>4, <1>5, <1>6 DEF IInv, Test

(* Alone means that the other thread is outside.                            *)
LEMMA OtherOutside ==
  ASSUME IInv, ~overlap, NEW t \in Threads, line[t] # "out"
  PROVE  line[Other(t)] = "out"
BY TheOther DEF IInv, OverlapIsWrong, Inside, Threads

(* The relay is switched.                                                   *)
LEMMA WriteKeeps == ASSUME IInv, NEW t \in Threads, Write(t), UNCHANGED <<loop, setpoint, req>>
                    PROVE  IInv'
<1>2. /\ line'[t] = "publish" /\ line'[Other(t)] = line[Other(t)]
      /\ line' \in [Threads -> Lines] /\ call' = call
  BY TheOther DEF Write, Goto, IInv, TypeOK, Threads, Lines
<1>3. TypeOK' /\ CallsFit' /\ OverlapIsWrong' /\ BelowLimit'
  BY <1>2, TheOther DEF IInv, TypeOK, CallsFit, OverlapIsWrong, BelowLimit, Write,
     loop, Inside, Threads, Value
<1>4. ASSUME ~overlap PROVE (\A u \in Threads : Alone(u)') /\ (Inside("io")' => offs' = 0)
  BY <1>2, <1>4, OtherOutside, TheOther DEF IInv, Alone, Inside, Threads, Write
<1>5. ASSUME ~overlap PROVE CountKept' /\ TopicKept'
  BY <1>2, <1>5, OtherOutside, TheOther DEF IInv, CountKept, TopicKept, AtRest, Inside,
     Threads, Write
<1> QED BY <1>3, <1>4, <1>5 DEF IInv, Write

(* The topic follows the relay.                                             *)
LEMMA PublishKeeps == ASSUME IInv, NEW t \in Threads, Publish(t),
                             UNCHANGED <<loop, setpoint, req>>
                      PROVE  IInv'
<1>2. /\ line'[t] = "set" /\ line'[Other(t)] = line[Other(t)]
      /\ line' \in [Threads -> Lines] /\ call' = call
  BY TheOther DEF Publish, Goto, IInv, TypeOK, Threads, Lines
<1>3. TypeOK' /\ CallsFit' /\ OverlapIsWrong' /\ BelowLimit'
  BY <1>2, TheOther DEF IInv, TypeOK, CallsFit, OverlapIsWrong, BelowLimit, Publish,
     loop, Inside, Threads, Value
<1>4. ASSUME ~overlap PROVE (\A u \in Threads : Alone(u)') /\ (Inside("io")' => offs' = 0)
  BY <1>2, <1>4, OtherOutside, TheOther DEF IInv, Alone, Inside, Threads, Publish
<1>5. ASSUME ~overlap PROVE CountKept' /\ TopicKept'
  BY <1>2, <1>5, OtherOutside, TheOther DEF IInv, CountKept, TopicKept, AtRest, Inside,
     Threads, Publish, Alone
<1> QED BY <1>3, <1>4, <1>5 DEF IInv, Publish

(* The end of start and stop sets the count whatever it was.                *)
LEMMA SetKeeps == ASSUME IInv, NEW t \in Threads, Set(t), UNCHANGED <<loop, setpoint, req>>
                  PROVE  IInv'
<1>2. /\ line'[t] = "out" /\ line'[Other(t)] = line[Other(t)]
      /\ line' \in [Threads -> Lines] /\ call' \in [Threads -> Calls]
      /\ call'[t] = None /\ call'[Other(t)] = call[Other(t)]
  BY TheOther DEF Set, Leave, IInv, TypeOK, Threads, Lines, Calls
<1>3. TypeOK' /\ CallsFit' /\ OverlapIsWrong' /\ BelowLimit'
  BY <1>2, TheOther, BoilerAssumption DEF IInv, TypeOK, CallsFit, OverlapIsWrong,
     BelowLimit, Set, loop, Inside, Threads, Armed
<1>4. ASSUME ~overlap PROVE (\A u \in Threads : Alone(u)') /\ (Inside("io")' => offs' = 0)
  BY <1>2, <1>4, OtherOutside, TheOther DEF IInv, Alone, Inside, Threads, Set
<1>5. ASSUME ~overlap PROVE CountKept'
  <2>1. line'["ot"] = "out" /\ line'["io"] = "out" /\ out' = out /\ offs' = offs
    BY <1>2, <1>5, OtherOutside, TheOther DEF Set, Threads
  <2>2. out = Value(call[t]) /\ count' = Armed(call[t])
    BY <1>5 DEF IInv, Alone, Set
  <2>3. call[t] = "start" => offs = 0
    BY <1>5 DEF IInv, CallsFit, Inside, Set, Threads
  <2> QED BY <2>1, <2>2, <2>3 DEF CountKept, Value, Armed
<1>6. ASSUME ~overlap, "topic" \notin wrong PROVE TopicKept'
  BY <1>2, <1>6, OtherOutside, TheOther DEF IInv, TopicKept, Threads, Set
<1> QED BY <1>3, <1>4, <1>5, <1>6 DEF IInv, Set
-----------------------------------------------------------------------------
(* The loop and the other messages leave the pump alone.                    *)
LEMMA ElsewhereKeeps == IInv /\ UNCHANGED pump /\ TypeOK' => IInv'
BY DEF IInv, CallsFit, OverlapIsWrong, BelowLimit, Alone, CountKept, TopicKept, pump,
       AtRest, Inside

(* Whatever the setpoint, sixteen bits of it go out.                        *)
LEMMA F88IsWire == \A v \in Temps \cup {NaN, 0, 38} : \A w \in F88(v) : w \in Wires
<1>1. \A i \in Int : i % 256 \in 0..255
  OBVIOUS
<1>2. \A v \in Temps \cup {NaN, 0, 38} : v = NaN \/ v \in Int
  BY BoilerAssumption
<1> QED BY <1>1, <1>2, BoilerAssumption DEF F88, Wires

(* What the loop and the messages do to the rest is of its type.            *)
LEMMA LoopKeeps == IInv /\ Loop => IInv'
<1> SUFFICES ASSUME IInv, Loop PROVE IInv'
  OBVIOUS
<1>1. ASSUME NEW ok \in BOOLEAN, NEW f \in BOOLEAN, Status(ok, f) PROVE IInv'
  <2>1. CASE ok /\ flame /\ ~f
    <3>1. Enter("ot", "off") /\ at' = "flame" /\ flame' \in BOOLEAN
          /\ UNCHANGED <<setpoint, boiler, req, sent>>
      BY <1>1, <2>1 DEF Status
    <3>2. "ot" \in Threads /\ "off" \in Calls \ {None}
      BY BoilerAssumption DEF Threads, Calls
    <3> QED BY <3>1, <3>2, EnterKeeps
  <2>2. CASE ~(ok /\ flame /\ ~f)
    BY <1>1, <2>2, ElsewhereKeeps DEF Status, IInv, TypeOK, pump
  <2> QED BY <2>1, <2>2
<1>2. CASE FlameDone
  BY <1>2, ElsewhereKeeps DEF FlameDone, IInv, TypeOK, pump
<1>3. CASE Transfer
  BY <1>3, ElsewhereKeeps DEF Transfer, IInv, TypeOK, pump
<1>4. CASE Answer
  BY <1>4, ElsewhereKeeps DEF Answer, IInv, TypeOK, pump
<1>5. ASSUME NEW k \in Kinds, NEW took \in BOOLEAN, SetpointSent(k, took) PROVE IInv'
  <2>1. \A w \in F88(setpoint[k]) : w \in Wires
    BY F88IsWire DEF IInv, TypeOK
  <2>2. boiler' \in [Kinds -> Wires \cup {None}]
    BY <1>5, <2>1 DEF SetpointSent, IInv, TypeOK
  <2> QED BY <1>5, <2>2, ElsewhereKeeps DEF SetpointSent, IInv, TypeOK, pump
<1> QED BY <1>1, <1>2, <1>3, <1>4, <1>5 DEF Loop

(* The inductive invariant holds of every step of both threads.             *)
THEOREM Invariance == Spec => []IInv
<1>1. IInv /\ [Next]_vars => IInv'
  <2> SUFFICES ASSUME IInv, [Next]_vars PROVE IInv'
    OBVIOUS
  <2>1. CASE Loop
    BY <2>1, LoopKeeps
  <2>2. ASSUME NEW t \in Threads, PumpStep(t), UNCHANGED <<loop, setpoint, req>> PROVE IInv'
    BY <2>2, LookKeeps, LoadKeeps, StoreKeeps, TestKeeps, WriteKeeps, PublishKeeps, SetKeeps
       DEF PumpStep
  <2>3. ASSUME NEW c \in PumpMsgs, PumpMsg(c) PROVE IInv'
    <3>1. c \in Calls \ {None} /\ c # "off" /\ "io" \in Threads
      BY BoilerAssumption DEF Calls, Threads
    <3> QED BY <2>3, <3>1, EnterKeeps DEF PumpMsg, loop, IInv, TypeOK
  <2>4. ASSUME NEW q \in Requests, Request(q) PROVE IInv'
    BY <2>4, ElsewhereKeeps DEF Request, IInv, TypeOK, pump, loop
  <2>5. ASSUME NEW k \in Kinds, NEW v \in Temps \cup {NaN}, SetTemp(k, v) PROVE IInv'
    <3>1. setpoint' \in [Kinds -> Temps \cup {NaN, 0, 38}] /\ setpoint'["ch"] # NaN
      BY <2>5, BoilerAssumption DEF SetTemp, IInv, TypeOK, Kinds
    <3> QED BY <2>5, <3>1, ElsewhereKeeps DEF SetTemp, IInv, TypeOK, pump, loop
  <2>6. CASE UNCHANGED vars
    BY <2>6, ElsewhereKeeps DEF vars, IInv, TypeOK, pump, loop
  <2> QED BY <2>1, <2>2, <2>3, <2>4, <2>5, <2>6 DEF Next
<1> QED BY InitIInv, <1>1, PTL DEF Spec

(* Every variable keeps its type, in particular plamenOffCount its range,   *)
(* although the OpenTherm thread and the io thread both write it.           *)
THEOREM TypeCorrect == Spec => []TypeOK
<1>1. IInv => TypeOK
  BY DEF IInv
<1> QED BY Invariance, <1>1, PTL

(* Only a message in the middle of onPlamenOff makes Pumpa miscount or      *)
(* forget a running pump, and the next undisturbed start or stop mends it.  *)
THEOREM PumpStaysCounted == Spec => []PumpIsCounted
<1>1. IInv => PumpIsCounted
  BY DEF IInv, PumpIsCounted, OverlapIsWrong, CountKept
<1> QED BY Invariance, <1>1, PTL

(* rb/stat/pumpa is right once published, unless calls overlapped           *)
(* (setPumpa).                                                              *)
THEOREM TopicStaysTrue == Spec => []TopicIsTrue
<1>1. IInv => TopicIsTrue
  BY DEF IInv, TopicIsTrue, OverlapIsWrong, TopicKept, AtRest, Inside
<1> QED BY Invariance, <1>1, PTL

(* So relay, counter and topic agree unless calls overlapped.               *)
THEOREM PumpStaysConsistent == Spec => []PumpConsistent
BY PumpStaysCounted, TopicStaysTrue, PTL DEF PumpConsistent
=============================================================================
