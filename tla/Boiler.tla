------------------------------- MODULE Boiler -------------------------------
(***************************************************************************)
(* The OpenTherm thread (bytd/src/OpenTherm.cpp) polls the boiler and      *)
(* writes the setpoints to it; when it sees the flame go out it calls into *)
(* the hot-water circulation pump (bytd/src/Pumpa.cpp) the io thread       *)
(* starts and stops.  Nothing synchronises the two threads.                *)
(*                                                                         *)
(* A transmit ends in the boiler's answer to it or in no valid answer: the *)
(* PRU gives up on the boiler within 1.2 s, transmit waits 4 s.  The reads *)
(* of the two water temperatures (id 3 and 4) only feed sensors.           *)
(***************************************************************************)
EXTENDS Integers

CONSTANTS
  MaxOff,    \* maxPlamenOff
  Temps,     \* setpoints that are set, in degrees
  NaN,       \* what safeConvertF makes of a message it cannot read
  Junk,      \* what lround makes of NaN, in degrees on the wire
  Requests,  \* frames of otTransfer
  PumpMsgs,  \* "start", "stop": what rb/ctrl/pumpa may ask for
  None       \* no frame, nothing called

Threads == {"ot", "io"}
Kinds   == {"ch", "dhw"}
Wires   == 0..255                 \* whole degrees of an f8.8

ASSUME BoilerAssumption ==
  /\ MaxOff \in Nat
  /\ Temps \subseteq Int /\ Temps # {} /\ NaN \notin Int
  /\ Junk \subseteq Wires /\ Junk # {}
  /\ None \notin Requests /\ None \notin Int
  /\ None \notin {"start", "stop", "off"}
  /\ PumpMsgs \subseteq {"start", "stop"}

Calls == {None, "start", "stop", "off"}
Lines == {"out", "look", "load", "store", "test", "write", "publish", "set"}

VARIABLES
  at,         \* where the OpenTherm loop is
  flame,      \* the flame as last reported by the boiler (bit 3 of status)
  setpoint,   \* chSetpoint, dhwSetpoint
  boiler,     \* the setpoints the boiler has, None: not written yet
  req, sent,  \* asyncReq, and the frame of the transfer under way
  call, line, \* Pumpa: what each thread executes, and where
  n,          \* ++plamenOffCount in the OpenTherm thread's register
  count, out, \* plamenOffCount, the relay
  published,  \* rb/stat/pumpa at the broker
  \* history
  offs,       \* flame-offs seen since the last start or stop
  overlap,    \* both threads have been in Pumpa since it was last empty
  wrong       \* what an overlap may have left wrong

pump == <<call, line, n, count, out, published, offs, overlap, wrong>>
loop == <<at, flame, boiler, sent>>
vars == <<loop, setpoint, req, pump>>

(* The types; the counter stays within one of its limit (onPlamenOff).      *)
TypeOK ==
  /\ at \in {"status", "flame", "async", "answer", "ch", "dhw"}
  /\ flame \in BOOLEAN
  /\ setpoint \in [Kinds -> Temps \cup {NaN, 0, 38}] /\ setpoint["ch"] # NaN
  /\ boiler \in [Kinds -> Wires \cup {None}]
  /\ req \in Requests \cup {None} /\ sent \in Requests \cup {None}
  /\ call \in [Threads -> Calls] /\ line \in [Threads -> Lines]
  /\ n \in 0..(MaxOff + 1) /\ count \in -1..(MaxOff + 1)
  /\ out \in BOOLEAN /\ published \in BOOLEAN
  /\ offs \in 0..(MaxOff + 1)
  /\ overlap \in BOOLEAN /\ wrong \subseteq {"count", "topic"}

(* The topic is retained: after a restart it may still say the pump runs.   *)
Init ==
  /\ at = "status" /\ flame = FALSE
  /\ setpoint = [k \in Kinds |-> IF k = "ch" THEN 0 ELSE 38]
  /\ boiler = [k \in Kinds |-> None]
  /\ req = None /\ sent = None
  /\ call = [t \in Threads |-> None] /\ line = [t \in Threads |-> "out"]
  /\ n = 0 /\ count = -1 /\ out = FALSE
  /\ published \in BOOLEAN
  /\ offs = 0 /\ overlap = FALSE /\ wrong = {"topic"}

-----------------------------------------------------------------------------
(* Pumpa, one access to the shared state at a time.                         *)
Other(t) == CHOOSE u \in Threads : u # t
Inside(t) == line[t] # "out"
Value(c) == c = "start"

Enter(t, c) ==
  /\ ~Inside(t)
  /\ call' = [call EXCEPT ![t] = c]
  /\ line' = [line EXCEPT ![t] = IF c = "off" THEN "look" ELSE "test"]
  /\ overlap' = Inside(Other(t))
  /\ wrong' = IF Inside(Other(t)) THEN {"count", "topic"} ELSE wrong
  /\ offs' = IF c # "off" THEN 0 ELSE IF offs > MaxOff THEN offs ELSE offs + 1
  /\ UNCHANGED <<n, count, out, published>>

Goto(t, l) == line' = [line EXCEPT ![t] = l] /\ UNCHANGED call
Leave(t) == /\ line' = [line EXCEPT ![t] = "out"]
            /\ call' = [call EXCEPT ![t] = None]

MutLook(t) ==  \* a pump just started is not counted
  /\ line[t] = "look"
  /\ IF count > 0 THEN Goto(t, "load") ELSE Leave(t)
  /\ UNCHANGED <<n, count, out, published, offs, overlap, wrong>>

(* onPlamenOff                                                              *)
Look(t) ==
  /\ line[t] = "look"
  /\ IF count >= 0 THEN Goto(t, "load") ELSE Leave(t)
  /\ UNCHANGED <<n, count, out, published, offs, overlap, wrong>>

MutLoad(t) ==  \* incremented after it was read
  /\ line[t] = "load"
  /\ n' = count
  /\ Goto(t, "store")
  /\ UNCHANGED <<count, out, published, offs, overlap, wrong>>

Load(t) ==
  /\ line[t] = "load"
  /\ n' = count + 1
  /\ Goto(t, "store")
  /\ UNCHANGED <<count, out, published, offs, overlap, wrong>>

MutFull(m) == m > MaxOff + 1  \* one flame-off more
Full(m) == m > MaxOff

Store(t) ==
  /\ line[t] = "store"
  /\ count' = n
  /\ IF Full(n) THEN Goto(t, "test") ELSE Leave(t)
  /\ UNCHANGED <<n, out, published, offs, overlap, wrong>>

(* setPumpa                                                                 *)
Test(t) ==
  /\ line[t] = "test"
  /\ Goto(t, IF out = Value(call[t]) THEN "set" ELSE "write")
  /\ UNCHANGED <<n, count, out, published, offs, overlap, wrong>>

MutWrite(t) ==  \* an automatic stop is not published
  /\ line[t] = "write"
  /\ out' = Value(call[t])
  /\ Goto(t, IF call[t] = "off" THEN "set" ELSE "publish")
  /\ UNCHANGED <<n, count, published, offs, overlap, wrong>>

Write(t) ==
  /\ line[t] = "write"
  /\ out' = Value(call[t])
  /\ Goto(t, "publish")
  /\ UNCHANGED <<n, count, published, offs, overlap, wrong>>

Publish(t) ==
  /\ line[t] = "publish"
  /\ published' = Value(call[t])
  /\ Goto(t, "set")
  /\ wrong' = IF overlap THEN wrong ELSE wrong \ {"topic"}
  /\ UNCHANGED <<n, count, out, offs, overlap>>

Armed(c) == IF c = "start" THEN 0 ELSE -1
Set(t) ==
  /\ line[t] = "set"
  /\ count' = Armed(call[t])
  /\ Leave(t)
  /\ wrong' = IF overlap THEN wrong ELSE wrong \ {"count"}
  /\ UNCHANGED <<n, out, published, offs, overlap>>

PumpStep(t) == Look(t) \/ Load(t) \/ Store(t) \/ Test(t) \/ Write(t) \/ Publish(t) \/ Set(t)

-----------------------------------------------------------------------------
(* The OpenTherm loop.  id 0: publish_status calls Flame(false) when the    *)
(* flame went out, before status is assigned.                               *)
Status(ok, f) ==
  /\ at = "status"
  /\ flame' = IF ok THEN f ELSE flame
  /\ IF ok /\ flame /\ ~f THEN at' = "flame" /\ Enter("ot", "off")
                          ELSE at' = "async" /\ UNCHANGED pump
  /\ UNCHANGED <<boiler, sent, setpoint, req>>

FlameDone ==
  /\ at = "flame" /\ ~Inside("ot")
  /\ at' = "async"
  /\ UNCHANGED <<flame, boiler, sent, setpoint, req, pump>>

MutTransfer ==  \* cleared before it is transmitted
  /\ at = "async"
  /\ at' = "ch" /\ req' = None
  /\ UNCHANGED <<flame, boiler, sent, setpoint, pump>>

(* The asynchronous request: transmitted, then cleared when the answer is   *)
(* there or given up.                                                       *)
Transfer ==
  /\ at = "async"
  /\ IF req = None THEN at' = "ch" /\ UNCHANGED sent
                   ELSE at' = "answer" /\ sent' = req
  /\ UNCHANGED <<flame, boiler, setpoint, req, pump>>

Answer ==
  /\ at = "answer"
  /\ at' = "ch" /\ sent' = None /\ req' = None
  /\ UNCHANGED <<flame, boiler, setpoint, pump>>

(* float2f88: sixteen bits.                                                 *)
F88(v) == IF v = NaN THEN Junk ELSE {v % 256}

MutSetpointSent(k, took) ==  \* written only once
  /\ at = k
  /\ at' = IF k = "ch" THEN "dhw" ELSE "status"
  /\ IF took /\ boiler[k] = None
       THEN \E w \in F88(setpoint[k]) : boiler' = [boiler EXCEPT ![k] = w]
       ELSE UNCHANGED boiler
  /\ UNCHANGED <<flame, sent, setpoint, req, pump>>

(* id 1 and 2: whether the answer gets back or not, the boiler may have     *)
(* taken the write.                                                         *)
SetpointSent(k, took) ==
  /\ at = k
  /\ at' = IF k = "ch" THEN "dhw" ELSE "status"
  /\ IF took THEN \E w \in F88(setpoint[k]) : boiler' = [boiler EXCEPT ![k] = w]
             ELSE UNCHANGED boiler
  /\ UNCHANGED <<flame, sent, setpoint, req, pump>>

Loop == \/ \E ok, f \in BOOLEAN : Status(ok, f)
        \/ FlameDone \/ Transfer \/ Answer
        \/ \E k \in Kinds, took \in BOOLEAN : SetpointSent(k, took)

-----------------------------------------------------------------------------
(* The io thread: one message at a time.                                    *)
Idle == ~Inside("io")

PumpMsg(c) == /\ Idle
              /\ Enter("io", c)
              /\ UNCHANGED <<loop, setpoint, req>>

Request(q) == /\ Idle
              /\ req' = q
              /\ UNCHANGED <<loop, setpoint, pump>>

SetTemp(k, v) == /\ Idle /\ (v = NaN => k = "dhw")
                 /\ setpoint' = [setpoint EXCEPT ![k] = v]
                 /\ UNCHANGED <<loop, req, pump>>

Next ==
  \/ Loop
  \/ \E t \in Threads : PumpStep(t) /\ UNCHANGED <<loop, setpoint, req>>
  \/ \E c \in PumpMsgs : PumpMsg(c)
  \/ \E q \in Requests : Request(q)
  \/ \E k \in Kinds, v \in Temps \cup {NaN} : SetTemp(k, v)

Spec == Init /\ [][Next]_vars

(* Both threads run; nothing is assumed of the messages or the boiler.      *)
Fairness ==
  /\ WF_vars(Loop)
  /\ \A t \in Threads : WF_vars(PumpStep(t) /\ UNCHANGED <<loop, setpoint, req>>)
FairSpec == Spec /\ Fairness
-----------------------------------------------------------------------------
AtRest == \A t \in Threads : ~Inside(t)

(* The pump runs exactly when flame-offs are counted towards its stop, and  *)
(* every one since it was started has been counted - unless a message came  *)
(* in the middle of onPlamenOff, and then until the next undisturbed start  *)
(* or stop.                                                                 *)
PumpIsCounted ==
  AtRest /\ "count" \notin wrong =>
    count = IF out THEN offs ELSE -1

(* The retained topic says what the relay does, once it has been published  *)
(* since the start and no message disturbed an automatic stop.              *)
TopicIsTrue == AtRest /\ "topic" \notin wrong => published = out

(* A pump nobody touches any more stops when the flame keeps going out.     *)
PumpStops ==
  <>[]~Inside("io") /\ []<>(line["ot"] = "look") =>
    <>[](~out \/ "count" \in wrong)

(* A frame otTransfer asks for is transmitted, or a later request takes its *)
(* place, unless it comes while another one is under way.                   *)
Served(q) == sent = q \/ req \in Requests \ {q}
RequestServed == \A q \in Requests : (req = q /\ at # "answer") ~> Served(q)

(* A setpoint that stays, in the range of an f8.8, reaches the boiler and   *)
(* stays there, however often the transfer fails, if only the boiler keeps  *)
(* hearing it again and again.                                              *)
BoilerObeys ==
  \A k \in Kinds : \A v \in Wires \cap (Temps \cup {0, 38}) :
    <>[](setpoint[k] = v) /\ []<><<SetpointSent(k, TRUE)>>_vars =>
      <>[](boiler[k] = v)

(* onPlamenOff logs "pumpa automatic Off": afterwards the pump does not run *)
(* without being counted.  Violated when a start overtakes the stop between *)
(* its setPumpa and its last assignment.                                    *)
AutomaticOff == AtRest /\ out => count >= 0

(* doRequest answers "ok_async": every accepted frame is transmitted, or    *)
(* replaced by a later one.  Violated when it comes while another is under  *)
(* way, whose end clears it.                                                *)
RequestNotLost == \A q \in Requests : req = q ~> Served(q)

(* Relay, counter and topic of the pump agree, whatever the two threads do  *)
(* in Pumpa one after the other.                                            *)
PumpConsistent == PumpIsCounted /\ TopicIsTrue

(* What is asked of the boiler, once or lastingly, reaches it (the polling  *)
(* loop, asyncTransferRequest).                                             *)
BoilerServed == RequestServed /\ BoilerObeys
=============================================================================
