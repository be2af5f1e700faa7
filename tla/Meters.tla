------------------------------- MODULE Meters -------------------------------
(***************************************************************************)
(* The meters' totals (ImpulzyBase), in impulses: counted on a thread of   *)
(* the meter's own, set anew on the io thread, stored in a file that is    *)
(* rewritten in place; the daemon may stop at any point.  And the water    *)
(* meter's filter (Vodomer::event), whose contact bounces.                 *)
(* The gas meter counts on the io thread and is never stored at the end:   *)
(* here it is a meter whose threads never overlap and that only crashes.   *)
(***************************************************************************)
EXTENDS Integers

CONSTANTS
  MinDelta,    \* minDeltoToSTore
  Grain,       \* what six digits of the file resolve
  NewTotals,   \* arguments of setNewValue
  MaxTotal,    \* bound of the run
  MaxStops,    \* bound of the run: stops between two new totals
  Quiet        \* ticks in the 400 ms of the water meter's filter

ASSUME MetersAssumption ==
  /\ MinDelta \in Nat /\ Grain \in Nat \ {0} /\ NewTotals \subseteq Nat
  /\ MaxTotal \in Nat /\ MaxStops \in Nat /\ Quiet \in Nat \ {0}

None == -1
VARIABLES
  impCount, orig, lastStored, \* None: NaN
  file,                       \* None: empty
  mtPc, mtVal,                \* the meter's thread, its v
  ioPc, ioVal,                \* the io thread, in setNewValue or the last store
  \* history
  due,                        \* the true total: the last new one and every impulse since
  stops,                      \* how often the daemon has stopped since that new one
  unsaved,                    \* no store has ended since it, or there never was a file
  spoilt,                     \* it met an impulse, or a stop met an exposed file
  overlapped                  \* both threads were at work; mending: not in this event

meterVars == <<impCount, orig, lastStored, file, mtPc, mtVal, ioPc, ioVal,
               due, stops, unsaved, spoilt, overlapped>>

StorePcs == {"idle", "store", "trunc", "write"}
MetersTypeOK ==
  /\ {impCount, orig, mtVal, ioVal, due, stops} \subseteq Nat
  /\ {lastStored, file} \subseteq Nat \cup {None}
  /\ mtPc \in StorePcs \cup {"inc", "read", "calc"}
  /\ ioPc \in StorePcs \cup {"orig", "read", "calc"}
  /\ unsaved \in BOOLEAN /\ spoilt \in BOOLEAN
  /\ overlapped \in {"no", "yes", "mending"}

MetersInit ==
  /\ impCount = 0 /\ orig = 0 /\ file \in {0, None} /\ lastStored = file
  /\ mtPc = "idle" /\ mtVal = 0 /\ ioPc = "idle" /\ ioVal = 0
  /\ due = 0 /\ stops = 0 /\ unsaved = (file = None) /\ spoilt = FALSE
  /\ overlapped = "no"

-----------------------------------------------------------------------------
Rounded(v) == ((v + Grain \div 2) \div Grain) * Grain

(* store(v), by either thread at pc, and where it goes on; the file gets    *)
(* what lastStored is by then.                                              *)
StoreNext(pc, val) ==
  CASE pc = "store" /\ val # lastStored -> "trunc"
    [] pc = "trunc" -> "write"
    [] OTHER -> "idle"
Store(pc, val) ==
  /\ pc \in {"store", "trunc", "write"}
  /\ lastStored' = IF pc = "store" THEN val ELSE lastStored
  /\ file' = CASE pc = "store" -> file [] pc = "trunc" -> None [] OTHER -> Rounded(lastStored)

Ends(pc, next) == pc \in {"store", "write"} /\ next = "idle"

(* The histories: what two threads did at once is mended by an event that   *)
(* has the meter for itself, as its checkStore looks at everything again.   *)
Watching ==
  /\ unsaved' = (unsaved /\ ~Ends(mtPc, mtPc') /\ ~Ends(ioPc, ioPc'))
  /\ overlapped' = IF mtPc' # "idle" /\ ioPc' # "idle" THEN "yes"
                   ELSE IF overlapped = "yes" /\ mtPc = "idle" /\ mtPc' # "idle" THEN "mending"
                   ELSE IF overlapped = "mending" /\ mtPc' = "idle" THEN "no"
                   ELSE overlapped
  /\ UNCHANGED <<stops, spoilt>>

(* event(rising) and checkStore; hour: the last store is an hour old.       *)
MutFar(v) == lastStored - v > MinDelta
Far(v) == lastStored # None /\ (v - lastStored > MinDelta \/ lastStored - v > MinDelta)

CheckStore(hour) ==
  LET v == mtVal + impCount
  IN /\ mtPc = "calc" /\ mtVal' = v
     /\ mtPc' = IF hour \/ Far(v) THEN "store" ELSE "idle"
     /\ UNCHANGED <<impCount, lastStored, file>>
Meter ==
  /\ \/ /\ mtPc = "idle" /\ due < MaxTotal /\ orig + impCount < MaxTotal
        /\ mtPc' = "inc" /\ mtVal' = impCount /\ due' = due + 1
        /\ UNCHANGED <<impCount, lastStored, file>>
     \/ /\ mtPc = "inc" /\ impCount' = mtVal + 1 /\ mtPc' = "read" /\ mtVal' = 0
        /\ UNCHANGED <<lastStored, file, due>>
     \/ /\ mtPc = "read" /\ mtVal' = orig /\ mtPc' = "calc"
        /\ UNCHANGED <<impCount, lastStored, file, due>>
     \/ \E hour \in BOOLEAN : CheckStore(hour) /\ UNCHANGED due
     \/ /\ Store(mtPc, mtVal) /\ mtPc' = StoreNext(mtPc, mtVal)
        /\ UNCHANGED <<impCount, mtVal, due>>
  /\ UNCHANGED <<orig, ioPc, ioVal>> /\ Watching

(* The io thread: setNewValue, and store() after the signal to stop.        *)
MutReset == UNCHANGED impCount
Reset == impCount' = 0
SetNewValue(v) ==
  /\ ioPc = "idle" /\ ioPc' = "orig" /\ ioVal' = v /\ Reset
  /\ due' = v /\ stops' = 0 /\ unsaved' = TRUE /\ spoilt' = (mtPc = "inc")
  /\ overlapped' = IF mtPc = "idle" THEN "no" ELSE "yes"
  /\ UNCHANGED <<orig, lastStored, file, mtPc, mtVal>>
Io ==
  /\ \/ ioPc = "orig" /\ orig' = ioVal /\ ioPc' = "store" /\ UNCHANGED <<lastStored, file, ioVal>>
     \/ ioPc = "idle" /\ ioPc' = "read" /\ UNCHANGED <<orig, lastStored, file, ioVal>>
     \/ /\ ioPc = "read" /\ ioPc' = "calc" /\ ioVal' = orig
        /\ UNCHANGED <<orig, lastStored, file>>
     \/ /\ ioPc = "calc" /\ ioPc' = "store" /\ ioVal' = ioVal + impCount
        /\ UNCHANGED <<orig, lastStored, file>>
     \/ /\ Store(ioPc, ioVal) /\ ioPc' = StoreNext(ioPc, ioVal)
        /\ UNCHANGED <<orig, ioVal>>
  /\ UNCHANGED <<impCount, mtPc, mtVal, due>> /\ Watching

(* A crash, or the end, and the constructor; an empty file leaves NaN, and  *)
(* the total starts at 0.  Exposed: the file is empty between truncation    *)
(* and writing, or does not have the last new total, or two threads have    *)
(* written what they knew of it.                                            *)
Exposed == unsaved \/ overlapped # "no" \/ "write" \in {mtPc, ioPc}
Restart ==
  /\ stops < MaxStops /\ stops' = stops + 1
  /\ lastStored' = file /\ orig' = IF file = None THEN 0 ELSE file
  /\ impCount' = 0 /\ mtPc' = "idle" /\ mtVal' = 0 /\ ioPc' = "idle" /\ ioVal' = 0
  /\ spoilt' = (spoilt \/ Exposed) /\ unsaved' = FALSE /\ overlapped' = "no"
  /\ UNCHANGED <<file, due>>

MetersNext == Meter \/ Io \/ Restart \/ \E v \in NewTotals : SetNewValue(v)
MetersSpec == MetersInit /\ [][MetersNext]_meterVars
-----------------------------------------------------------------------------
(* The water meter's contact, in ticks of which Quiet make 400 ms.          *)
VARIABLES
  line, quietFor,            \* the contact; ticks since its last edge
  lastEvent, lastValidEvent,
  counted,                   \* ImpulzyBase::event(rising) was called by the last tick
  settled                    \* history: the contact when it was last quiet

waterVars == <<line, quietFor, lastEvent, lastValidEvent, counted, settled>>
WaterTypeOK ==
  /\ {line, lastEvent, lastValidEvent, settled} \subseteq {"rising", "falling"}
  /\ quietFor \in 0..Quiet /\ counted \in BOOLEAN
WaterInit ==
  /\ line = "rising" /\ quietFor = 0 /\ lastEvent = "rising" /\ lastValidEvent = "rising"
  /\ counted = FALSE /\ settled = "rising"

Edge ==
  /\ line' = IF line = "rising" THEN "falling" ELSE "rising"
  /\ lastEvent' = line' /\ quietFor' = 0 /\ counted' = FALSE
  /\ UNCHANGED <<lastValidEvent, settled>>
MutQuietEnough(t) == t >= 1
QuietEnough(t) == t >= Quiet
WaterTick ==
  /\ IF QuietEnough(quietFor + 1)
       THEN /\ quietFor' = 0 /\ lastValidEvent' = lastEvent
            /\ counted' = (lastEvent # lastValidEvent /\ lastEvent = "rising")
       ELSE quietFor' = quietFor + 1 /\ counted' = FALSE /\ UNCHANGED lastValidEvent
  /\ settled' = IF quietFor + 1 = Quiet THEN line ELSE settled
  /\ UNCHANGED <<line, lastEvent>>
WaterNext == Edge \/ WaterTick
WaterSpec == WaterInit /\ [][WaterNext]_waterVars
-----------------------------------------------------------------------------
(* The total in memory is the true one, whatever the threads do at once,    *)
(* less what the stops have cost: each at most the least difference to      *)
(* store, the impulse under way and the digits of the file.  Out of this    *)
(* are only a new total that comes within the very increment of impCount,   *)
(* and a stop that finds the file exposed, until the next new total.        *)
Near(a, b, d) == a - b <= d /\ b - a <= d
Lacking == MinDelta + Grain \div 2
Total == orig + impCount
TotalCounted ==
  mtPc = "idle" /\ ioPc = "idle" /\ ~spoilt => Near(Total, due, stops * (Lacking + 1))

(* So that a stop does not cost more, the file outside of a store is never  *)
(* empty, but for the first start and a stop while it was exposed, and is   *)
(* close to the total once an event has had the meter for itself.           *)
FileNear ==
  mtPc = "idle" /\ ioPc = "idle" =>
    /\ file = None => unsaved \/ spoilt
    /\ file # None /\ overlapped = "no" => Near(file, Total, Lacking)

(* An impulse of water is counted exactly when the contact has been quiet,  *)
(* closed, after it was last quiet open: bounces count nothing.             *)
WaterCounted == [][counted' = (settled = "falling" /\ settled' = "rising")]_waterVars

(* Memory has every impulse and new total, and the file is not far behind,  *)
(* over stops and with both threads at work (event, setNewValue,            *)
(* checkStore, store, the constructor).                                     *)
MeterKept == TotalCounted /\ FileNear
=============================================================================
