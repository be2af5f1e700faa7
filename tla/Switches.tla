------------------------------ MODULE Switches ------------------------------
(***************************************************************************)
(* The wall switches (Vypinace): a single switch and a double one with     *)
(* long presses, told apart by a timer of 500 ms whose handler also runs   *)
(* when it is cancelled, and a double one without.  A CAN frame may bring  *)
(* changes of several buttons before any handler of the timer runs; a      *)
(* frame may still overtake the handler of a timer that has just expired.  *)
(* A single switch has the buttons LU and LD.                              *)
(***************************************************************************)
EXTENDS Integers, Sequences, FiniteSets

CONSTANTS
  AllButtons, \* of a double switch, as far as they are wired
  Press,      \* ticks in the 500 ms
  MaxPresses  \* of one episode, from rest to rest; bound of the run

ASSUME SwitchesAssumption ==
  /\ {"LU", "LD"} \subseteq AllButtons /\ AllButtons \subseteq {"LU", "LD", "RU", "RD"}
  /\ Press \in Nat \ {0} /\ MaxPresses \in Nat \ {0}

VARIABLES
  kind,               \* of switch
  held, heldFor,      \* the buttons; ticks since each was last pressed
  marked,             \* button[], or the two sides of combo
  wait, handlers,     \* ticks until the timer expires, 0: not started; completions to run
  frame,              \* changes of the frame being handled
  pressed, last, clicks, \* history, this episode: presses, the last one, the events raised
  crowded,            \* history: changes shared a frame, or one overtook the timer
  owed, newest,       \* history: pressed and not answered by a click; the last of each side
  stale               \* history: a double switch clicked a button that was not the newest

swVars == <<kind, held, heldFor, marked, wait, handlers, frame, pressed, last, clicks, crowded,
            owed, newest, stale>>

Left == {"LU", "LD"}
Buttons == IF kind = "single" THEN Left ELSE AllButtons
Side(b) == IF b \in Left THEN Left ELSE AllButtons \ Left

SwitchesTypeOK ==
  /\ kind \in {"single", "duo", "simple"} /\ held \subseteq Buttons /\ frame \subseteq Buttons
  /\ heldFor \in [AllButtons -> 0..Press] /\ marked \subseteq Buttons
  /\ wait \in 0..Press /\ handlers \in Seq({"ok", "aborted"}) /\ pressed \in 0..MaxPresses
  /\ last \in AllButtons /\ crowded \in BOOLEAN
  /\ clicks \in Seq([what : SUBSET Buttons, long : BOOLEAN, lasting : BOOLEAN])
  /\ owed \subseteq Buttons /\ newest \subseteq Buttons /\ stale \in BOOLEAN

SwitchesInit ==
  /\ kind \in {"single", "duo", "simple"} /\ held = {} /\ heldFor = [b \in AllButtons |-> 0]
  /\ marked = {} /\ wait = 0 /\ handlers = <<>> /\ frame = {}
  /\ pressed = 0 /\ last = "LU" /\ clicks = <<>> /\ crowded = FALSE
  /\ owed = {} /\ newest = {} /\ stale = FALSE

-----------------------------------------------------------------------------
(* expires_at and cancel complete a wait that is still pending as aborted.  *)
Aborted == IF wait > 0 THEN Append(handlers, "aborted") ELSE handlers
UnchangedTimer == UNCHANGED <<handlers, wait>>
MutStartTimer == wait' = (IF wait > 0 THEN wait ELSE Press) /\ UNCHANGED handlers
StartTimer == handlers' = Aborted /\ wait' = Press
MutCancel == UnchangedTimer
Cancel == handlers' = Aborted /\ wait' = 0

(* An event answers its buttons; of a double switch all that share a side   *)
(* with one of them.                                                        *)
Answers(what, b) == b \in what \/ (kind # "single" /\ Side(b) \cap what # {})
Raise(what, long) ==
  /\ clicks' = IF what = {} THEN clicks
               ELSE Append(clicks, [what |-> what, long |-> long,
                                    lasting |-> \E b \in (IF kind = "single" THEN {} ELSE held) \cup what :
                                                  heldFor[b] >= Press])
  /\ owed' = {b \in owed : ~Answers(what, b)}
  /\ stale' = (stale \/ (kind # "single" /\ ~(what \subseteq newest)))
  /\ UNCHANGED newest

(* button, and combo, where the side's later press takes the earlier's place. *)
MutMarked(b) == IF kind = "single" \/ marked \cap Side(b) = {} THEN marked \cup {b} ELSE marked
Marked(b) == IF kind = "single" THEN marked \cup {b} ELSE (marked \ Side(b)) \cup {b}

(* pressed(id, on).                                                         *)
MutStartsTimer == kind # "simple" /\ marked = {}
StartsTimer == kind = "single" \/ (kind = "duo" /\ marked = {})
Pressed(b) ==
  /\ IF StartsTimer THEN StartTimer ELSE UnchangedTimer
  /\ marked' = Marked(b)
  /\ held' = held \cup {b} /\ heldFor' = [heldFor EXCEPT ![b] = 0]
  /\ pressed' = pressed + 1 /\ last' = b
  /\ owed' = owed \cup {b} /\ newest' = (newest \ Side(b)) \cup {b} /\ UNCHANGED <<clicks, stale>>

Released(b) ==
  IF kind = "simple" THEN Raise(marked, FALSE) /\ marked' = {} /\ UnchangedTimer
                     ELSE Cancel /\ UNCHANGED <<marked, clicks, owed, newest, stale>>

Change(b) ==
  /\ b \in frame /\ frame' = frame \ {b}
  /\ IF b \in held THEN Released(b) /\ held' = held \ {b} /\ UNCHANGED <<heldFor, pressed, last>>
                   ELSE Pressed(b)
  /\ UNCHANGED <<kind, crowded>>

(* onTimer, after the wait's end or its cancellation; the single switch has *)
(* its first marked button clicked.                                         *)
Consumed ==
  IF kind = "single" /\ marked # {} THEN {CHOOSE b \in marked : "LU" \in marked => b = "LU"}
  ELSE marked
OnTimer ==
  /\ frame = {} /\ handlers # <<>> /\ handlers' = Tail(handlers)
  /\ Raise(Consumed, Head(handlers) = "ok")
  /\ marked' = marked \ Consumed
  /\ UNCHANGED <<kind, held, heldFor, wait, frame, pressed, last, crowded>>

SwTick ==
  /\ frame = {} /\ handlers = <<>>
  /\ wait' = IF wait > 0 THEN wait - 1 ELSE 0
  /\ handlers' = IF wait = 1 THEN <<"ok">> ELSE <<>>
  /\ heldFor' = [b \in AllButtons |-> IF b \in held /\ heldFor[b] < Press
                                        THEN heldFor[b] + 1 ELSE heldFor[b]]
  /\ UNCHANGED <<kind, held, marked, frame, pressed, last, clicks, crowded, owed, newest, stale>>

(* A frame of the node; one from rest begins an episode.                    *)
AtRest == held = {} /\ frame = {} /\ handlers = <<>>
NodeFrame(changes) ==
  /\ frame = {} /\ changes # {} /\ frame' = changes
  /\ handlers = <<>> \/ (handlers = <<"ok">> /\ ~crowded)
  /\ (IF AtRest THEN 0 ELSE pressed) + Cardinality(changes \ held) <= MaxPresses
  /\ pressed' = IF AtRest THEN 0 ELSE pressed
  /\ clicks' = IF AtRest THEN <<>> ELSE clicks
  /\ crowded' = ((~AtRest /\ crowded) \/ handlers # <<>> \/ Cardinality(changes) > 1)
  /\ newest' = (IF AtRest THEN {} ELSE newest) /\ stale' = (~AtRest /\ stale)
  /\ UNCHANGED <<kind, held, heldFor, marked, wait, handlers, last, owed>>

SwitchesNext ==
  \/ \E changes \in SUBSET Buttons : NodeFrame(changes)
  \/ \E b \in Buttons : Change(b)
  \/ OnTimer \/ SwTick
SwitchesSpec == SwitchesInit /\ [][SwitchesNext]_swVars
-----------------------------------------------------------------------------
(* When all buttons are let go, every press has been answered by a click of *)
(* its button, on a double switch at least of the last button pressed on    *)
(* its side until then, which takes the earlier's place; no click came      *)
(* without a press, and nothing is left to click later.                     *)
PressesClick ==
  AtRest => /\ owed = {} /\ ~stale /\ marked = {} /\ wait = 0
            /\ pressed > 0 => Len(clicks) \in 1..pressed
            /\ kind = "single" /\ ~crowded => Len(clicks) = pressed

(* A press on its own is one click of its button, long if it lasted.        *)
SoloPress ==
  AtRest /\ pressed = 1 =>
    /\ Len(clicks) = 1 /\ clicks[1].what = {last}
    /\ clicks[1].long = (kind # "simple" /\ heldFor[last] >= Press)

(* A long click is of a button held for the time; on the single switch of   *)
(* that very button, unless changes crowded.                                *)
LongIsHeld == ~crowded => \A i \in DOMAIN clicks : clicks[i].long => clicks[i].lasting

(* Presses are clicked, once and with their length, whatever handlers the   *)
(* timer still has to run (pressed, onTimer).                               *)
ClicksRight == PressesClick /\ SoloPress /\ LongIsHeld
=============================================================================
