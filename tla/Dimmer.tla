------------------------------- MODULE Dimmer -------------------------------
(***************************************************************************)
(* The dimmable lights (Dimmable), their switches (OnOffOutput), the one   *)
(* timer of all ramps (DimmEvent) and the event it notifies                *)
(* (EventSimpleSt).  The timer's handler does not look at its error code:  *)
(* a wait cut short by expires_after steps the ramps as well.              *)
(***************************************************************************)
EXTENDS Integers

CONSTANTS
  Lights,
  Targets,     \* what rb/ctrl sends
  FirstOn,     \* lastTargetOn in the beginning: 50
  Steps,       \* adjStep, by the ramp's seconds
  MaxQueued    \* commands come with fewer handlers to run; bound of the run

ASSUME DimmerAssumption ==
  /\ Targets \subseteq Nat /\ Steps \subseteq Nat \ {0} /\ Steps # {} /\ FirstOn \in Nat \ {0}
  /\ MaxQueued \in Nat \ {0}

VARIABLES
  cur, target, lastTargetOn, adjStep, \* of each light; cur was written to the PWM
  subscribed,   \* lights with a subscHandler, which are the event's observers
  pending,      \* the timer's wait
  completions,  \* waits over or cut short whose handler is to run
  lastOn        \* history: the last brightness asked of each

dimVars == <<cur, target, lastTargetOn, adjStep, subscribed, pending, completions, lastOn>>

Values == Targets \cup {0, FirstOn}
DimmerTypeOK ==
  /\ cur \in [Lights -> Nat] /\ target \in [Lights -> Values]
  /\ lastTargetOn \in [Lights -> Values \ {0}] /\ adjStep \in [Lights -> Steps]
  /\ subscribed \subseteq Lights /\ pending \in BOOLEAN /\ completions \in 0..MaxQueued
  /\ lastOn \in [Lights -> Values \ {0}]

DimmerInit ==
  /\ cur = [l \in Lights |-> 0] /\ target = [l \in Lights |-> 0]
  /\ lastTargetOn = [l \in Lights |-> FirstOn] /\ adjStep \in [Lights -> Steps]
  /\ subscribed = {} /\ pending = FALSE /\ completions = 0
  /\ lastOn = [l \in Lights |-> FirstOn]

-----------------------------------------------------------------------------
(* adjust: a step towards the target, ending on it; the step that gets      *)
(* there unsubscribes.  Already there it does nothing.                      *)
Adjusted(l, t) ==
  IF t > cur[l] THEN IF t <= cur[l] + adjStep[l] THEN t ELSE cur[l] + adjStep[l]
  ELSE IF t >= cur[l] - adjStep[l] THEN t ELSE cur[l] - adjStep[l]
Finishes(l, t) == Adjusted(l, t) = t /\ cur[l] # t

(* schedul: the pending wait is cut short.                                  *)
Schedule(done) ==
  /\ completions' = IF pending THEN done + 1 ELSE done
  /\ pending' = TRUE

(* setTarget adjusts at once; a ramp that this ends leaves its wait behind, *)
(* one that it begins subscribes, and the first subscription schedules.     *)
MutRemembered(l) == target[l]
MutForgets(l) == lastTargetOn[l]
Remembered(l) == IF target[l] > 0 THEN target[l] ELSE lastTargetOn[l]
MutSubscribes(l, t) == Adjusted(l, t) # t /\ l \notin subscribed /\ ~pending
Subscribes(l, t) == Adjusted(l, t) # t /\ l \notin subscribed
SetTarget(l, t) ==
  /\ completions < MaxQueued /\ t # target[l]
  /\ target' = [target EXCEPT ![l] = t]
  /\ lastTargetOn' = [lastTargetOn EXCEPT ![l] = Remembered(l)]
  /\ cur' = [cur EXCEPT ![l] = Adjusted(l, t)]
  /\ subscribed' = (subscribed \ {x \in {l} : Finishes(l, t)}) \cup {x \in {l} : Subscribes(l, t)}
  /\ IF Subscribes(l, t) /\ subscribed = {} THEN Schedule(completions)
                                            ELSE UNCHANGED <<pending, completions>>
  /\ lastOn' = IF t > 0 THEN [lastOn EXCEPT ![l] = t] ELSE lastOn
  /\ UNCHANGED adjStep

(* OnOffOutput, which is on while the target is.                            *)
Switch(l, on) == SetTarget(l, IF on THEN lastTargetOn[l] ELSE 0)

(* setFullRangeRampSeconds.                                                 *)
SetRamp(l, s) ==
  /\ adjStep' = [adjStep EXCEPT ![l] = s]
  /\ UNCHANGED <<cur, target, lastTargetOn, subscribed, pending, completions, lastOn>>

Fire ==
  /\ pending /\ completions = 0
  /\ pending' = FALSE /\ completions' = 1
  /\ UNCHANGED <<cur, target, lastTargetOn, adjStep, subscribed, lastOn>>

(* The handler: notify, with the unsubscriptions after it, and again while  *)
(* there are subscribers.                                                   *)
OnDimTimer ==
  /\ completions > 0
  /\ cur' = [l \in Lights |-> IF l \in subscribed THEN Adjusted(l, target[l]) ELSE cur[l]]
  /\ subscribed' = {l \in subscribed : ~Finishes(l, target[l])}
  /\ IF subscribed' # {} THEN Schedule(completions - 1)
                         ELSE completions' = completions - 1 /\ UNCHANGED pending
  /\ UNCHANGED <<target, lastTargetOn, adjStep, lastOn>>

DimCommand == \E l \in Lights : \/ \E t \in Targets : SetTarget(l, t)
                                \/ \E on \in BOOLEAN : Switch(l, on)
                                \/ \E s \in Steps : SetRamp(l, s)
DimmerStep == Fire \/ OnDimTimer
DimmerNext == DimCommand \/ DimmerStep
DimmerSpec == DimmerInit /\ [][DimmerNext]_dimVars
-----------------------------------------------------------------------------
(* A light short of its target is on its way: subscribed, and the timer     *)
(* runs or its handler is about to.                                         *)
RampGoesOn == \A l \in Lights : cur[l] # target[l] => l \in subscribed /\ (pending \/ completions > 0)

(* Switched on, a light gets the brightness it last had, through any ramps. *)
RestoresBrightness == \A l \in Lights : target[l] = 0 => lastTargetOn[l] = lastOn[l]

(* Where the lights come to once left alone, also when a command cut the    *)
(* timer short and each handler now starts the next.                        *)
Arrived == cur = target

(* No ramp is left without its timer, and no light forgets its brightness   *)
(* (setTarget, adjust, schedul).                                            *)
LightsRight == RampGoesOn /\ RestoresBrightness
=============================================================================
