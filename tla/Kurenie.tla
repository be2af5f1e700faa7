------------------------------ MODULE Kurenie ------------------------------
(***************************************************************************)
(* The heating regulation (bytd/src/Kurenie.cpp) and the thermoelectric    *)
(* valves it drives (TEV in bytd/src/kurenieHW.cpp).  Everything here runs *)
(* on the io thread: the 20 s cycle and the MQTT messages in between.      *)
(*                                                                         *)
(* Temperatures enter as regulation classes; valve positions and water     *)
(* setpoints keep the values the code compares with.  Time is counted in   *)
(* cycles.                                                                 *)
(***************************************************************************)
EXTENDS Integers, FiniteSets

CONSTANTS
  NRooms,     \* rooms are 0 .. NRooms-1, the last one is the heated floor
  First,      \* mainRoom at the start
  Unset,      \* NaN
  Trip,       \* timeToFullTrip, in cycles
  MaxErr,     \* cycles in error before it is cleared
  Garbage,    \* what pwm_TEV_val may hold before it is first written
  Drifts,     \* where a pwm may drift within the band
  Overridden, \* rooms that get valve overrides
  Ceilings    \* values of the water override

Rooms == 0..(NRooms - 1)
Floor == NRooms - 1
Reg   == {"under", "in", "over"}

Positions == {0, 50, 100, Unset}    \* pwm of a valve; 50: in between
Low == 38
FloorHigh == 50
High == 80

ASSUME KurenieAssumption ==
  /\ NRooms \in Nat /\ NRooms > 1
  /\ First \in Rooms
  /\ Trip \in Nat /\ MaxErr \in Nat
  /\ Unset \notin Int
  /\ Garbage \subseteq Positions
  /\ Drifts \subseteq {0, 50, 100}
  /\ Overridden \subseteq Rooms
  /\ Ceilings \subseteq Nat

Waters    == {0, Low, FloorHigh, High}

VARIABLES
  sp,                  \* roomSP[r] > 0
  reg,                 \* regulation class of each room, at the last cycle
  main, tCH, lim,      \* mainRoom, t_CH, t_CH_lim_high
  pwm, ovPwm, ovTch,   \* pwm_TEV_val and the overrides
  error, errCount,
  valve, age,          \* TEV::value, cycles since TEV::last
  tch,                 \* OpenTherm::chSetpoint
  started,             \* curTP has left time_point::min()
  \* history
  broken,              \* the last cycle met a bad sensor
  touched,             \* an override came after the last cycle
  early,               \* rooms last commanded before the first cycle
  shut,                \* cycles the floor actuator has really been without power
  flow,                \* cycles each valve has really been told to be open
  rested,              \* the last cycle left the main room, the floor, at rest
  rest                 \* cycles since the main room kept was held up

ages == <<shut, flow, rested, rest>>
history == <<broken, touched, early, ages>>
outputs == <<valve, age, tch>>
control == <<reg, main, tCH, lim, pwm, error, errCount, started>>
vars == <<sp, control, ovPwm, ovTch, outputs, history>>

(* The types; the water stays at its levels, the error counter in range.    *)
TypeOK ==
  /\ sp \in [Rooms -> BOOLEAN] /\ reg \in [Rooms -> Reg]
  /\ main \in Rooms
  /\ tCH \in Waters /\ lim \in {FloorHigh, High} /\ (tCH # 0 => tCH >= Low)
  /\ pwm \in [Rooms -> Positions] /\ ovPwm \in [Rooms -> Positions]
  /\ ovTch \in Ceilings \cup {Unset} /\ tch \in Waters \cup Ceilings
  /\ error \in BOOLEAN /\ errCount \in 0..(MaxErr + 1)
  /\ valve \in [Rooms -> Positions] /\ age \in [Rooms -> 0..(Trip + 1)]
  /\ started \in BOOLEAN /\ broken \in BOOLEAN /\ touched \in BOOLEAN
  /\ early \subseteq Rooms /\ shut \in 0..(Trip + 1)
  /\ flow \in [Rooms -> 0..(Trip + 1)]
  /\ rested \in BOOLEAN /\ rest \in 0..(Trip + 1)

(* pwm_TEV_val is never initialised: any value.                             *)
Init ==
  /\ sp = [r \in Rooms |-> FALSE] /\ reg = [r \in Rooms |-> "over"]
  /\ main = First /\ tCH = 0 /\ lim = High
  /\ pwm \in [Rooms -> Garbage]
  /\ ovPwm = [r \in Rooms |-> Unset] /\ ovTch = Unset
  /\ error = FALSE /\ errCount = 0
  /\ valve = [r \in Rooms |-> Unset] /\ age = [r \in Rooms |-> 0]
  /\ tch = 0 /\ started = FALSE
  /\ broken = FALSE /\ touched = FALSE /\ early = {}
  /\ shut \in 0..(Trip + 1)
  /\ flow = [r \in Rooms |-> 0] /\ rested = FALSE /\ rest = 0

-----------------------------------------------------------------------------
(* TEV: a command that changes the value restarts the trip time; NaN        *)
(* differs from itself.                                                     *)
Older(n) == IF n > Trip THEN n ELSE n + 1
Changes(r, v) == v # valve[r] \/ v = Unset
Full(r, now)     == now[r] > Trip

MutOpened(r, now) == valve[r] = 100    \* the trip time is not waited for
Opened(r, now)   == valve[r] = 100 /\ Full(r, now)

MutClosed(r, now) == valve[r] = 0    \* the trip time is not waited for
Closed(r, now)   == valve[r] = 0 /\ Full(r, now)

MutDefault(r) == 0    \* every valve taken for a normally closed one
Default(r) == IF r = Floor THEN 0 ELSE 100    \* normally open, except the floor
Wanted(p, o) == [r \in Rooms |-> IF o[r] = Unset THEN p[r] ELSE o[r]]

MutWater(t, o, e) == IF o # Unset THEN o ELSE IF e THEN 0 ELSE t
(* set_t_CH                                                                 *)
Water(t, o, e)   == IF e THEN 0 ELSE IF o = Unset THEN t ELSE o

-----------------------------------------------------------------------------
(* The messages of the io thread between two cycles.                        *)
SetSP(r, on) ==
  /\ sp' = [sp EXCEPT ![r] = on]
  /\ UNCHANGED <<control, ovPwm, ovTch, outputs, history>>

(* override_pwm_TEV: the valve is set at once, with the time of the last    *)
(* cycle, whatever the state of the regulation.                             *)
OverrideValve(r, v) ==
  LET p == IF v = Unset THEN pwm[r] ELSE v IN
  /\ ovPwm' = [ovPwm EXCEPT ![r] = v]
  /\ valve' = [valve EXCEPT ![r] = p]
  /\ age' = IF Changes(r, p) THEN [age EXCEPT ![r] = IF started THEN 0 ELSE Trip + 1]
                             ELSE age
  /\ touched' = TRUE
  /\ early' = IF ~Changes(r, p) THEN early
              ELSE IF started THEN early \ {r} ELSE early \cup {r}
  /\ shut' = IF valve'[Floor] = 0 THEN shut ELSE 0
  /\ flow' = IF p = 100 /\ valve[r] = 100 THEN flow ELSE [flow EXCEPT ![r] = 0]
  /\ UNCHANGED <<sp, control, ovTch, tch, broken, rested, rest>>

OverrideWater(v) ==
  /\ ovTch' = v
  /\ tch' = Water(tCH, v, error)
  /\ touched' = TRUE
  /\ UNCHANGED <<sp, control, ovPwm, valve, age, broken, early, ages>>

-----------------------------------------------------------------------------
(* calc: which room sets the water temperature.  The loop keeps the last    *)
(* room that qualifies.                                                     *)
Last(S) == CHOOSE r \in S : \A q \in S : q <= r

Possible(now) == {r \in Rooms \ {main} : sp[r] /\ Opened(r, now)}
Requesting(now, class) == {r \in Possible(now) : class[r] = "under"}

NextMain(now, class) ==
  IF class[main] = "under" THEN main
  ELSE IF Requesting(now, class) # {} THEN Last(Requesting(now, class))
  ELSE IF class[main] = "in" \/ Possible(now) = {} THEN main
  ELSE Last(Possible(now))

Idle(now, class) ==
  /\ class[main] = "over" /\ Possible(now) = {}

MutControlled(class, m, d) ==    \* mainControl leaves the valve alone
  [r \in Rooms |-> CASE class[r] = "under" -> 100
                     [] class[r] = "over"  -> 0
                     [] OTHER -> IF r \in DOMAIN d THEN d[r] ELSE pwm[r]]

(* valveControl: within the band the pwm drifts (d), NaN stays NaN.         *)
Drifting(class, m) == {r \in Rooms \ {m} : class[r] = "in" /\ pwm[r] # Unset}
Controlled(class, m, d) ==
  [r \in Rooms |-> CASE r = m \/ class[r] = "under" -> 100
                     [] r # m /\ class[r] = "over"  -> 0
                     [] OTHER -> IF r \in DOMAIN d THEN d[r] ELSE Unset]

(* mainControl: within the band the water drifts between the limits.        *)
Heated(c) == CASE c = "under" -> {lim}
               [] c = "over"  -> {Low}
               [] c = "in"    -> {w \in Waters : Low <= w /\ w <= lim}

MutClear(e, n) ==    \* the counter is not reset
  [error |-> e /\ n <= MaxErr, count |-> IF e THEN n + 1 ELSE 0]
MutStuck(e, n) ==    \* nothing clears the error
  [error |-> e, count |-> IF e /\ n <= MaxErr THEN n + 1 ELSE 0]
(* the tail of process: error_autoclear_count.                              *)
Clear(e, n) == IF e /\ n <= MaxErr THEN [error |-> TRUE, count |-> n + 1]
                                   ELSE [error |-> FALSE, count |-> 0]

MutDefaults(now, class, e) == Idle(now, class)    \* error not looked at
Defaults(now, class, e) == e \/ Idle(now, class)

(* The room that is kept may heat through a valve that is still opening:    *)
(* at the start, after an override that may be its own, and the floor after *)
(* a rest (normally closed, it rests shut).                                 *)
Delayed == ~started \/ (touched /\ main \in Overridden) \/ rested

(* Kurenie::process.  class: the rooms as update_t_bufs leaves them (after  *)
(* a NaN the later rooms keep their old reading, which may be anything);    *)
(* bad: a sensor read NaN, or the floor inlet is too hot or NaN.            *)
Process(class, bad) ==
  LET now  == [r \in Rooms |-> Older(age[r])]
      m    == NextMain(now, class)
      cold == ~Closed(Floor, now)          \* check
      e    == error \/ bad
      idle == Idle(now, class)
  IN \E t \in IF idle THEN {0} ELSE Heated(class[m]),
        d \in [IF idle THEN {} ELSE Drifting(class, m) -> Drifts] :
       /\ main' = m /\ reg' = class
       /\ pwm' = IF idle THEN pwm ELSE Controlled(class, m, d)
       /\ lim' = IF cold THEN FloorHigh ELSE High
       /\ tCH' = IF cold /\ t > FloorHigh THEN FloorHigh ELSE t
       /\ valve' = IF Defaults(now, class, e) THEN [r \in Rooms |-> Default(r)]
                                              ELSE Wanted(pwm', ovPwm)
       /\ age' = [r \in Rooms |-> IF Changes(r, valve'[r]) THEN 0 ELSE now[r]]
       /\ tch' = Water(tCH', ovTch, e)
       /\ error' = Clear(e, errCount).error
       /\ errCount' = Clear(e, errCount).count
       /\ started' = TRUE
       /\ broken' = bad /\ touched' = FALSE
       /\ shut' = IF valve'[Floor] # 0 THEN 0
                  ELSE IF valve[Floor] = 0 \/ ~started THEN Older(shut) ELSE shut
       /\ early' = {r \in early : ~Changes(r, valve'[r])}
       /\ flow' = [r \in Rooms |-> IF valve'[r] = 100 /\ valve[r] = 100
                                   THEN Older(flow[r]) ELSE 0]
       /\ rested' = (m = Floor /\ Defaults(now, class, e))
       /\ rest' = IF m # main THEN Trip + 1
                  ELSE IF Delayed THEN 0 ELSE Older(rest)
       /\ UNCHANGED <<sp, ovPwm, ovTch>>

Cycle == \E class \in [Rooms -> Reg], bad \in BOOLEAN : Process(class, bad)

Next ==
  \/ Cycle
  \/ \E r \in Rooms, on \in BOOLEAN : SetSP(r, on)
  \/ \E r \in Overridden, v \in {0, 100, Unset} : OverrideValve(r, v)
  \/ \E v \in Ceilings \cup {Unset} : OverrideWater(v)

Spec == Init /\ [][Next]_vars

(* The 20 s timer keeps expiring; nothing is assumed of the messages.       *)
FairSpec == Spec /\ WF_vars(Cycle)

-----------------------------------------------------------------------------
(* The heating water is above the limit of the floor only when the floor    *)
(* actuator has really been without power for its full trip time, or was    *)
(* commanded again after the last check.  An explicit water override is the *)
(* user's; a floor override that precedes the first cycle carries a         *)
(* timestamp of time_point::min() and defeats the trip time (see README).   *)
FloorProtected ==
  tch > FloorHigh /\ tch # ovTch /\ Floor \notin early =>
    shut > Trip \/ age[Floor] = 0

(* In error the boiler is never asked to heat, whatever overrides come.     *)
ErrorIsCold == error => tch = 0

(* A cycle that met a bad sensor leaves the whole system in its default     *)
(* state, also the cycle whose tail clears the error.                       *)
BadSensorIsSafe ==
  broken /\ ~touched => tch = 0 /\ \A r \in Rooms : valve[r] = Default(r)

(* Hot water has an open way (calc's test of isOpened, mainControl): the    *)
(* valve of the room that sets the temperature is commanded open, and when  *)
(* that room was taken over from another its actuator has really had the    *)
(* full trip time.  A room that was already the main one may heat at once,  *)
(* at the start, after an override and, the floor, after a rest; from then  *)
(* on its valve opens without interruption while the time runs.  Overrides  *)
(* are the user's, also one before the first cycle (as in FloorProtected).  *)
HeatHasWay ==
  tch > 0 /\ ~touched /\ ovTch = Unset /\ ovPwm[main] = Unset =>
    /\ valve[main] = 100
    /\ main \in early \/ flow[main] >= rest

(* A room that stays cold, with the heating in order and no override, in    *)
(* the end gets hot water through an open valve and keeps it.  The floor is *)
(* left out: normally closed, it opens only while another room heats.       *)
Calm(r) == /\ sp[r] /\ reg[r] = "under" /\ ~broken /\ ~touched
           /\ ovTch = Unset /\ \A q \in Rooms : ovPwm[q] = Unset
ColdRoomHeats ==
  \A r \in Rooms \ {Floor} : <>[]Calm(r) => <>[](tch > 0 /\ valve[r] = 100)

(* Once the sensors are good for good, the error goes and stays away.       *)
ErrorRecovers == <>[]~broken => <>[]~error

(* An error, while it lasts and in the cycle that clears it, leaves nothing *)
(* hot and every valve at its default (setError, process).                  *)
ErrorIsSafe == ErrorIsCold /\ BadSensorIsSafe

(* Neither an error nor another room's demand keeps a room cold for ever    *)
(* (process, mainControl, calc).                                            *)
HeatsAndRecovers == ColdRoomHeats /\ ErrorRecovers
=============================================================================
