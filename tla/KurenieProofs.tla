--------------------------- MODULE KurenieProofs ---------------------------
(***************************************************************************)
(* Safety of the heating regulation for any number of rooms, any trip and  *)
(* error times, any overrides and whatever the uninitialised pwm values    *)
(* hold.                                                                   *)
(***************************************************************************)
EXTENDS Kurenie, WellFoundedInduction, TLAPS

(* Why the floor is protected takes four facts: what the boiler was told is *)
(* t_CH or somebody's override; t_CH is high only on the word of the trip   *)
(* timer; before the first cycle it is not high at all; and the trip timer  *)
(* never runs ahead of the real actuator.                                   *)
WaterIsOurs  == tch \in {0, tCH} \/ tch = ovTch
HighIsTimed  == tCH > FloorHigh =>
                  (valve[Floor] = 0 /\ age[Floor] > Trip) \/ age[Floor] = 0
ColdAtFirst  == ~started => tCH = 0
TimerIsLate  == Floor \notin early /\ valve[Floor] = 0 => shut >= age[Floor]

(* Why hot water has a way: an actuator that is commanded open has really   *)
(* had the time the trip timer shows, and the main room's valve is open     *)
(* whether or not the water is hot, except after a rest of the floor.       *)
FlowIsTimed ==
  \A r \in Rooms \ early : valve[r] = 100 => flow[r] >= age[r]
HasWay == valve[main] = 100 /\ (main \in early \/ flow[main] >= rest)
MainHasWay ==
  ~Delayed /\ ovPwm[main] = Unset => HasWay

IInv == /\ TypeOK
        /\ WaterIsOurs /\ HighIsTimed /\ ColdAtFirst /\ TimerIsLate
        /\ ErrorIsCold /\ BadSensorIsSafe /\ HeatHasWay /\ FlowIsTimed /\ MainHasWay

(* There is a floor, and a room before it.                                  *)
LEMMA FloorIsRoom == Floor \in Rooms /\ 0 \in Rooms
BY KurenieAssumption DEF Floor, Rooms

(* The loop of calc keeps one of the rooms that qualify.                    *)
LEMMA LastIsOne ==
  ASSUME NEW S \in SUBSET Rooms, S # {} PROVE Last(S) \in S
<1> DEFINE D == {NRooms - 1 - r : r \in S}
<1>1. D \subseteq Nat /\ D # {}
  <2>1. \A r \in S : r \in Int /\ 0 <= r /\ r <= NRooms - 1
    BY KurenieAssumption DEF Rooms
  <2>2. \A r \in S : NRooms - 1 - r \in Nat
    BY <2>1, KurenieAssumption
  <2>3. PICK r \in S : TRUE
    OBVIOUS
  <2>4. NRooms - 1 - r \in D
    BY <2>3
  <2> QED BY <2>2, <2>4
<1>2. PICK n \in D : \A k \in D : ~(<<k, n>> \in OpToRel(<, Nat))
  BY <1>1, NatLessThanWellFounded, WFMin
<1>3. PICK r \in S : n = NRooms - 1 - r
  BY <1>2
<1>4. \A q \in S : q <= r
  <2> TAKE q \in S
  <2>1. NRooms - 1 - q \in D /\ NRooms - 1 - q \in Nat /\ n \in Nat
    BY <1>1
  <2>2. ~(NRooms - 1 - q < n)
    BY <1>2, <2>1 DEF OpToRel
  <2> QED BY <1>3, <2>2, KurenieAssumption DEF Rooms
<1> QED BY <1>4 DEF Last

(* The room calc chooses is one of the rooms.                               *)
LEMMA NextMainIsRoom ==
  ASSUME TypeOK, NEW now, NEW class PROVE NextMain(now, class) \in Rooms
<1>1. Possible(now) \subseteq Rooms /\ Requesting(now, class) \subseteq Rooms
  BY DEF Possible, Requesting
<1> QED BY <1>1, LastIsOne DEF NextMain, TypeOK

(* At the start nothing heats and no timer has run.                         *)
LEMMA InitIInv == Init => IInv
<1> SUFFICES ASSUME Init PROVE IInv
  OBVIOUS
<1>1. TypeOK
  <2>1. 0 \in 0..(Trip + 1) /\ 0 \in 0..(MaxErr + 1)
    BY KurenieAssumption
  <2>2. pwm \in [Rooms -> Positions]
    BY KurenieAssumption DEF Init
  <2>3. early \subseteq Rooms /\ flow \in [Rooms -> 0..(Trip + 1)]
    BY <2>1 DEF Init
  <2> QED BY <2>1, <2>2, <2>3, KurenieAssumption
          DEF Init, TypeOK, Positions, Waters, Reg, Low, FloorHigh, High
<1>2. WaterIsOurs /\ HighIsTimed /\ ColdAtFirst
  BY DEF Init, WaterIsOurs, HighIsTimed, ColdAtFirst, FloorHigh
<1>3. TimerIsLate
  BY KurenieAssumption, FloorIsRoom DEF Init, TimerIsLate
<1>4. ErrorIsCold /\ BadSensorIsSafe /\ HeatHasWay /\ MainHasWay
  BY DEF Init, ErrorIsCold, BadSensorIsSafe, HeatHasWay, MainHasWay, Delayed
<1>5. FlowIsTimed
  BY KurenieAssumption DEF Init, FlowIsTimed
<1> QED BY <1>1, <1>2, <1>3, <1>4, <1>5 DEF IInv

(* A new setpoint waits for the next cycle.                                 *)
LEMMA SetSPIInv ==
  ASSUME IInv, NEW r \in Rooms, NEW on \in BOOLEAN, SetSP(r, on) PROVE IInv'
BY DEF SetSP, IInv, TypeOK, WaterIsOurs, HighIsTimed, ColdAtFirst, TimerIsLate,
       ErrorIsCold, BadSensorIsSafe, HeatHasWay, FlowIsTimed, MainHasWay, HasWay,
       Delayed, control, outputs, history, ages, Default

(* The water override is held back by the error.                            *)
LEMMA OverrideWaterIInv ==
  ASSUME IInv, NEW v \in Ceilings \cup {Unset}, OverrideWater(v) PROVE IInv'
BY KurenieAssumption
   DEF OverrideWater, Water, IInv, TypeOK, WaterIsOurs, HighIsTimed,
       ColdAtFirst, TimerIsLate, ErrorIsCold, BadSensorIsSafe, HeatHasWay,
       FlowIsTimed, MainHasWay, HasWay, Delayed, control, ages, Waters

(* The valve override acts at once and is recorded as touched.              *)
LEMMA OverrideValveIInv ==
  ASSUME IInv, NEW r \in Overridden, NEW v \in {0, 100, Unset}, OverrideValve(r, v)
  PROVE  IInv'
<1> DEFINE p == IF v = Unset THEN pwm[r] ELSE v
<1>r. r \in Rooms
  BY KurenieAssumption
<1> USE <1>r
<1>0. /\ valve' = [valve EXCEPT ![r] = p] /\ p \in Positions
      /\ age' = IF Changes(r, p) THEN [age EXCEPT ![r] = IF started THEN 0 ELSE Trip + 1]
                                 ELSE age
  BY DEF OverrideValve, IInv, TypeOK, Positions
<1>1. TypeOK'
  <2>1. early' \subseteq Rooms
    BY DEF OverrideValve, IInv, TypeOK
  <2>2. flow' \in [Rooms -> 0..(Trip + 1)]
    BY KurenieAssumption DEF OverrideValve, IInv, TypeOK
  <2>3. valve' \in [Rooms -> Positions] /\ ovPwm' \in [Rooms -> Positions]
    BY <1>0 DEF OverrideValve, IInv, TypeOK, Positions
  <2>4. age' \in [Rooms -> 0..(Trip + 1)] /\ shut' \in 0..(Trip + 1)
    BY <1>0, KurenieAssumption DEF OverrideValve, IInv, TypeOK
  <2>5. touched' \in BOOLEAN
    BY DEF OverrideValve
  <2> QED BY <2>1, <2>2, <2>3, <2>4, <2>5
          DEF OverrideValve, IInv, TypeOK, control
<1>2. HighIsTimed'
  <2> SUFFICES ASSUME tCH > FloorHigh
               PROVE (valve'[Floor] = 0 /\ age'[Floor] > Trip) \/ age'[Floor] = 0
    BY DEF HighIsTimed, OverrideValve, control
  <2>1. started
    BY DEF IInv, ColdAtFirst, FloorHigh
  <2> QED BY <1>0, <2>1, FloorIsRoom DEF IInv, HighIsTimed, TypeOK, Changes
<1>3. TimerIsLate'
  <2> SUFFICES ASSUME Floor \notin early', valve'[Floor] = 0
               PROVE  shut' >= age'[Floor]
    BY DEF TimerIsLate
  <2>1. /\ shut' = shut
        /\ r = Floor /\ Changes(r, p) => started
        /\ r # Floor \/ ~Changes(r, p) => Floor \notin early
    BY DEF OverrideValve
  <2>2. shut \in Nat /\ age \in [Rooms -> Nat]
    BY KurenieAssumption DEF IInv, TypeOK
  <2>3. CASE r # Floor
    BY <1>0, <2>1, <2>3, FloorIsRoom DEF IInv, TimerIsLate, TypeOK
  <2>4. CASE r = Floor /\ Changes(r, p)
    BY <1>0, <2>1, <2>2, <2>4, FloorIsRoom
  <2>5. CASE r = Floor /\ ~Changes(r, p)
    BY <1>0, <2>1, <2>5, FloorIsRoom DEF IInv, TimerIsLate, TypeOK, Changes
  <2> QED BY <2>3, <2>4, <2>5
<1>4. (WaterIsOurs /\ ColdAtFirst /\ ErrorIsCold /\ BadSensorIsSafe)'
  BY DEF OverrideValve, IInv, WaterIsOurs, ColdAtFirst, ErrorIsCold,
         BadSensorIsSafe, control
<1>5. (HeatHasWay /\ MainHasWay)'
  <2>1. HeatHasWay'
    BY DEF OverrideValve, HeatHasWay
  <2>2. CASE main = r
    BY <2>1, <2>2 DEF OverrideValve, MainHasWay, Delayed, control
  <2>3. CASE main # r
    <3>1. /\ main \in Rooms /\ main' = main /\ rest' = rest
          /\ (~Delayed)' => ~Delayed
      BY DEF OverrideValve, Delayed, IInv, TypeOK, control
    <3>2. /\ valve'[main] = valve[main] /\ flow'[main] = flow[main]
          /\ ovPwm'[main] = ovPwm[main] /\ (main \in early <=> main \in early')
      BY <2>3, <3>1, <1>0 DEF OverrideValve, IInv, TypeOK
    <3> QED BY <2>1, <3>1, <3>2 DEF MainHasWay, HasWay, IInv
  <2> QED BY <2>1, <2>2, <2>3
<1>6. FlowIsTimed'
  <2> SUFFICES ASSUME NEW q \in Rooms, q \notin early', valve'[q] = 100
               PROVE  flow'[q] >= age'[q]
    BY DEF FlowIsTimed
  <2>1. flow \in [Rooms -> Nat] /\ age \in [Rooms -> Nat]
    BY KurenieAssumption DEF IInv, TypeOK
  <2>2. CASE q # r
    <3>1. /\ valve'[q] = valve[q] /\ age'[q] = age[q] /\ flow'[q] = flow[q]
          /\ q \notin early
      BY <1>0, <2>1, <2>2 DEF OverrideValve, IInv, TypeOK
    <3> QED BY <3>1 DEF IInv, FlowIsTimed
  <2>3. CASE q = r /\ Changes(r, p)
    <3>1. started
      BY <2>3 DEF OverrideValve
    <3>2. age'[q] = 0 /\ flow'[q] \in Nat
      BY <1>0, <2>1, <2>3, <3>1 DEF OverrideValve
    <3> QED BY <3>2
  <2>4. CASE q = r /\ ~Changes(r, p)
    <3>1. p = 100 /\ valve[r] = 100
      BY <1>0, <2>4 DEF Changes, IInv, TypeOK
    <3>2. age' = age /\ flow' = flow /\ q \notin early
      BY <1>0, <2>4, <3>1 DEF OverrideValve
    <3> QED BY <2>4, <3>1, <3>2 DEF IInv, FlowIsTimed
  <2> QED BY <2>2, <2>3, <2>4
<1> QED BY <1>1, <1>2, <1>3, <1>4, <1>5, <1>6 DEF IInv

(* The cycle: first what every conjunct needs to know of it.                *)
LEMMA ControlledType ==
  ASSUME TypeOK, NEW class \in [Rooms -> Reg], NEW m \in Rooms,
         NEW d \in [Drifting(class, m) -> Drifts]
  PROVE  /\ Controlled(class, m, d) \in [Rooms -> Positions]
         /\ Controlled(class, m, d)[m] = 100
<1>1. \A r \in DOMAIN d : d[r] \in Positions
  BY KurenieAssumption DEF Positions
<1> QED BY <1>1 DEF Controlled, Positions

(* The whole cycle of process.                                              *)
LEMMA CycleIInv ==
  ASSUME IInv, NEW class \in [Rooms -> Reg], NEW bad \in BOOLEAN,
         Process(class, bad)
  PROVE  IInv'
<1> DEFINE now  == [r \in Rooms |-> Older(age[r])]
           m    == NextMain(now, class)
           cold == ~Closed(Floor, now)
           e    == error \/ bad
           idle == Idle(now, class)
<1> USE DEF IInv
<1>0. PICK t \in IF idle THEN {0} ELSE Heated(class[m]),
           d \in [IF idle THEN {} ELSE Drifting(class, m) -> Drifts] :
       /\ main' = m /\ reg' = class
       /\ pwm' = IF idle THEN pwm ELSE Controlled(class, m, d)
       /\ lim' = IF cold THEN FloorHigh ELSE High
       /\ tCH' = IF cold /\ t > FloorHigh THEN FloorHigh ELSE t
       /\ valve' = IF Defaults(now, class, e) THEN [r \in Rooms |-> Default(r)]
                                              ELSE Wanted(pwm', ovPwm)
       /\ age' = [r \in Rooms |-> IF Changes(r, valve'[r]) THEN 0 ELSE now[r]]
       /\ tch' = Water(tCH', ovTch, e)
       /\ error' = Clear(e, errCount).error
       /\ errCount' = Clear(e, errCount).count
       /\ started' = TRUE
       /\ broken' = bad /\ touched' = FALSE
       /\ shut' = IF valve'[Floor] # 0 THEN 0
                  ELSE IF valve[Floor] = 0 \/ ~started THEN Older(shut) ELSE shut
       /\ early' = {r \in early : ~Changes(r, valve'[r])}
       /\ flow' = [r \in Rooms |-> IF valve'[r] = 100 /\ valve[r] = 100
                                   THEN Older(flow[r]) ELSE 0]
       /\ rested' = (m = Floor /\ Defaults(now, class, e))
       /\ rest' = IF m # main THEN Trip + 1
                  ELSE IF Delayed THEN 0 ELSE Older(rest)
       /\ UNCHANGED <<sp, ovPwm, ovTch>>
  BY DEF Process
<1>m. m \in Rooms
  BY NextMainIsRoom
<1>n. now \in [Rooms -> 0..(Trip + 1)]
  BY KurenieAssumption DEF TypeOK, Older
<1>p. pwm' \in [Rooms -> Positions] /\ (~idle => pwm'[m] = 100)
  <2>1. CASE idle
    BY <1>0, <2>1 DEF TypeOK
  <2>2. CASE ~idle
    BY <1>0, <1>m, <2>2, ControlledType
  <2> QED BY <2>1, <2>2
<1>v. valve' \in [Rooms -> Positions]
  BY <1>0, <1>p DEF TypeOK, Wanted, Default, Positions
<1>t. tCH' \in Waters /\ (tCH' # 0 => tCH' >= Low)
  <2>1. t \in Waters /\ (t # 0 => t >= Low)
    BY <1>m DEF Heated, TypeOK, Waters, Reg, Low, FloorHigh, High
  <2> QED BY <1>0, <2>1 DEF Waters, Low, FloorHigh, High
<1>e. error' \in BOOLEAN /\ errCount' \in 0..(MaxErr + 1) /\ (error' => e)
  BY <1>0, KurenieAssumption DEF Clear, TypeOK
<1>1. TypeOK'
  <2>1. age' \in [Rooms -> 0..(Trip + 1)]
    BY <1>0, <1>n, KurenieAssumption
  <2>2. shut' \in 0..(Trip + 1)
    BY <1>0, KurenieAssumption DEF TypeOK, Older
  <2>3. tch' \in Waters \cup Ceilings
    BY <1>0, <1>t DEF TypeOK, Water, Waters
  <2>4. sp' \in [Rooms -> BOOLEAN] /\ ovPwm' \in [Rooms -> Positions]
        /\ ovTch' \in Ceilings \cup {Unset} /\ early' \subseteq Rooms
    BY <1>0 DEF TypeOK
  <2>f. flow' \in [Rooms -> 0..(Trip + 1)]
    BY <1>0, KurenieAssumption DEF TypeOK, Older
  <2>r. rested' \in BOOLEAN /\ rest' \in 0..(Trip + 1)
    BY <1>0, KurenieAssumption DEF TypeOK, Older, Defaults, Idle
  <2>5. reg' \in [Rooms -> Reg] /\ main' \in Rooms /\ lim' \in {FloorHigh, High}
        /\ started' \in BOOLEAN /\ broken' \in BOOLEAN /\ touched' \in BOOLEAN
    BY <1>0, <1>m
  <2> QED BY <1>p, <1>v, <1>t, <1>e, <2>1, <2>2, <2>3, <2>4, <2>5, <2>f, <2>r DEF TypeOK
<1>2. WaterIsOurs'
  BY <1>0 DEF WaterIsOurs, Water
<1>3. HighIsTimed'
  <2> SUFFICES ASSUME tCH' > FloorHigh, age'[Floor] # 0
               PROVE  valve'[Floor] = 0 /\ age'[Floor] > Trip
    BY DEF HighIsTimed
  <2>1. ~cold
    BY <1>0 DEF FloorHigh
  <2>2. age'[Floor] = now[Floor] /\ valve'[Floor] = valve[Floor]
    BY <1>0, FloorIsRoom DEF Changes
  <2> QED BY <2>1, <2>2 DEF Closed, Full
<1>4. ColdAtFirst'
  BY <1>0 DEF ColdAtFirst
<1>5. TimerIsLate'
  <2> SUFFICES ASSUME Floor \notin early', valve'[Floor] = 0
               PROVE  shut' >= age'[Floor]
    BY <1>0 DEF TimerIsLate
  <2>1. CASE valve[Floor] = 0
    <3>1. /\ age'[Floor] \in {0, Older(age[Floor])} /\ shut' = Older(shut)
          /\ Floor \notin early
      BY <1>0, <2>1, FloorIsRoom, KurenieAssumption DEF Changes
    <3>2. shut >= age[Floor]
      BY <2>1, <3>1 DEF TimerIsLate
    <3> QED BY <3>1, <3>2, FloorIsRoom, KurenieAssumption DEF Older, TypeOK
  <2>2. CASE valve[Floor] # 0
    <3>1. age'[Floor] = 0
      BY <1>0, <2>2, FloorIsRoom DEF Changes
    <3>2. shut' \in Nat
      BY <1>1, KurenieAssumption DEF TypeOK
    <3> QED BY <3>1, <3>2
  <2> QED BY <2>1, <2>2
<1>6. ErrorIsCold'
  BY <1>0, <1>e DEF ErrorIsCold, Water
<1>7. BadSensorIsSafe'
  BY <1>0 DEF BadSensorIsSafe, Water, Defaults
<1>w. ((tCH' > 0 /\ ~e) \/ ~rested') /\ ovPwm[m] = Unset => valve'[m] = 100
  <2> SUFFICES ASSUME (tCH' > 0 /\ ~e) \/ ~rested', ovPwm[m] = Unset
               PROVE  valve'[m] = 100
    OBVIOUS
  <2>1. CASE Defaults(now, class, e)
    <3>1. idle => tCH' = 0
      BY <1>0 DEF FloorHigh
    <3>2. ~(tCH' > 0 /\ ~e)
      BY <2>1, <3>1 DEF Defaults
    <3>3. rested' <=> m = Floor /\ Defaults(now, class, e)
      BY <1>0, ZenonT(30)
    <3>4. m # Floor
      BY <2>1, <3>2, <3>3
    <3> QED BY <1>0, <1>m, <2>1, <3>4 DEF Default
  <2>2. CASE ~Defaults(now, class, e)
    <3>1. ~idle /\ valve' = Wanted(pwm', ovPwm)
      BY <1>0, <2>2 DEF Defaults
    <3> QED BY <1>m, <1>p, <3>1 DEF Wanted
  <2> QED BY <2>1, <2>2
<1>f. FlowIsTimed'
  <2> SUFFICES ASSUME NEW r \in Rooms, r \notin early', valve'[r] = 100
               PROVE  flow'[r] >= age'[r]
    BY DEF FlowIsTimed
  <2>1. flow'[r] \in Nat /\ flow[r] \in Nat /\ age[r] \in Nat
    BY <1>1, KurenieAssumption DEF TypeOK
  <2>2. CASE Changes(r, valve'[r])
    BY <1>0, <2>1, <2>2
  <2>3. CASE ~Changes(r, valve'[r])
    <3>1. valve[r] = 100 /\ r \notin early
      BY <1>0, <2>3 DEF Changes
    <3>2. flow[r] >= age[r]
      BY <3>1 DEF FlowIsTimed
    <3>3. flow'[r] = Older(flow[r]) /\ age'[r] = Older(age[r])
      BY <1>0, <2>3, <3>1
    <3> QED BY <2>1, <3>2, <3>3, KurenieAssumption DEF Older, TypeOK
  <2> QED BY <2>2, <2>3
<1>h. valve'[m] = 100 /\ ovPwm[m] = Unset => m \in early' \/ flow'[m] >= rest'
  <2> SUFFICES ASSUME valve'[m] = 100, ovPwm[m] = Unset, m \notin early'
               PROVE  flow'[m] >= rest'
    OBVIOUS
  <2>0. /\ flow'[m] \in 0..(Trip + 1) /\ rest' \in 0..(Trip + 1)
        /\ flow[m] \in 0..(Trip + 1) /\ rest \in 0..(Trip + 1)
        /\ age[m] \in 0..(Trip + 1)
    BY <1>1, <1>m DEF TypeOK
  <2>1. valve[m] = 100 => flow'[m] = Older(flow[m]) /\ m \notin early
    BY <1>0, <1>m, KurenieAssumption DEF Changes
  <2>2. CASE m # main
    <3>1. Opened(m, now)
      <4>1. /\ Possible(now) \subseteq Rooms
            /\ Requesting(now, class) \subseteq Possible(now)
        BY DEF Possible, Requesting
      <4>r. Requesting(now, class) # {} =>
              Last(Requesting(now, class)) \in Requesting(now, class)
        BY <4>1, LastIsOne
      <4>p. Possible(now) # {} => Last(Possible(now)) \in Possible(now)
        BY <4>1, LastIsOne
      <4>2. m \in Possible(now)
        BY <2>2, <4>1, <4>r, <4>p DEF NextMain
      <4> QED BY <4>1, <4>2 DEF Possible
    <3>2. valve[m] = 100 /\ Older(age[m]) > Trip
      BY <3>1, <1>m DEF Opened, Full
    <3>3. flow[m] >= age[m]
      BY <2>1, <3>2, <1>m DEF FlowIsTimed
    <3>4. Older(flow[m]) > Trip
      BY <2>0, <3>2, <3>3, KurenieAssumption DEF Older
    <3> QED BY <2>0, <2>1, <3>2, <3>4, KurenieAssumption
  <2>3. CASE m = main /\ Delayed
    BY <1>0, <2>0, <2>3, KurenieAssumption
  <2>4. CASE m = main /\ ~Delayed
    <3>1. valve[m] = 100 /\ (m \in early \/ flow[m] >= rest)
      BY <2>4 DEF MainHasWay, HasWay
    <3>2. flow'[m] = Older(flow[m]) /\ rest' = Older(rest) /\ flow[m] >= rest
      <4>1. m \notin early /\ flow'[m] = Older(flow[m])
        BY <2>1, <3>1
      <4>2. rest' = Older(rest)
        BY <1>0, <2>4
      <4> QED BY <3>1, <4>1, <4>2
    <3> QED BY <2>0, <3>2, KurenieAssumption DEF Older
  <2> QED BY <2>2, <2>3, <2>4
<1>8. HeatHasWay'
  <2> SUFFICES ASSUME tch' > 0, ovTch = Unset, ovPwm[m] = Unset
               PROVE  valve'[m] = 100 /\ (m \in early' \/ flow'[m] >= rest')
    BY <1>0 DEF HeatHasWay
  <2>1. ~e /\ tCH' > 0
    BY <1>0 DEF Water
  <2> QED BY <1>w, <1>h, <2>1
<1>9. MainHasWay'
  BY <1>0, <1>w, <1>h DEF MainHasWay, HasWay, Delayed
<1> QED BY <1>1, <1>2, <1>3, <1>4, <1>5, <1>6, <1>7, <1>8, <1>9, <1>f

(* The inductive invariant holds of every cycle and every message between.  *)
THEOREM Invariance == Spec => []IInv
<1>1. IInv /\ [Next]_vars => IInv'
  <2> SUFFICES ASSUME IInv, [Next]_vars PROVE IInv'
    OBVIOUS
  <2>1. CASE Cycle
    BY <2>1, CycleIInv DEF Cycle
  <2>2. CASE \E r \in Rooms, on \in BOOLEAN : SetSP(r, on)
    BY <2>2, SetSPIInv
  <2>3. CASE \E r \in Overridden, v \in {0, 100, Unset} : OverrideValve(r, v)
    BY <2>3, OverrideValveIInv, KurenieAssumption
  <2>4. CASE \E v \in Ceilings \cup {Unset} : OverrideWater(v)
    BY <2>4, OverrideWaterIInv
  <2>5. CASE UNCHANGED vars
    BY <2>5 DEF vars, control, outputs, history, IInv, TypeOK, WaterIsOurs,
       HighIsTimed, ColdAtFirst, TimerIsLate, ErrorIsCold, BadSensorIsSafe, HeatHasWay,
       FlowIsTimed, MainHasWay, HasWay, Delayed, ages
  <2> QED BY <2>1, <2>2, <2>3, <2>4, <2>5 DEF Next
<1> QED BY InitIInv, <1>1, PTL DEF Spec

(* Every variable keeps its type, in particular the error counter its range *)
(* and the water its levels (process, mainControl, check).                  *)
THEOREM TypeCorrect == Spec => []TypeOK
<1>1. IInv => TypeOK
  BY DEF IInv
<1> QED BY Invariance, <1>1, PTL

(* Water hotter than the floor bears is asked for only while the floor      *)
(* actuator has been without power for its whole trip time, or since a      *)
(* command the next check will see (check, TEV::isClosed).                  *)
THEOREM FloorIsProtected == Spec => []FloorProtected
<1>1. IInv => FloorProtected
  <2> SUFFICES ASSUME IInv, tch > FloorHigh, tch # ovTch, Floor \notin early
               PROVE  shut > Trip \/ age[Floor] = 0
    BY DEF FloorProtected
  <2>1. tCH > FloorHigh
    BY DEF IInv, WaterIsOurs, FloorHigh
  <2>2. age[Floor] \in Nat /\ shut \in Nat
    BY FloorIsRoom, KurenieAssumption DEF IInv, TypeOK
  <2> QED BY <2>1, <2>2, KurenieAssumption DEF IInv, HighIsTimed, TimerIsLate
<1> QED BY Invariance, <1>1, PTL

(* In error nothing makes the daemon ask for heat (set_t_CH).               *)
THEOREM ErrorStaysCold == Spec => []ErrorIsCold
<1>1. IInv => ErrorIsCold
  BY DEF IInv
<1> QED BY Invariance, <1>1, PTL

(* A cycle with a bad sensor ends in the default state (update before the   *)
(* error is cleared, setTEVsDefault before any override).                   *)
THEOREM BadSensorStaysSafe == Spec => []BadSensorIsSafe
<1>1. IInv => BadSensorIsSafe
  BY DEF IInv
<1> QED BY Invariance, <1>1, PTL

(* Hot water has an open way, with its full trip time when the main room    *)
(* has changed (calc's test of isOpened, mainControl, calc's idle exit).    *)
THEOREM HeatAlwaysHasWay == Spec => []HeatHasWay
<1>1. IInv => HeatHasWay
  BY DEF IInv
<1> QED BY Invariance, <1>1, PTL

(* So an error leaves nothing hot and every valve at its default.           *)
THEOREM ErrorStaysSafe == Spec => []ErrorIsSafe
<1>1. IInv => ErrorIsSafe
  BY DEF IInv, ErrorIsSafe
<1> QED BY Invariance, <1>1, PTL
=============================================================================
