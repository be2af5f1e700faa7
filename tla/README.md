# Verification of bytd

TLA+ models, TLC runs and TLAPS proofs for the home-automation system `byt`: the
daemon `bytd` on a BeagleBone, the firmware of its PRU, and the AVR nodes on the
CAN bus. Source paths below are relative to `src/`.

## 1. The system

`bytd` is one process. Its **io thread** (boost asio) runs almost all of the
logic, one callback at a time: MQTT messages, the one-second tick, the 20 s
heating cycle, CAN frames, button and dimmer timers. Beside it run the
**OpenTherm thread** (one exchange with the boiler per second), the **measuring
thread** (a one-wire round per second), the **PRU reader** (fills mailboxes with
the PRU's answers), the **slow-PWM thread** (switches the thermoelectric valves),
one thread per **impulse meter**, the **Reku** serial thread, and a short-lived
**mover** thread per movement of the four-way valve. They share plain members,
one-slot mailboxes under a mutex, and the MQTT client, which publishes retained
by default.

| component | state | operations | interacts with | hard about it | right when |
|---|---|---|---|---|---|
| CAN output path: `candata.cpp`, `canbus.cpp`, `avr/fw/main.cpp` | item values, `needUpdate` per frame, `pending`, `frame_wr`; a node's receive objects, stage, pins | `set`, `update`, `send`, read-back, `writeReady` | io thread, kernel socket, nodes | one frame under way, released by its echo; changes arrive meanwhile; node and socket faults; restarts | no change is lost or stuck, pins never go back |
| Four-way valve: `Ventil4w.cpp` | `cur_position`, `in_position`, `moving`, position file, topic | `moveTo`, `home_pos`, `move`, `lostPosition`, `loadPosition` | io thread, mover thread, edges of two marks | edges lag behind the shaft, movements fail half way, the process stops anywhere | the believed position is the real one; the file agrees; a movement ends |
| Heating: `Kurenie.cpp`, `kurenieHW.cpp` | set-points, overrides, main room, water temperature, valve pwm, error and its counter, valve ages | `process`, `setSP`, overrides | io thread; reads sensors, writes `chSetpoint` and valve pwm | valves need 8 min to move; overrides at any time; a bad sensor half way through a cycle | floor never gets hot water, error is cold, heat has a way, a cold room is heated |
| Room temperatures: `OwTempSensor.cpp`, `SimpleSensor.cpp`, `HW::CurT`, `Kurenie::CurT` | last value, NaN counter, ring of readings | `setValue`, `update`, `add`, `delta` | measuring and io threads | three layers filter in turn | the heating sees the sensor |
| OpenTherm and pump: `OpenTherm.cpp`, `Pumpa.cpp` | set-points, `asyncReq`, `status`; relay, `plamenOffCount` | the polling loop, `asyncTransferRequest`; `start`, `stop`, `onPlamenOff` | OpenTherm and io threads share all of it without a lock | interleaving of single accesses | pump counted while it runs and stops by itself, requests and set-points reach the boiler |
| One-wire: `OwThermNet.cpp`, `Pru.cpp`, `therm.cpp`, `pru/ow_sm.c` | mailbox, PRU operation, selected sensor | `convert`, `read_scratchpad`, `search`, `presence` | measuring thread, PRU reader, PRU | answers carry no request id; late, missing or overwritten answers | temperatures belong to their sensor and round |
| PRU firmware: `pru/main.c`, `pru/opentherm_sm.c` | bit-level state machines | one message loop for both buses | PRU mailbox | timing of edges | every command is answered, frames are decoded |
| MQTT client: `mqtt.cpp` | connection state, pending reads and writes | `do_misc`, `on_connect`, `on_disconnect`, `sched_read/write`, `publish` | io thread, all publishers | callbacks across reconnects | reconnects, no command from an old connection |
| Slow PWM: `slowswi2cpwm.cpp` | values, phase, worker | `update`, worker loop | io thread, worker | lock, shutdown | each output is on for its share |
| On/off devices: `OnOffDevice.cpp` | output, retained topic | `set`, `toggle`, `trigger` | io thread, broker | the state topic is the command topic | state and topic agree in the end |
| Switches: `Vypinace.cpp`, `builder.cpp` | press timers | press, release, time-out | io thread, CAN inputs | short against long press | one action per press |
| Dimmers: `LightDimmable.cpp`, `LightManager.cpp` | level, ramp timer | commands, ramp step | io thread | command during a ramp | the last command wins |
| Events: `Event.h`, `Subscription.h` | subscriber list and lock | subscribe, notify, unsubscribe | all threads | lock held during callbacks | no callback after unsubscription |
| Impulse meters: `ImpulzyBase.cpp`, `Elektromer.cpp`, `Plynomer.cpp` | count, origin, stored total | `event`, `setNewValue`, `store` | meter threads, io thread | unlocked updates, file rewriting | no impulse is lost, the total survives |
| Ventilation: `Reku.cpp`, `rekuperacia_fw/main.c` | frame buffer, failure count | `loop`, `readFrame`, `onFailure`; firmware receive, transmit | serial line | cut frames, silence | both sides resynchronise and fall back |
| AVR nodes: `avr/fw/*.cpp` | i/o image, debounce counters, transmit marks, sensor machines | `run`, `svc`, timers | CAN | inputs change while a frame is under way | the last state reaches the bus |
| Bootloader: `avr/bootloader` | page buffer | CAN commands | CAN | interrupted programming | application starts only when told |

Wiring (`AppContainer.cpp`, `builder.cpp`), single hardware writes, logging,
simulators and the operator scripts have no behaviour of their own to model.
`PROJECT.json` lists every part with its status and every hazard at its line.

## 2. What is modelled

Correspondence of every definition to its lines is in `PROJECT.json`, `map`.
Modules are written per component; `MC...` modules compose them for TLC.

### The daemon: outputs, valve, heating, boiler

**`LatestValue`** is the abstract promise of the CAN output path: a pin shows
snapshots of the daemon's table, in order, each at most once, possibly losing some.

**`CanOutputs`** is the path itself. Each io-thread callback is one action
(`Set`, `ReadBack`, `ReadOther`, `ReadFails`, `WriteFails`), the node's main loop
two (`NodeStage`, `NodeOutput`), the bus one (`Transmit`, external). An item's
bit and the copy of it in its frame change together in the code and are one
variable `value`. `handed` is a history of what was last given to the socket.
`MCCanOutputs` gives the instance. `writeReady` goes on scanning after a
successful `send`, which then refuses, so it sends exactly the first waiting
frame (`FirstWaiting`). A failed write leaves `pending` set for good and a
failed read ends all reading (`canbus.cpp:81`, `:114`); both are in the model,
and that outputs then stop is the code's behaviour, not a property.

**`Ventil4w`**: the shaft is a ring of ten sectors; edges are queued by the
kernel and read one per line and wakeup. Every blocking wait of the mover
thread is a step, so `moveTo` on the io thread, the edges and a restart
come anywhere between. The position file is emptied and written in two steps.
`anchored` is a history: the position was established by the absolute mark and
no process stop happened during a movement since. It is needed: the file keeps
the old position while the valve moves (`Ventil4w.cpp:296` is its only
rewriting), so a restart in mid-movement believes the old position until the
absolute mark contradicts it.

**`Kurenie`**: one action for `process` with everything it calls, one per
message. Temperatures enter as the class `room_regulation_state` computes;
water and valve values keep the levels the code compares with, and the drift
inside the band is a choice. Time is counted in cycles. `pwm_TEV_val` is never
initialised, so it starts as anything (`Garbage`). `shut` is a history of how
long the floor actuator has really been without power, `flow` of how long each
valve has been commanded open without interruption, and `rest` of how long the
main room has been kept without a start, an override or a rest in between.

**`RoomSensor`**: the four filters between a raw reading and the trend, in
sixteenths of a degree. `Sample` is the measuring thread's chain (called
under the event's lock), `Cycle` the heating's.

**`Boiler`**: the OpenTherm loop stepped at its exchanges, and `Pumpa` stepped at every
access to the two shared members, on both threads. An exchange ends
in the boiler's answer or in none, because the PRU gives up within 1.2 s
and `transmit` waits 4 s. `overlap` and `wrong` are histories that say when both threads
were in `Pumpa` at once and what that may have spoilt. The set-points go over
the wire as `float2f88` makes them: modulo 256 degrees, and NaN as anything.
`MCBoiler` fixes for each behaviour whether its messages are for the pump or
for the set-points, which share the thread and nothing else.

**`SlowPwm`**: the worker's loop is stepped wherever it looks at what the io
thread sets (`check`, `looks`, `waiting`, `writing`); the schedule is the set of
pulse ends to come. `update` takes effect at the next period, the two switched
outputs notify.

### One-wire and OpenTherm behind the PRU

**`OneWire`**: the measuring round command by command, the mailbox, the PRU's
operation and what the sensors heard. The PRU always finishes before the client
gives up (milliseconds against 100 ms); it is the answer that can be late,
while the reader thread does not run. A write to a busy PRU takes over from the
operation under way (`pru/ow_sm.c:321`), a reset is refused with an answer that
`Pru::respond` drops.

**`OwSearch`**: `OwThermNet::search` bit by bit over the codes of the sensors that
are wired, with the constructor's comparison and systemd's restart around it. A
triplet may be misread; `noisy` records it.

**`PruOneWire`**: the firmware's bit machine, one turn of `main`'s loop per
action. The constants of `ow_sm.c` are only compared with each other, so time
is the number of them that have passed. The sensor's side of a slot is
in `Holds`. Commands may come while an operation runs (`Taking`): `sBitIoState`
is reset by nobody, and the model shows that this spoils nothing later.

**`PruOpenTherm`**: request and answer in tenths of a bit; the boiler may stretch a
bit, noise may invert any poll. `RequestsSound` and the ends of operations
discharge what `Boiler` and `OneWire` assume of the PRU: an accepted operation
ends in one answer, except the write that meets a low wire (`PruOneWire`,
`AfterShort`), which `OneWire` has as an action of its own.

`MCPru` puts the four side by side: `part` says which of them a behaviour is about.

### The house around it

**`MqttClient`**: mosquitto's socket, the asio object, the pending-write flag and
the two waits; `sched_write_mqtt_socket` is stepped at the want-write test, the
exchange of the flag and the use of the object, on the io thread and on one that
publishes. Mosquitto itself and the network are external.

**`Devices`**: a light and the gate with the broker. The link loses what is under
way when it breaks; a subscription brings the retained messages. Other clients
command, retained or not.

**`Switches`**: the three kinds of wall switch. A frame changes any set of
buttons; completions of the 500 ms timer, with or without error, wait in `handlers`,
so frames come between expiry and handler as they do in the io context. `owed` is a history of the
presses no click has answered yet.

**`Dimmer`**: `setTarget`, `adjust`, the shared timer and the event with its
subscribers; completions cut short by `expires_after` run the handler as well.

**`Meters`**: `event`, `checkStore`, `setNewValue` and `store` stepped at every access to the
shared members and the file; a stop at any point. `due` is the true total: the last
new one and every impulse since, whatever stops come. `stops` counts them, `unsaved`, `overlapped` and
`spoilt` say when a stop found the file without the total. Below, the filter of the
water meter's contact.

**`Reku`**: the serial thread, the line and the unit's firmware. A frame is two pieces that
are lost or arrive separately; time is half seconds. **`RekuMeas`**: the unit's
converter (one for two channels), its medians and sums, and the tachometers.

**`Bootloader`**: the node's bootloader with its page buffer, and the upload tool
with its socket. Everything a downloading node receives is data, everything
else a command. A reset keeps of the page what the power or the application, which runs on the same RAM,
left of it; other nodes send anything at any time, and the tool looks at no sender.

`MCHouse` and `MCMeasured` compose them, one part per behaviour.

### An AVR node

**`AvrMob`** is the sending half every sensor shares: stages, process data, marks,
transmit objects. **`AvrInputs`** (debouncing), **`AvrOneWire`** (the polled machine and
the interrupt-driven bit driver below it), **`AvrSht11`** (two lines, one edge per
poll, and the sensor counting the same edges) and **`AvrScd4x`** (TWI bytes, error
count and recovery, and starts by command in any state, also in the middle of a transfer) extend it, and **`AvrNode`** composes them with
configuration and loss of power. The stage command that makes a node exchange
process data switches off transmit objects that wait for the bus (`Enabling`);
`unreported` is the history of what was changed behind the bus's back.

## 3. What the runs show

A property that a cfg names is a conjunction of the parts in brackets; each is
stated with a comment where it is defined.

| run | instance | properties |
|---|---|---|
| `can_safety` | two frames, one of two items; faults, restarts | `UpdatesKept` (`NoLostUpdate`, `NoIdleBacklog`), `OneInFlight`; `SnapshotsInOrder`: `CanOutputs` implements `LatestValue` |
| `can_live` | two frames of one item; nodes keep up | `OutputsServed` (`OutputsConverge`, `FirstFrameServed`) |
| `ventil` | the full ring, slip of one edge | `PositionHolds` (`BeliefIsTrue`, `FileAgrees`), `MovementEnds` |
| `kurenie` | a room and the floor, trip time and error limit of one cycle | `FloorProtected`, `ErrorIsSafe` (`ErrorIsCold`, `BadSensorIsSafe`), `HeatHasWay`, `HeatsAndRecovers` (`ColdRoomHeats`, `ErrorRecovers`) |
| `pru` | three sensors; codes of three bits; operations of two bits; frames of one bit | `RoundsTrue` (`NotMixedUp`, `StaleIsLogged`), `SearchTrue` (`FindsAll`, `NoneInvented`, `StartsComplete`), `PruSound` (`SoundOperation`, `StrongWhenDone`, `LetGo`, `AnsweredOnce`, `WrittenAsAsked`), `FramesSound`, `AllEnds`, `Recovers` (with `OtAnswers`) |
| `boiler` | stop at two flame-offs; set-points 40 and 300, two requests | `PumpConsistent` (`PumpIsCounted`, `TopicIsTrue`), `PumpStops`, `BoilerServed` (`RequestServed`, `BoilerObeys`) |
| `measured` | ring of three readings; two medians of three; meter and file; contact | `UnitMeasures` (`MeasRight`, `TachoTrue`), `MeterKept` (`TotalCounted`, `FileNear`), `SensorSeen` (`FollowsSensor`, `DeltaSpansRing`, `PowerOnIsHidden`, `Settles`), `WaterCounted` |
| `house` | two heads and a switched output; three buttons; two lights; a light and the gate; two pages of three frames | `VentilationFresh` (`RekuFresh`, `FansFresh`), `OutputsRight` (`PulsesRight`, `SwitchesShown`), `ClicksRight` (`PressesClick`, `SoloPress`, `LongIsHeld`), `LightsRight` (`RampGoesOn`, `RestoresBrightness`), `ClientRight` (`DiesByOverlap`, `NoneLeft`), `FlashedAsSent`, `DevicesObey` (`PressHolds`, `GateObeys`), `AllSettles` |
| `node` | four nodes: two inputs in one frame, two thermometers, an SHT11, an SCD41 | `NoLostReport`, `ValuesTrue` (`NotAnothersTemperature`, `PowerWhileConverting`, `FailureShown`, `RecoveringIsInvalid`), `InputsHeard` (`NoiseFiltered`, `InputReachesBus`), `SensorsRecover` (`OwAnswers`, `RoundsGoOn`, `ShtRecovers`, `ScdRecovers`) |
| `dead_sensor`, `boiler_automatic_off`, `boiler_request_lost` | as above | disagreements, section 6 |

Each run checks the type invariants of its modules, except those of `CanOutputs`, `Kurenie` and
`Boiler`, which are only proved; the others are checked and proved.

**Parts.** Components that share nothing are checked in one run: a variable
`part` (`conf` in the node, `focus` in the boiler) is chosen in the initial state and
only that component moves. The state space is the sum of theirs, not the
product, and a property of one is not about the others. Where they do share
something - marks and frames of a node, the OpenTherm thread, the socket - they
are in the same behaviour. Weak fairness of the disjunction of the parts' steps is
weak fairness of the one that can step.

**Bounds.** Two frames give a first and a later one; a frame of two items gives
a change of one while the other is under way. `RxBound` (2) limits the receive
queue to an echo and a foreign frame. The ring of the valve is complete. `Trip` and
`MaxErr` are one cycle instead of 24 and 90: the code only compares with them;
the proofs hold for all values. Three sensors are the fewest with which a
late answer can be taken for another sensor's. `MaxOff` 2 instead of the code's
limit: the counter is only incremented and compared. Histories saturate just
above these bounds. Codes of three bits have forks at every depth, and the four valid ones
differ in two bits, as a CRC makes them; one triplet is misread per search (`Misreads`).
One operation is taken over between two idle states of the PRU (`MaxTakings`), which
leaves every state of a slot behind. A data bit and its start and stop bits
contain both kinds of edges of Manchester code. `MaxPackets` (2) and the countdown of one
tick keep the order of tick, attempt and failure. `MaxWire` (3): a press, its echo
and a foreign command under way. `MaxStops` (2) stops of a meter between two new totals. `MaxPresses` (3) per episode, of three wired
buttons on two sides. `MaxQueued` (2) completions of the dimmer's timer. Two pages of three frames have a first, a middle and
a last frame; two faults of any kind per upload (`MaxFaults`). The node's
`Debounce`, `ErrMax`, `WaitMax`, `SkipFirst` and the widths of its
counters (`CountMod`, `ErrWidth`) are as small as keeps them distinct, so that
overflow comes within reach. `Unstable`: the node with inputs is the one that loses power and gets
commands while it runs; `Prompt`: the sensors' frames leave before their next step, since
their second-long cycles are longer than the bus takes, while the inputs' frames wait for any time.

**Assumptions**, each a parameter or a guard so that its effect can be seen:
* `MaxSlip = 1`: the shaft is at most one sector past what the mover has
  read, and coasts at most that far; with 2, an edge of the absolute mark is read
  after the port that follows it and `BeliefIsTrue` fails.
* `MaxLate`: with three sensors a reader five or more answers behind (stalled for
  over 400 ms) breaks `NotMixedUp`. `StaleIsLogged` excludes rounds in which
  the client gave up on an answer that was still to come (`tardy`), since such an
  answer can stand in for the one an unanswered write of `convert` never gets.
  `Rested`: the 750 ms sleep after `convert` lets the reader catch up.
* One-wire commands of the configuration tool come before the node runs. Of those
  for the SCD41 (`CmdSCD41Test`), starting (0/2) and disabling (0/0) come at any time; enabling (0/1) and those that put a
  transfer of their own on the bus (1, 2, 5, 6, 7) come to a disabled sensor only, and are over before it is started.
* The 16-bit timer of the ventilation unit does not wrap between two looks at it.
* The gate is back (its timer is seconds) before the client connects again (60 s).
* A node in its bootloader handles a frame before the next is on the bus, and its
  page checksum tells pages apart.
* A channel's voltage stays while the ventilation unit averages it, and one sample
  in the window of a median is disturbed at most: what a median is for.
* A frame to or from the ventilation unit takes less than half a second.

**Conditions in the properties.** `FloorProtected` excludes an explicit water
override (the user's) and a floor override that precedes the first cycle: it
is stamped `time_point::min()`, so that the trip time counts as over.
`ColdRoomHeats` excludes the floor, which is normally closed and, in the
default state, never opens by itself: set alone, it is never heated.
`HeatHasWay` excludes overrides of the main room and of the water, one that precedes the first cycle
included. It demands the full trip time of a room that takes over; a room
that was the main one already heats at once through a valve that may still be opening, at the
start, after an override and, the floor, after a rest, and of such a room it demands that the valve has
been opening ever since. `TopicIsTrue` starts with the first publication,
since the retained topic of an earlier process stays at the broker. A broken room sensor
is admitted in `Kurenie` as one reading of NaN, although the chain below never
delivers it (section 6); a hot floor inlet takes the same path and does occur.
`ClientRight` excludes the overlap of a publish and a disconnect. `MeterKept` allows each stop what it may
cost - the least difference that is stored, the impulse under way, the digits of the file - and
excludes, until the next new total, a total that is spoilt: the new one came within the increment of `impCount`, or
a stop found the file exposed (truncated, without the new total, or written by both threads);
in these the code does lose (section 6). `GateObeys`, `PressHolds` and
`Agreed` exclude what a lost publish or an unretained command leaves behind.
`PressesClick` lets a press on a double switch be answered by the button of its side that is pressed after it, which
takes its place (section 6). `LongIsHeld` excludes frames that bring changes of several buttons together.
`FlashedAsSent` excludes a page of which the power or the application took something between the node's
answer with its sum and its flashing, and a foreign frame that the tool takes for the answer it waits for.
`RecoveringIsInvalid` excludes an SCD41 that was started by command over a value, until something is read.
`BeliefIsTrue` excludes what follows a stop during a movement (`anchored`). `NoLostUpdate` starts anew with the daemon:
what the node still holds from before a restart is not known to it.

**Fairness.** Weak fairness of what the code runs unconditionally: asio
delivers what was received and the kernel sends what it was given (`CanOutputs`),
the node's main loop and timers, the mover's waits have deadlines (`Ventil4w`), the 20 s
timer (`Kurenie`), the PRU loop and the daemon's threads (`OneWire`, `Boiler`,
`RoomSensor`, `SlowPwm`, `Reku`), asio's timers. Strong fairness for three handlers of `MqttClient`
(the write wait's, the read wait's on a broken connection, the tick): each is
enabled whenever the io thread is between two handlers, and the io context serves
ready handlers in the order they became ready, so none is overtaken for ever. Nothing is
assumed of messages, of the motor, of the boiler, of sensors or of faults,
except where a property says so itself: `PumpStops` (the flame keeps going out),
`BoilerObeys` (the boiler hears the set-point again and again), `AllSettles`
and `Recovers` (faults and commands are over), `OtAnswers` (now and then two polls agree),
`ShtRecovers` and `ScdRecovers` (the line is no longer disturbed).

## 4. What is proved

The proofs hold for every value of the constants that satisfies the named
assumptions of the modules (`...Assumption`). Each module proves that an
inductive invariant, checked with TLC first, holds from `Init` on and through every action,
and derives the theorems from it. `PROJECT.json` lists the theorems; the
argument of each module:

* **`CanOutputsProofs`**: `TypeOK`, `UpdatesKept`, `OneInFlight`, and that
  `CanOutputs` implements `LatestValue` (`SnapshotsInOrder`). An item whose frame is
  neither marked nor under way has been handed over as it is: `NoLostUpdate` is inductive
  beside the types, `OneInFlight` beside them. For the refinement the abstract channel is the
  node's receive object followed by the socket, and every step is a
  snapshot, a loss, a delivery or a stutter.
* **`KurenieProofs`**: `TypeOK`, `FloorProtected`, `ErrorIsSafe`, `HeatHasWay`. The
  daemon's own `age` of the floor valve is a lower bound of `shut`, the time it has really been
  without power, so what the code decides from `age` is safe. Likewise `age` of a valve that is commanded open, unless it was
  overridden before the first cycle, is a lower bound of `flow`; a room that takes over has the trip time by `age`, and
  what keeps a room the main one keeps its valve open.
* **`BoilerProofs`**: `TypeOK`, `PumpConsistent`. For every line at which a thread may
  stand, what it has read still holds, unless the other one was in `Pumpa` too (`overlap`).
* **`Ventil4wProofs`**: `TypeOK` and `FileAgrees` for any number of edges the mover may be behind
  (the file follows what is believed at rest, is absent while the shaft homes, and is not
  wrong yet before a movement), and `PositionHolds` for `MaxSlip = 1`. Its invariant is about the sector
  the mover has *seen*: an unread edge is the one between it and the shaft (`EdgeWaits`); past the
  absolute mark the next port is the first (`HomeNext`); a movement has one or two ports to go and they lead to
  the target (`OnTheWay`); the mark has been seen exactly in the sectors behind it, and a mover that
  knew where it started is between its port and the next (`Travelled`).
* **`HouseProofs`**: the parts of the house, each with an invariant of its own.
  *Slow PWM*: a channel that is on has its pulse end ahead or none, one that is off has it
  behind; the worker waits only when outputs and values agree; the earliest deadline exists (`WFMin`).
  *Lights*: whoever is subscribed has a timer; the last level that was not zero is the target or the remembered one.
  *MQTT*: the pending-write flag has one of four holders; the object goes with the socket except inside `on_disconnect`.
  *Ventilation*: published values and fan commands age with the time they carry (`ValuesInTime`, `FansWatched`).
  *Switches*: a marked button has its handler queued, clicks are counted against presses by handlers still to come, a press that is owed its click
  has its side marked with the newest press of it, and a lone press has one story from press to click
  (`MarksHaveHandlers`, `PressesCounted`, `PressesAnswered`, `OneByOne`, `SoloStory`).
  *Devices*: the link carries the messages in order, so that the press is the last of them (`LinkCarries`,
  `PressIsLast`, `TakenBack`, `BroughtIsNew`). *Bootloader*: each page is gathered in order from awake nodes
  and flashed before the next (`NodeAwake`, `PageInOrder`, `PageFlashed`).
  `HouseInvariance` composes them: a part moves by its own steps only, so that the conjunction of
  the seven invariants is one (`EachByItself`).
* **`MeasuredProofs`**: likewise for what is measured. *Sensor*: the value the heating has is the last
  one that made sense, the ring is the last readings (`ValueIsGood`, `RingIsSeen`). *Converter*: the
  window holds samples of the channel whose turn it is, and a median of three with one disturbed is between the other
  two (`MedianRight`). *Fans*: the window is of the old speed, mixed or of the new one
  (`OldWindow`, `OddWindow`, `PulseWindow`). The proof showed two things TLC's bounds had hidden: three, not
  two, of the longest windows may pass before a period is right, and a fan so slow that a window ends
  between two of its pulses is taken as standing; `TachoTrue` says so now. *Meters*:
  what is in memory is the true total less what the stops have cost, at each line of either thread with what it has
  read; the file fits whenever nobody writes it, and an event that has the meter for itself mends what an overlap left.
  *Water*: closings are counted after quiet openings, for any quiet time.
* **`AvrNodeProofs`**: `TypeOK`, `NoLostReport`, `ValuesTrue`, and `NoiseFiltered` (a part of
  `InputsHeard`), for any set of objects and sensors. Before a node runs, everything
  is marked or unreported; the bit driver does what the machine above it asked for and
  nothing else, so an answer is that of the sensor whose turn it is; the strong power
  follows the last bit of the convert command; a failed SHT11 measurement is on
  its way through the reset that shows it; an SCD41, unless a command started it over a value, is started with its errors forgotten or its
  value invalid; a pin's counter is not ahead of the ticks it has differed for. Each part
  is shown to keep its own invariant, and to find its data as it left them while others move.
* **`PruProofs`**: what hangs on the PRU, with a machine for each bus. *Measurement*: the answers that the
  client has not taken are counted (`Behind`), and a temperature stands at least four answers behind the
  reset of its own transaction, in order (`InOrder`). So one of another sensor's transaction is thrown away before
  a read takes it, as long as the reader is no more than four answers behind: `RoundsTrue` for `MaxLate <= 4`,
  any number of sensors. That the round is this one's follows from the command the sensors
  heard last (`AskedToConvert`, `Converted`), unless an error was logged. *Search*: the codes found are those that
  come no later than the last one in the order in which the passes take the branches, the last fork is
  the deepest at which the other branch has codes left (`LastFork`), and two codes have a
  first bit in which they differ, which is the least element of a well-founded order. *One-wire
  firmware*: what each state takes for granted, also in an operation that was taken over (`Machine`); one slot per bit, and the
  pull-up asked for in the last (`Slotted`); on a sound wire the time within a slot and the sensor's level, so that the bits
  that are over are those of the slots (`Seen`). *OpenTherm firmware*: what has been sent is the prefix of the
  request that the index says (`WrittenSoFar`, `IndexRight`), and answers are counted against
  accepted commands (`AnsweredOnce`). A frame being read: the machine is in step with the boiler, its clock
  running since the middle of the last bit, within the jitter (`InStep`), or it has missed an edge (`Trailing`); then
  the edges it takes are at least two half bits apart, and the frame ends before it has taken enough of them to
  answer `ok`. That makes `FramesSound` a theorem for frames of any length. `PruInvariance` composes the four.

Every invariant that a passing run checks is also a theorem, and so is every action property. Only model-checked are:
* all liveness: `MovementEnds`, `AllEnds`, `Recovers`, `PumpStops`, `AllSettles`, and what rests on it in `SensorSeen`, `BoilerServed`, `OutputsServed`, `HeatsAndRecovers`,
  `InputsHeard` and `SensorsRecover`: the prover has neither fairness nor `ENABLED`;
* what a fold or a recursion computes for every input, which needs induction over data. The sum of a
  window in `RekuMeas` is such a fold; its proof relates it to the samples step by step instead.

## 5. Not modelled, and what is left

* `Event.h` and `Subscription.h`: a list under a lock, filled while the program is built up and only
  notified afterwards; a notification is part of the action that makes it (`RoomSensor`). The single-threaded
  event, whose subscribers come and go, is in `Dimmer`.
* `AppContainer.cpp`, `builder.cpp` and the configuration reader: they run once and only connect objects.
  What a wrong wiring does is in section 6.
* The stand-alone PWM node (`avr/pwm`): a command interpreter without concurrency
  over raw registers.
* Digital outputs, interface selection, utilities: single writes.
* Configuration tools, deployment scripts, simulators: run by hand, for development. The upload
  tool is the exception (`Bootloader`).
* The AVR node's PWM outputs, statistics and test commands; the reads and bits of `OpenTherm` that are only
  published; the published power and flow of the meters.

Next, in this order: that `OneWire`'s PRU is
implemented by `PruOneWire`, which now is only argued (section 2); and a composition of `RoomSensor`, `Kurenie`
and `Boiler`, which now meet only in their interfaces: a temperature class, and a set-point.

## 6. What the code does otherwise

Three statements of the repository are refuted by runs that expect it:

* `dead_sensor`: `SimpleSensor.cpp:34` and `Kurenie.cpp:255` treat NaN as a broken
  sensor; `kurenieHW.cpp:118` passes NaN on after more than three in a row, of which the filter
  below delivers one at most, so a dead sensor keeps its last temperature for ever.
* `boiler_automatic_off`: a start between the switching off and the reset of the counter
  (`Pumpa.cpp:20-35`) leaves a pump running that never stops by itself.
* `boiler_request_lost`: a request accepted while another is under way is cleared with it
  (`OpenTherm.cpp:102`), although it was answered `ok_async`.

The models also show the following, which nothing in the repository contradicts.
They are in the models, and the properties above are stated around them.

*CAN and nodes.* A failed write leaves `pending` set for good (`canbus.cpp:114`). A
restarted node has neither its pins nor its stage until somebody sends them (`candata.cpp:79`). A
never-ready SCD41 is never recovered, because each relaxing clears `waitReadyCount`
(`avr/fw/main.cpp:1383`). A broadcast in the 8 s after a start keeps a node in its
bootloader, and one during a download becomes data. The upload tool
takes any frame that looks like it for the answer, whoever sent it, and waits without a time-out
(`run.py:128-137`); a node that loses power, or runs its application on the same RAM, between
the check and the flash command writes what its RAM holds (`bootloader.cpp:21`). A restarted daemon has all outputs false and sends no false that nodes
should still hear (`AppContainer.cpp:69`). An SCD41 started by command again and again while it measures refuses, is counted
as failing and recovered with its old value still shown. The other commands of `CmdSCD41Test` leave the sensor's machine without
an answer, or with the answer to something else, when they come in the middle of a transfer.

*Heating.* A main room that is kept heats through a valve that may still be opening: calc asks `isOpened`
only of the rooms that might take over (`Kurenie.cpp:124-149`). Set-points over 255 degrees wrap, and NaN converts to anything (`OpenTherm.cpp:38`).

*Ventilation.* `Reku.cpp:61` uses the intake's percentage for the exhaust; the summer mode is
never set. A failed write ends the thread. `timeout_cnt` is only logged. A freshly
powered unit announces 105 degrees until its first average.

*Switches, lights, gate.* `builder.cpp:317-318` binds two corridor switches to
inputs that two others use, so two lights have no wall button. A set that
meets a stale echo of the same value is dropped. What is published while the client is
disconnected is lost, and reconnecting brings the older retained state: a light
reverts, a gate may move again. An unretained command leaves an older retained one. Frames that bring
several changes can misname a click; on a double switch a second press of a side takes the place of the first, of which
no click then tells (`Vypinace.cpp:88-89`). Expired ramp timers that wait together finish
a ramp at once; a ramp set to the level it has reached stays subscribed; one of NaN never ends.

*Meters.* `event`, `setNewValue` and `store` share members without a lock: a new total that comes within the
increment of `impCount` is too high by the old count, and stores that overlap leave the older total in the file. A truncated file starts the total at zero, and the delta rule is off until the
first hour passes. Six digits are stored. The gas meter is not stored at exit.

*MQTT.* A publish that races `on_disconnect` ends the program; after an early
reconnect an aborted write handler leaves CONNECT unsent until the next tick; asio closes a
descriptor that mosquitto has closed.

## 7. Running

    tlc -config CanOutputs_safety.cfg MCCanOutputs.tla      # and so on, see PROJECT.json
    tlapm CanOutputsProofs.tla                              # likewise Kurenie-, Boiler-, Ventil4w-,
                                                            # House-, Measured-, Pru-, AvrNodeProofs
