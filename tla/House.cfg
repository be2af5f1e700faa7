\* Time in half seconds (ventilation), slots and 250 ms; the countdown of a
\* minute is one tick; a page has three frames.
SPECIFICATION MCSpec
CONSTANTS
  Flows = {30, 100}
  Failsafe = 64
  NaN = NaN
  PollOk = 2
  PollLost = 1
  CommTimeout = 3
  Watchdog = 5
  Heads = {h1, h2}
  Switched = {d1}
  Nrts = 3
  AllButtons = {"LU", "LD", "RU"}
  Press = 2
  MaxPresses = 3
  Lights = {l1, l2}
  Targets = {0, 1, 3}
  FirstOn = 2
  Steps = {1, 2}
  MaxQueued = 2
  Countdown = 1
  MaxPackets = 2
  MaxWire = 3
  NotRetained = NotRetained
  Pages = 2
  Chunks = 3
  MaxFaults = 2
  Junk = Junk
  NoFrame = NoFrame
  h1 = h1
  h2 = h2
  d1 = d1
  l1 = l1
  l2 = l2
INVARIANTS HouseTypeOK VentilationFresh OutputsRight ClicksRight LightsRight ClientRight FlashedAsSent
PROPERTIES DevicesObey AllSettles
\* The outputs and a client that has given up stop.
CHECK_DEADLOCK FALSE
