\* One room and the floor; overrides of the floor valve and of the water; the
\* unset pwm values happen to be 100.
SPECIFICATION FairSpec
CONSTANTS
  NRooms = 2
  First = 0
  Unset = Unset
  Trip = 1
  MaxErr = 1
  Garbage = {100}
  Drifts = {50}
  Overridden = {1}
  Ceilings = {60}
INVARIANTS FloorProtected ErrorIsSafe HeatHasWay
PROPERTY HeatsAndRecovers
