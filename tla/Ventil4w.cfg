\* One edge of slip: the shaft coasts or runs at most one sector past what the mover has seen.
SPECIFICATION FairSpec
CONSTANTS
  None = None
  Garbage = Garbage
  Moving = Moving
  Error = Error
  MaxSlip = 1
INVARIANTS TypeOK PositionHolds
PROPERTY MovementEnds
