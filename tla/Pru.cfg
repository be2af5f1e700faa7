\* Three sensors, a wire that may fail, a reader that may be four answers
\* behind; codes of three bits; operations of two bits; a frame of one bit.
SPECIFICATION MCSpec
CONSTANTS
  NSensors = 3
  None = None
  MaxLate = 3
  BusFaults = TRUE
  RomBits = 3
  Valid <- MCValid
  Predefined <- MCPredefined
  Misreads = 1
  OwCounts = {2}
  Taking = TRUE
  MaxTakings = 1
  OtBits = 1
  Half = 3
  CapMin = 5
  CapMax = 8
  WaitGap = 2
  Response = 8
  ErrorGap = 9
  ErrorFrame = 11
  SlaveGap = 3
  Jitter = 1
INVARIANTS PruTypeOK RoundsTrue SearchTrue PruSound
PROPERTIES FramesSound AllEnds Recovers
\* A daemon that runs does not search again.
CHECK_DEADLOCK FALSE
