\* Two frames, one of two items; reads and writes may fail, a node may miss frames.
SPECIFICATION Spec
CONSTANTS
  i1 = i1
  i2 = i2
  i3 = i3
  Items <- MCItems
  NFrames = 2
  FrameOf <- MCFrameOf
  Values = {0, 1}
  Off = 0
  None = None
  RxBound = 2
  NodeKeepsUp = FALSE
  BusFaults = TRUE
INVARIANTS UpdatesKept OneInFlight
PROPERTY SnapshotsInOrder
