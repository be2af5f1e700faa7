\* Two frames of one item each; no faults, nodes that keep up.
SPECIFICATION FairSpec
CONSTANTS
  i1 = i1
  i2 = i2
  i3 = i3
  Items <- MCTwoItems
  NFrames = 2
  FrameOf <- MCTwoFrameOf
  Values = {0, 1}
  Off = 0
  None = None
  RxBound = 2
  NodeKeepsUp = TRUE
  BusFaults = FALSE
PROPERTY OutputsServed
