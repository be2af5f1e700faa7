CONSTANTS
  MaxOff = 0
  Temps = {40}
  NaN = NaN
  Junk = {0}
  Requests = {q1, q2}
  PumpMsgs = {}
  None = None
SPECIFICATION FairSpec
PROPERTY RequestNotLost
