CONSTANTS
  MaxOff = 2
  Temps = {0}
  NaN = NaN
  Junk = {0}
  Requests = {}
  PumpMsgs = {"start", "stop"}
  None = None
SPECIFICATION Spec
INVARIANT AutomaticOff
