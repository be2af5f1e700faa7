\* Two offs to the stop; two set-points, one beyond a byte; two requests.
SPECIFICATION MCSpec
CONSTANTS
  MaxOff = 2
  Temps = {40, 300}
  NaN = NaN
  Junk = {0, 7}
  Requests = {q1, q2}
  PumpMsgs = {"start", "stop"}
  None = None
INVARIANT PumpConsistent
PROPERTIES PumpStops BoilerServed
