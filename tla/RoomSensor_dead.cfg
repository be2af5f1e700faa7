CONSTANTS
  Raws = {320, 1352, 1360, 2400}
  Invalid = Invalid
  NaN = NaN
  Cnt = 3
SPECIFICATION FairSpec
PROPERTY DeadSensorReported
