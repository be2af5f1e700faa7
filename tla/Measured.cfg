\* Two medians of three make an average; time in 150 ms (tachometer) and
\* half of the 400 ms (water).
SPECIFICATION MCSpec
CONSTANTS
  Raws = {320, 1352, 1360, 2400}
  Invalid = Invalid
  NaN = NaN
  Cnt = 3
  Adc = {0, 1, 3}
  MedBufSize = 3
  AvgCount = 2
  SumMod = 8
  Speeds = {0, 1, 2, 4}
  TachoWindow = 3
  TachoStill = 6
  NoTemp = NoTemp
  MinDelta = 2
  Grain = 3
  NewTotals = {0, 4}
  MaxTotal = 10
  MaxStops = 2
  Quiet = 2
INVARIANTS MeasuredTypeOK UnitMeasures MeterKept
PROPERTIES SensorSeen WaterCounted
