\* Two inputs with a debounce of one tick; two thermometers; bytes of two bits.
SPECIFICATION FairSpec
CONSTANTS
  d1 = d1
  d2 = d2
  t1 = t1
  t2 = t2
  ht = ht
  co2 = co2
  m1 = m1
  m2 = m2
  m3 = m3
  Commands = {"init2", "running"}
  Objs <- MCObjs
  Confs <- MCConfs
  MobOf <- MCMobOf
  Readings = {0, 1, 11, 21}
  Invalid = Invalid
  None = None
  Inputs = {d1, d2}
  Debounce = 1
  CountMod = 4
  Therms <- MCTherms
  TempsOf <- MCTempsOf
  Bits = 2
  Sht = ht
  ShtValues = {1}
  NBits = 1
  NClear = 2
  Scd = co2
  ScdValues = {1}
  SkipFirst = 1
  WaitMax = 1
  ErrMax = 2
  MeasLen = 2
  ErrWidth = 4
  Prompt = {m2, m3}
  Unstable <- MCUnstable
INVARIANTS TypeOK NoLostReport ValuesTrue
PROPERTIES InputsHeard SensorsRecover
