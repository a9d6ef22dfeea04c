SPECIFICATION Spec
CONSTANTS
  Session = {s1}
  Pool = {1}
  Name <- OneFringe
  Version = {v1, v2}
  NoSession = NoSession
  NotLoaded = NotLoaded
  NoPool = NoPool
  None = None
  MaxOperations = 4
SYMMETRY Symmetry
INVARIANT SettledRateStays
