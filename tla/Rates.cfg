SPECIFICATION Spec
CONSTANTS
  Session = {s1, s2}
  Pool = {1, 2, 3}
  Name <- TwoFringeOneOverhead
  Version = {v1, v2}
  NoSession = NoSession
  NotLoaded = NotLoaded
  NoPool = NoPool
  None = None
  MaxOperations = 4
SYMMETRY Symmetry
INVARIANTS OneInForce RunExplainsRate
PROPERTIES InForceStays LockedRateStays SettledRateUsed
