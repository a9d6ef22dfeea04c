SPECIFICATION Spec
CONSTANTS
  Session = {s1, s2}
  Record = {1, 2}
  Column = {c1, c2}
  Value = {v0, v1}
  Seed = v0
  NoSession = NoSession
  NotLoaded = NotLoaded
  MaxRows = 3
SYMMETRY SessionSymmetry
INVARIANTS TypeOK ChainVerifies TrailReplaysData DeadlockNeedsSecondFlush
PROPERTY AppendsOnly
