SPECIFICATION RaceSpec
CONSTANTS
  Session = {s1, s2}
  Period = {p1}
  Contract = {k1}
  Pool = {}
  Amount = {1}
  NoSession = NoSession
  NotLoaded = NotLoaded
  MaxEntries = 2
  LastPeriods = {p1, p2}
  Rate = f1
  Clerk = s3
  Contracts = {k1, k2}
SYMMETRY SessionSymmetry
PROPERTY CloseTies
