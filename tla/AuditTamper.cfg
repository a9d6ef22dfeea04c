SPECIFICATION TamperSpec
CONSTANTS
  Session = {s1, s2}
  Record = {1, 2}
  Column = {c1}
  Value = {v0, v1}
  Seed = v0
  NoSession = NoSession
  NotLoaded = NotLoaded
  MaxRows = 3
  Intact = Intact
INVARIANT EditLocated
PROPERTY TransactionsEnd
