SPECIFICATION Spec
CONSTANTS
  Session = {s1, s2}
  NoSession = NoSession
  NotLoaded = NotLoaded
  Absent = Absent
  None = None
  NoMatch = NoMatch
  MaxCalls <- MCMaxCalls
  Point = {"t_7"}
  Task = {"k1"}
  DaysBefore <- MCDaysBefore
  Window = {9}
  Day = {3, 7}
  Assumptions <- MCAssumptions
  Posting = {"t1", "t2"}
  BaselineValue <- MCBaselineValue
  Matches <- MCMatches
  InWindow = {"t1", "t2"}
  PostingAmount <- MCPostingAmount
  MaterialityThreshold = 1
  MaxVersions = 4
  Treatment = {"direct", "indirect"}
  ItemAmount <- MCItemAmount
  Threshold <- MCThreshold
  Receipt = {1, 2}
  Paid <- MCPaid
  Spent = {3}
  Corrected = {1}
  Cap = 3
  PerDiem = 2
  Suggestion = {"a1", "a2", "b1"}
  Target <- MCTarget
  Documents <- MCDocuments
  Malformed = "bad"
SYMMETRY SessionSymmetry
INVARIANT ScanSurvivesClash
CHECK_DEADLOCK FALSE
