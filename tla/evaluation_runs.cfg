CONSTANTS
  t1 = t1
  Agents = {a1}
  Versions = {1}
  s1 = s1
  Suites = {s1, s2}
  CasesOf <- MCCases
  Thresholds <- OneThreshold
  EvalRuns = {r1}
  Processes = {p1, p2}
  Capacity = 1
  Tools = {t1}
  MaxEdits = 2
  MaxRevision = 2
  MaxFaults = 2
SPECIFICATION FairEvaluationSpec
INVARIANTS
  ClaimedOnce
  VerdictFromAllCases
  CancelledHasNoVerdict
PROPERTIES
  EndIsFinal
  EveryRunEnds
CHECK_DEADLOCK FALSE
