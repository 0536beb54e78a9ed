CONSTANTS
  Agents = {a1}
  Versions = {1, 2}
  Suites = {s1}
  CasesOf <- OneCase
  Thresholds <- AllPass
  EvalRuns = {e1}
  Processes = {p1}
  Capacity = 1
  Tools = {}
  MaxEdits = 1
  MaxRevision = 2
  MaxFaults = 0
  Configs = {c1, c2}
  Requests = {q1, q2}
  Keys = {}
  NoKey = NoKey
  NoEvaluation = NoEvaluation
  NoRequest = NoRequest
  GateMode = "required"
  Production = FALSE
  MaxDrafts = 2
  MaxReleases = 3
SPECIFICATION Spec
SYMMETRY RequestSymmetry
INVARIANTS
  ReleaseHasEvidence
  ControlTypeOK
  ReleasesFormHistory
PROPERTIES
  PolicyInForce
CHECK_DEADLOCK FALSE
