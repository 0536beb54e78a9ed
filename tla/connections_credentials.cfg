CONSTANTS
  Personal = me
  OrgRows = {o1, o2}
  Refs = {f1, f2, f3}
  NoRef = NoRef
  States = {s1}
  Requests = {q1, q2}
SPECIFICATION Spec
SYMMETRY Symmetry
INVARIANTS
  TypeOK
  ActiveHasSecret
  RevocationIsRemembered
CHECK_DEADLOCK FALSE
