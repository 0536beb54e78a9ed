CONSTANTS
  Personal = me
  OrgRows = {o1, o2}
  Refs = {f1, f2, f3}
  NoRef = NoRef
  States = {s1, s2}
  Requests = {q1, q2}
SPECIFICATION Spec
SYMMETRY Symmetry
INVARIANT
  ActiveIsConsented
CHECK_DEADLOCK FALSE
