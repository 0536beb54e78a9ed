CONSTANTS
  Users = {u1, u2, u3}
  MemberIds = {m1, m2, m3}
  Requests = {q1, q2}
  Unused = Unused
  Gone = Gone
SPECIFICATION Spec
SYMMETRY Symmetry
INVARIANTS
  AdministratorRemains
CHECK_DEADLOCK FALSE
