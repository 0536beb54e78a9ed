CONSTANTS
  u1 = u1
  u2 = u2
  r1 = r1
  r2 = r2
  r3 = r3
  org = org
  NoClient = NoClient
  Runs = {r1, r2}
  Users = {u1, u2}
  UserOf <- Asker
  Organization = org
  Clients = {a, b}
  LastDay = 1
  Reserved = 2
  Usage = {1, 3}
  DailyLimit <- Daily
  RateLimit = 2
  Slots <- Concurrent
  Faults = {"stall"}
SPECIFICATION Spec
SYMMETRY ClientSymmetry
INVARIANT NeverUndercharged
CHECK_DEADLOCK FALSE
