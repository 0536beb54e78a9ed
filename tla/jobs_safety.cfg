CONSTANTS
  c1 = c1
  Survivor = w1
  Runs = {r1}
  Workers = {w1, w2}
  Conversations = {c1}
  ConversationOf <- Together
  MaxAttempts = 3
  LeaseTicks = 2
  MaxYields = 1
SPECIFICATION FairSpec
INVARIANTS
  AtMostOnceExecution
  JobRunAgreement
  AttemptLedger
  LeaseFencing
  QueuedRunHasNoStep
PROPERTIES
  TerminalIsFinal
  CancellationHolds
  ImplementsLifecycle
  RunTerminates
CHECK_DEADLOCK FALSE
