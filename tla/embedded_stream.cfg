CONSTANTS
  Runs = {r1}
  Processes = {p1, p2}
  LogLength = 2
  MaxDeltas = 2
  MaxFaults = 1
SPECIFICATION Spec
INVARIANTS StreamTellsOutcome AnswerInOrder
PROPERTIES KeepsLifecycle EveryRunEnds EveryStreamEnds
