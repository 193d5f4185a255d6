CONSTANTS
  e1 = e1  e2 = e2  m1 = m1  m2 = m2  w1 = w1  w2 = w2
  NoEvent = NoEvent  NoWorker = NoWorker
  Events = {e1}
  Messages = {m1, m2}
  Workers = {w1, w2}
  Payload <- MCOne
  Malformed = {}
  MaxAttempts = 2
  SweepBatch = 1
  MaxSwept = 1
  MaxFaults = 2
  MaxActs = 1
SPECIFICATION Spec
SYMMETRY WorkerSymmetry
INVARIANTS ProcessedMeansRecorded ProcessedMeansTriggered
PROPERTY InboxSteps
CHECK_DEADLOCK FALSE
