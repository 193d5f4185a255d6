CONSTANTS
  e1 = e1  e2 = e2  m1 = m1  m2 = m2  w1 = w1  w2 = w2
  NoEvent = NoEvent  NoWorker = NoWorker
  Events = {e1, e2}
  Messages = {m1, m2}
  Workers = {w1}
  Payload <- MCTwo
  Malformed = {e2}
  MaxAttempts = 1
  SweepBatch = 1
  MaxSwept = 1
  MaxFaults = 1
  MaxActs = 1
SPECIFICATION FairSpec
PROPERTY ImplementsInbox
CHECK_DEADLOCK FALSE
