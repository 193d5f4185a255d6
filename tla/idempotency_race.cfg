CONSTANTS
  r1 = r1  r2 = r2  r3 = r3  r4 = r4  b1 = b1  b2 = b2
  NoRequest = NoRequest
  Requests = {r1, r2, r3, r4}
  Bodies = {b1, b2}
  HashOf <- MCHashOf
  ClaimAttempts = 2
  MaxFaults = 2
  MaxExpiries = 2
SPECIFICATION Spec
INVARIANTS OneAtWork ReplayIsFaithful RepeatNeedsFault
CHECK_DEADLOCK FALSE
