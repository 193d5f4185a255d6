CONSTANTS
  o1 = o1  o2 = o2  d1 = d1  d2 = d2
  Msgs = {o1}
  Dispatchers = {d1}
  NoMsg = NoMsg  NoDispatcher = NoDispatcher  NoPid = NoPid
  MaxAttempts = 3
  MaxAccepts = 1
  MaxHits = 0
  MaxActs = 0
SPECIFICATION Spec
INVARIANT FailedMeansNotAccepted
CHECK_DEADLOCK FALSE
