CONSTANTS
  o1 = o1  o2 = o2  d1 = d1  d2 = d2
  Msgs = {o1}
  Dispatchers = {d1, d2}
  NoMsg = NoMsg  NoDispatcher = NoDispatcher  NoPid = NoPid
  MaxAttempts = 3
  MaxAccepts = 2
  MaxHits = 1
  MaxActs = 1
SPECIFICATION FairSpec
INVARIANTS ReceiptsStick SecondSendNeedsFault StuckNeedsFault
PROPERTIES StatusForward EventuallyDecided
CHECK_DEADLOCK FALSE
