SPECIFICATION Spec
CONSTANTS
  Workflows <- MCWorkflows
  Trigger <- MCTrigger
  ActionCount <- MCActionCount
  Workers = {k1, k2}
  MaxChainDepth = 1
  Budget = 2
  MaxTries = 2
  MaxEvents = 3
  MaxActs = 1
  MaxFaults = 1
SYMMETRY Symmetry
INVARIANTS ActionsOnce RunawayBounded OpenRunNeedsCrash MissingReferenceDisarms OccurrenceLostNeedsFault
CHECK_DEADLOCK FALSE
