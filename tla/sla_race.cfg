CONSTANTS
  w1 = w1  w2 = w2
  Workers = {w1, w2}
  Window <- MCWindow
  MaxPause = 1
  MaxTime = 2
  MaxActs = 2
SPECIFICATION FairSpec
INVARIANTS DeadlineAccounted BreachedOnce LostJobBreachesNothing SerialEvaluationsConverge
PROPERTY OverdueIsJudged
CHECK_DEADLOCK FALSE
