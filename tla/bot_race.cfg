CONSTANTS
  m1 = m1  m2 = m2  m3 = m3  w1 = w1  w2 = w2
  NoMessage = NoMessage
  Messages = {m1, m2}
  Workers = {w1, w2}
  MaxBotTurns = 1
  MaxTries = 2
  MaxFaults = 1
  MaxActs = 1
SPECIFICATION BotSpec
INVARIANTS OneReplyOnRecord SequentialTurnsBounded HalfDoneNeedsFault
PROPERTY HumanKeepsThread
CHECK_DEADLOCK FALSE
