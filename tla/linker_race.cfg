CONSTANTS
  m1 = m1  m2 = m2  l1 = l1  l2 = l2  a1 = a1  a2 = a2
  NoMessage = NoMessage
  Messages = {m1, m2}
  Linkers = {l1, l2}
  Writers = {a1, a2}
  MaxTickets = 3
  MaxLinkAttempts = 3
  MaxTries = 2
  MaxRepeats = 1
  MaxActs = 2
SPECIFICATION FairSpec
INVARIANTS OneActive SlaIsTold SecondTicketNeedsRepeat
PROPERTY EventuallyLinked
CHECK_DEADLOCK FALSE
