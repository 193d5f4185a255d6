CONSTANTS
  i1 = i1  i2 = i2  i3 = i3  o1 = o1  o2 = o2  f1 = f1
  Inbound = {i1, i2}
  Foreign = {f1}
  Sends = {o1, o2}
  Window = 2
  MaxTime = 4
SPECIFICATION Spec
SYMMETRY ThreadSymmetry
INVARIANTS UnreadIsExact FreeFormInWindow WindowLostToLaterRow
CHECK_DEADLOCK FALSE
