CONSTANTS
  s1 = s1  s2 = s2  r1 = r1  v1 = v1  v2 = v2  k1 = k1
  Sessions = {s1, s2}
  Requests = {r1}
  Revokers = {v1, v2}
  Sockets = {k1}
  NoSession = NoSession
  MaxRevocations = 2
  MaxFaults = 1
SPECIFICATION Spec
SYMMETRY Symmetry
INVARIANTS StaleNeedsOvertaking OrphanNeedsOvertaking
PROPERTY RenewalNeedsOvertaking
