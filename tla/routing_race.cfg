SPECIFICATION RoutingSpec
CONSTANTS
  Tickets = {t1, t2, t3}
  Agents <- MCAgents
  Team = Team
  Members <- MCMembers
  Rules <- MCRules
  Cap = 1
  Routers = {r1, r2}
  MaxPeopleActs = 1
  MaxFaults = 1
SYMMETRY MCSymmetry
INVARIANTS OvershootBounded OneVerdict RemovedHoldsNothing
PROPERTY RoutersTakeFromNobody
CHECK_DEADLOCK FALSE
