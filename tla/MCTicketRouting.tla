--------------------------- MODULE MCTicketRouting ---------------------------
(* Instances of TicketRouting: two agents, of whom one is the target of the  *)
(* first rule and the other the only member of the team of the second.       *)
EXTENDS TicketRouting, TLC

MCAgents == {1, 2}
MCMembers == {2}
MCRules == <<1, Team>>
MCSymmetry == Permutations(Tickets) \cup Permutations(Routers)
==============================================================================
