----------------------------- MODULE TicketRouting -----------------------------
(***************************************************************************)
(* Routing of new tickets to people: the assignment.route-ticket jobs, the *)
(* rule engine and the rotation it falls back to, by one router per API    *)
(* process, while people assign, release and finish tickets, agents come   *)
(* and go, and users are removed.  A router decides on readings and writes *)
(* later: only the write of an assignment re-checks that nobody holds the  *)
(* ticket.  Which rules a ticket matches is a free choice.                 *)
(***************************************************************************)
EXTENDS Integers, FiniteSets, Sequences, FiniteSetsExt

CONSTANTS Tickets,
          Agents,       \* ids of the agents, as numbers: rotation is in their order
          Team,         \* a team, as the target of a rule
          Members,      \* the agents in it
          Rules,        \* targets of the assignment rules, by position
          Cap,          \* concurrent tickets of an agent that rotation may fill
          Routers,      \* workers of the assignment queue, one per process
          MaxPeopleActs,\* bound: steps of people
          MaxFaults     \* bound: crashes and failed queries of a router

NoAgent == 0
ASSUME AgentsAssumption == Agents \subseteq Nat \ {NoAgent} /\ Members \subseteq Agents
ASSUME RulesAssumption == Team \notin Agents /\ Rules \in Seq(Agents \cup {Team})
ASSUME CapAssumption == Cap \in Nat \ {0} /\ MaxPeopleActs \in Nat /\ MaxFaults \in Nat
ASSUME FiniteAssumption == IsFiniteSet(Tickets) /\ IsFiniteSet(Routers)

VARIABLES
  ticket,   \* active, assigned user and team, routing_state, routing_deferred_since
  job,      \* the route job of each ticket: its id is held in every state but none
  router,   \* what each router is doing
  desk,     \* a request to assign that has passed its checks
  here,     \* agents that are available and seen
  removed,  \* agents whose account was removed
  cursor,   \* assignment_state.last_assigned_user_id of the tenant pool
  by,       \* the source of the last event of each ticket about its assignee
  deferrals,\* assignment_deferred events of each ticket
  crossed,  \* tickets taken while a router was deciding on them
  outdated, \* tickets given to a user who was removed after being looked up
  peopleActs, faults

routingVars == <<ticket, job, router, desk, here, removed, cursor, by, deferrals, crossed,
                 outdated, peopleActs, faults>>
events == <<by, deferrals>>
routingGhosts == <<crossed, outdated>>
peopleVars == <<here, removed>>
routingBounds == <<peopleActs, faults>>

RoutingStates == {"pending", "assigned", "deferred", "manual"}
Owners == Agents \cup {NoAgent}
Unowned == [user |-> NoAgent, team |-> FALSE]
Columns == [user : Owners, team : BOOLEAN]
RouterPCs == {"idle", "rules", "rotate", "advance", "applyRule", "applyRotation", "defer"}
IdleRouter == [pc |-> "idle", t |-> {}, to |-> Unowned]
NoRequest == [t |-> {}, to |-> Unowned]

(* Every ticket has just been created; the enqueueing of its routing job may *)
(* have failed (TicketQueueRunner.requestRouting).                           *)
RoutingInit ==
  /\ ticket = [t \in Tickets |-> [active |-> TRUE, user |-> NoAgent, team |-> FALSE,
                                  routing |-> "pending", since |-> 0]]
  /\ job \in [Tickets -> {"queued", "none"}]
  /\ router = [w \in Routers |-> IdleRouter]
  /\ desk = NoRequest
  /\ here \in SUBSET Agents /\ removed = {}
  /\ cursor = NoAgent
  /\ by = [t \in Tickets |-> "none"]
  /\ deferrals = [t \in Tickets |-> 0]
  /\ crossed = {} /\ outdated = {}
  /\ peopleActs = 0 /\ faults = 0

OwnerOf(t) == [user |-> ticket[t].user, team |-> ticket[t].team]
Load(a) == Cardinality({t \in Tickets : ticket[t].user = a /\ ticket[t].active})
SetTicket(t, r) == ticket' = [ticket EXCEPT ![t] = r]
SetRouter(w, s) == router' = [router EXCEPT ![w] = s]
RouterAt(w, pc) == router[w].pc = pc
WorksOn(w, t) == router[w].t = {t}
PeopleAct == peopleActs < MaxPeopleActs /\ peopleActs' = peopleActs + 1 /\ UNCHANGED faults
Fault == faults < MaxFaults /\ faults' = faults + 1 /\ UNCHANGED peopleActs

(* The routers at work on t, with decisions that a write to t now overtakes. *)
Crosses(t) == crossed \cup {u \in {t} : \E w \in Routers : WorksOn(w, u)}
(* A write that names a removed user.                                        *)
Outdates(t, to) == outdated \cup {u \in {t} : to.user \in removed}

(* The handler returned or failed: the job stays in the completed or the     *)
(* failed set, unless it was redelivered in the meantime.                    *)
Finish(w) ==
  /\ SetRouter(w, IdleRouter)
  /\ job' = [t \in Tickets |-> IF WorksOn(w, t) /\ job[t] = "running" THEN "held" ELSE job[t]]

-----------------------------------------------------------------------------
(* A routing job. *)

(* routeTicket, readTicket: what is finished or owned is skipped.            *)
RouteTicket(w, t) ==
  /\ RouterAt(w, "idle") /\ job[t] = "queued"
  /\ IF ticket[t].active /\ OwnerOf(t) = Unowned
     THEN /\ SetRouter(w, [IdleRouter EXCEPT !.pc = "rules", !.t = {t}])
          /\ job' = [job EXCEPT ![t] = "running"]
     ELSE /\ job' = [job EXCEPT ![t] = "held"]
          /\ UNCHANGED router
  /\ UNCHANGED <<ticket, desk, peopleVars, cursor, events, crossed, outdated, routingBounds>>

(* loadActiveRules: the removal of a user deactivated the rules that name it.*)
ActiveRules == {i \in DOMAIN Rules : Rules[i] \notin removed}
IsTargetUsable(target) == IF target = Team THEN Members \ removed # {} ELSE target \notin removed
ColumnsFor(target) ==
  [user |-> IF target = Team THEN NoAgent ELSE target, team |-> target = Team]

(* firstUsableMatch, over the rules the ticket matches.                      *)
MatchRules(w) ==
  /\ RouterAt(w, "rules")
  /\ \E matching \in SUBSET ActiveRules :
       LET usable == {i \in matching : IsTargetUsable(Rules[i])}
       IN SetRouter(w, IF usable = {} THEN [router[w] EXCEPT !.pc = "rotate"]
                       ELSE [router[w] EXCEPT !.pc = "applyRule",
                                              !.to = ColumnsFor(Rules[Min(usable)])])
  /\ UNCHANGED <<ticket, job, desk, peopleVars, cursor, events, routingGhosts, routingBounds>>

Candidates == here \ removed
(* Faulty variant: an agent may be filled one past the cap.                  *)
HasRoomInclusive(a) == Load(a) <= Cap
HasRoom(a) == Load(a) < Cap
(* readCandidates: least load first, then the ring from the cursor on, then  *)
(* by id.                                                                    *)
Before(a, b) ==
  \/ Load(a) < Load(b)
  \/ Load(a) = Load(b) /\ cursor # NoAgent /\ a > cursor /\ b <= cursor
  \/ Load(a) = Load(b) /\ (cursor # NoAgent /\ a > cursor) = (cursor # NoAgent /\ b > cursor) /\ a < b
Eligible == {a \in Candidates : HasRoom(a)}
Chosen == CHOOSE a \in Eligible : \A b \in Eligible \ {a} : Before(a, b)

(* resolveFallbackAssignment: somebody, or nobody.                           *)
ResolveFallback(w) ==
  /\ RouterAt(w, "rotate")
  /\ SetRouter(w, IF Eligible = {} THEN [router[w] EXCEPT !.pc = "defer"]
                  ELSE [router[w] EXCEPT !.pc = "advance", !.to = ColumnsFor(Chosen)])
  /\ UNCHANGED <<ticket, job, desk, peopleVars, cursor, events, routingGhosts, routingBounds>>

AdvanceCursor(w) ==
  /\ RouterAt(w, "advance")
  /\ cursor' = router[w].to.user
  /\ SetRouter(w, [router[w] EXCEPT !.pc = "applyRotation"])
  /\ UNCHANGED <<ticket, job, desk, peopleVars, events, routingGhosts, routingBounds>>

(* Faulty variant: the write does not check that nobody holds the ticket.    *)
TakeableBlind(t) == TRUE
Takeable(t) == OwnerOf(t) = Unowned
(* The columns an assignment writes.                                         *)
Placed(t, to, st) ==
  [ticket[t] EXCEPT !.user = to.user, !.team = to.team, !.routing = st, !.since = 0]

(* applyRule and applyRotation, assign: a compare-and-set.                   *)
Assign(w, source) ==
  /\ RouterAt(w, IF source = "rule" THEN "applyRule" ELSE "applyRotation")
  /\ \A t \in router[w].t :
       IF Takeable(t)
       THEN /\ SetTicket(t, Placed(t, router[w].to, "assigned"))
            /\ crossed' = crossed \cup {u \in {t} : \E v \in Routers \ {w} : WorksOn(v, u)}
            /\ outdated' = Outdates(t, router[w].to)
            /\ by' = [by EXCEPT ![t] = source]
       ELSE UNCHANGED <<ticket, crossed, outdated, by>>
  /\ Finish(w)
  /\ UNCHANGED <<desk, peopleVars, cursor, deferrals, routingBounds>>

Deferrable(t) == ticket[t].routing # "deferred"
(* Faulty variant: only the event is written.                                *)
DeferredUnflagged(t) == ticket[t]
(* The time of a deferral is the number of its event.                        *)
Deferred(t) ==
  IF Deferrable(t) THEN [ticket[t] EXCEPT !.routing = "deferred", !.since = deferrals[t] + 1]
  ELSE ticket[t]

(* defer: whoever holds the ticket by now.                                   *)
Defer(w) ==
  /\ RouterAt(w, "defer")
  /\ \A t \in router[w].t : /\ SetTicket(t, Deferred(t))
                            /\ deferrals' = [deferrals EXCEPT ![t] = @ + 1]
  /\ Finish(w)
  /\ UNCHANGED <<desk, peopleVars, cursor, by, routingGhosts, routingBounds>>

(* A query fails.  The job has no attempts configured: it is not retried.    *)
RouteFail(w) ==
  /\ ~RouterAt(w, "idle") /\ Fault
  /\ Finish(w)
  /\ UNCHANGED <<ticket, desk, peopleVars, cursor, events, routingGhosts>>

(* A process dies, or loses the lock of its job without noticing: the job    *)
(* is delivered again, once.                                                 *)
Stall(w, dies) ==
  /\ ~RouterAt(w, "idle") /\ Fault
  /\ job' = [t \in Tickets |-> IF WorksOn(w, t) /\ job[t] = "running" THEN "queued" ELSE job[t]]
  /\ IF dies THEN SetRouter(w, IdleRouter) ELSE UNCHANGED router
  /\ UNCHANGED <<ticket, desk, peopleVars, cursor, events, routingGhosts>>

-----------------------------------------------------------------------------
(* Other producers of routing jobs. *)

(* An add is ignored when the id is held: no option removes a finished job.  *)
EnqueueRoute(t) == job' = [job EXCEPT ![t] = IF @ = "none" THEN "queued" ELSE @]

Requestable(t) == ticket[t].routing \in {"pending", "deferred"}
RequestRoutingIfUnowned(t) ==
  /\ PeopleAct
  /\ Requestable(t)
  /\ EnqueueRoute(t)
  /\ UNCHANGED <<ticket, router, desk, peopleVars, cursor, events, crossed, outdated>>

-----------------------------------------------------------------------------
(* People. *)

(* TicketCommandService.assign: the ticket and the assignee are looked up;   *)
(* a column the request does not name keeps what was read ...                *)
Assignable(t, user, team) ==
  /\ user \in (Agents \ removed) \cup {NoAgent, ticket[t].user}
  /\ Placed(t, [user |-> user, team |-> team],
            IF user = NoAgent /\ ~team THEN "pending" ELSE "manual") # ticket[t]
AssignRequest(t, user, team) ==
  /\ desk = NoRequest /\ PeopleAct
  /\ Assignable(t, user, team)
  /\ desk' = [t |-> {t}, to |-> [user |-> user, team |-> team]]
  /\ UNCHANGED <<ticket, job, router, peopleVars, cursor, events, routingGhosts>>

(* ... and writeAssignment writes, whatever has happened since.              *)
WriteAssignment ==
  /\ desk # NoRequest
  /\ \A t \in desk.t :
       /\ SetTicket(t, Placed(t, desk.to, IF desk.to = Unowned THEN "pending" ELSE "manual"))
       /\ crossed' = Crosses(t)
       /\ outdated' = Outdates(t, desk.to)
       /\ by' = [by EXCEPT ![t] = IF desk.to = Unowned THEN "released" ELSE "person"]
  /\ desk' = NoRequest
  /\ UNCHANGED <<job, router, peopleVars, cursor, deferrals, routingBounds>>

FinishTicket(t) ==
  /\ PeopleAct /\ ticket[t].active
  /\ SetTicket(t, [ticket[t] EXCEPT !.active = FALSE])
  /\ UNCHANGED <<job, router, desk, peopleVars, cursor, events, routingGhosts>>

(* An agent sets its availability, or is seen again or no longer.            *)
ComeOrGo(a) ==
  /\ PeopleAct /\ a \notin removed
  /\ here' = IF a \in here THEN here \ {a} ELSE here \cup {a}
  /\ UNCHANGED <<ticket, job, router, desk, removed, cursor, events, routingGhosts>>

(* Faulty variant: the tickets of the user stay with it.                     *)
ReleasedNothing(a) == ticket
(* Only the assignee is cleared: routing_state keeps its value.              *)
ReleasedFrom(a) ==
  [t \in Tickets |-> IF ticket[t].user = a THEN [ticket[t] EXCEPT !.user = NoAgent] ELSE ticket[t]]

(* UsersService.remove.                                                      *)
RemoveUser(a) ==
  /\ PeopleAct /\ a \notin removed
  /\ ticket' = ReleasedFrom(a)
  /\ cursor' = IF cursor = a THEN NoAgent ELSE cursor
  /\ removed' = removed \cup {a}
  /\ here' = here \ {a}
  /\ UNCHANGED <<job, router, desk, events, routingGhosts>>

-----------------------------------------------------------------------------
RouterStep(w) ==
  \/ \E t \in Tickets : RouteTicket(w, t)
  \/ MatchRules(w) \/ ResolveFallback(w) \/ AdvanceCursor(w) \/ Defer(w)
  \/ \E source \in {"rule", "rotation"} : Assign(w, source)

PeopleStep ==
  \/ \E t \in Tickets, user \in Owners, team \in BOOLEAN : AssignRequest(t, user, team)
  \/ WriteAssignment
  \/ \E t \in Tickets : FinishTicket(t) \/ RequestRoutingIfUnowned(t)
  \/ \E a \in Agents : ComeOrGo(a) \/ RemoveUser(a)

RoutingNext ==
  \/ \E w \in Routers : RouterStep(w)
  \/ \E w \in Routers : RouteFail(w) \/ \E dies \in BOOLEAN : Stall(w, dies)
  \/ PeopleStep

RoutingSpec == RoutingInit /\ [][RoutingNext]_routingVars

-----------------------------------------------------------------------------
(* Properties. *)

(* Routers and the desk hold a ticket exactly when they have work, and a     *)
(* ticket carries the time of a deferral exactly while it is flagged.        *)
RoutingTypeOK ==
  /\ ticket \in [Tickets -> [active : BOOLEAN, user : Owners, team : BOOLEAN,
                             routing : RoutingStates, since : Nat]]
  /\ job \in [Tickets -> {"none", "queued", "running", "held"}]
  /\ router \in [Routers -> [pc : RouterPCs, t : SUBSET Tickets, to : Columns]]
  /\ \A w \in Routers : IF RouterAt(w, "idle") THEN router[w] = IdleRouter
                        ELSE \E t \in Tickets : WorksOn(w, t)
  /\ desk \in [t : SUBSET Tickets, to : Columns]
  /\ desk = NoRequest \/ \E t \in Tickets : desk.t = {t}
  /\ removed \subseteq Agents /\ here \subseteq Agents \ removed /\ cursor \in Owners
  /\ by \in [Tickets -> {"none", "rule", "rotation", "person", "released"}]
  /\ deferrals \in [Tickets -> Nat]
  /\ crossed \subseteq Tickets /\ outdated \subseteq Tickets
  /\ peopleActs \in 0..MaxPeopleActs /\ faults \in 0..MaxFaults
  /\ \A t \in Tickets : (ticket[t].routing = "deferred") = (ticket[t].since > 0)

(* Rotation reads the loads and the assignment is written later, with no     *)
(* lock over the two: an agent is filled past its cap by at most one ticket  *)
(* per further router.  A rule assigns whatever the load.                    *)
Rotated(a) == {t \in Tickets : ticket[t].user = a /\ ticket[t].active /\ by[t] = "rotation"}
OvershootBounded ==
  \A a \in Agents : Cardinality(Rotated(a)) <= Cap + Cardinality(Routers) - 1

(* Once its job has run, a ticket is placed or in the supervisor's list of   *)
(* stuck tickets, and not both.  Undecided: a query failed or a person       *)
(* released it.  Both: it was taken while a router decided that nobody could.*)
OneVerdict ==
  \A t \in Tickets :
    /\ /\ job[t] = "held" /\ ~\E w \in Routers : WorksOn(w, t)
       /\ ticket[t].active /\ ticket[t].routing = "pending" /\ OwnerOf(t) = Unowned
       => faults > 0 \/ by[t] = "released"
    /\ ticket[t].routing = "deferred" /\ OwnerOf(t) # Unowned => t \in crossed

(* A removed user holds no ticket, unless it was looked up before the        *)
(* removal and written after it.                                             *)
RemovedHoldsNothing ==
  \A t \in Tickets : ticket[t].user \in removed => t \in outdated

(* A router never takes a ticket from somebody, however old its reading.     *)
RoutersTakeFromNobody ==
  [][\A t \in Tickets : OwnerOf(t) # Unowned /\ OwnerOf(t)' # OwnerOf(t)
       => by'[t] \in {"person", "released"} \/ removed' # removed]_routingVars

================================================================================
