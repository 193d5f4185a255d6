---------------------------- MODULE SlaTimersProofs ----------------------------
(***************************************************************************)
(* Proofs about SlaTimers, for every number of workers, every policy and   *)
(* every number of changes, faults and clock ticks.                        *)
(*                                                                         *)
(* The invariants need more facts.  The two timers of a ticket move        *)
(* together while both are live.  What a transaction has read may be old,  *)
(* but a timer it saw stopped is still stopped; while no other transaction *)
(* has run beside it, the timers are as it saw them.  A sweep that read    *)
(* the ticket as wanting a clock running began before that ended, or has   *)
(* the reply still to read.  And as long as no two transactions overlapped *)
(* and nothing failed, a change the timers do not reflect yet has an       *)
(* evaluation that is queued, was dropped, or has read it.                 *)
(***************************************************************************)
EXTENDS SlaTimers, TLAPS

Timers == [st : TimerStates, due : Int, pausedAt : 0..MaxTime, pausedFor : Int]
Tickets == [st : Statuses, replied : BOOLEAN, stamped : BOOLEAN, resolved : BOOLEAN]
Readings == [st : Statuses, first : BOOLEAN, resolved : BOOLEAN, seen : [Kinds -> TimerStates]]
WorkerStates == [pc : TransactionPCs \cup {"idle", "found", "trigger"}, at : 0..MaxTime,
                 read : Readings, found : SUBSET Kinds, alone : BOOLEAN, live : SUBSET Kinds]
Targets == Mutable \cup {"met", "cancelled"}

Together(f) ==
  /\ \A k, l \in Kinds : f[k] = "none" => f[l] = "none"
  /\ \A k, l \in Kinds : f[k] \in Mutable /\ f[l] \in Mutable => f[k] = f[l]
States == [k \in Kinds |-> timers[k].st]
TimersTogether == Together(States)

(* now is what became of old. *)
Follows(old, new) ==
  /\ old # "none" => new # "none"
  /\ old \notin Mutable \cup {"none"} => new = old
OldReading(r) == Together(r.seen) /\ \A k \in Kinds : Follows(r.seen[k], timers[k].st)
ReadingsArePast ==
  \A w \in Workers :
    /\ worker[w].at <= now
    /\ worker[w].pc \in {"reply", "commit"} => OldReading(worker[w].read)
    /\ worker[w].pc \in {"found", "ticket", "blind"} => worker[w].read.first = FALSE /\ ~Evaluating(w)

(* alone and overlapped tell what runs beside what. *)
AloneIsAlone ==
  \A v, w \in Workers : v \in InTransaction /\ w \in InTransaction /\ worker[w].alone => v = w
AloneOrOverlapped == \A w \in InTransaction : worker[w].alone \/ overlapped

AloneSees ==
  \A w \in InTransaction : worker[w].alone =>
    /\ worker[w].pc \in {"reply", "commit"} => \A k \in Kinds : worker[w].read.seen[k] = timers[k].st
    /\ worker[w].pc = "blind" => \A k \in worker[w].found : ~Due(timers[k], worker[w].at)

HasRead(w) == worker[w].pc \in {"timers", "reply", "commit"}
LiveIsWanted ==
  \A w \in InTransaction : ~Evaluating(w) =>
    /\ Wanted(ticket) \subseteq worker[w].live
    /\ HasRead(w) => \A k \in Kinds : SlaTimerTargetFor(k, worker[w].read) = "running" =>
         k \in worker[w].live \/ (ticket.replied /\ k = "first_response" /\ worker[w].pc # "commit")

Current(w) ==
  /\ worker[w].read.st = ticket.st /\ worker[w].read.resolved = ticket.resolved
  /\ worker[w].read.first = (ticket.stamped \/ (worker[w].pc = "commit" /\ ticket.replied))
ReadingsAreCurrent ==
  ~overlapped /\ faults = 0 => \A w \in Workers : HasRead(w) => jobs > 0 \/ dropped \/ Current(w)

EvaluationIsDue ==
  ~overlapped /\ faults = 0 =>
    \/ jobs > 0 \/ dropped \/ Overlong
    \/ \E w \in InTransaction : Evaluating(w)
    \/ \A k \in Kinds : Agrees(k)

IInv ==
  /\ TypeOK /\ DeadlineAccounted /\ BreachedOnce /\ LostJobBreachesNothing
  /\ TimersTogether /\ ReadingsArePast
  /\ AloneIsAlone /\ AloneOrOverlapped /\ AloneSees /\ LiveIsWanted
  /\ ReadingsAreCurrent /\ EvaluationIsDue

USE DEF Kinds, Statuses, Mutable, TimerStates, Targets, TransactionPCs

-----------------------------------------------------------------------------
(* One timer under applyTransition. *)
Accounted(k, t) == t.st \in {"running", "paused", "breached"} => t.due = Window[k] + t.pausedFor

LEMMA PauseEndedFields ==
  ASSUME NEW t \in Timers, NEW at \in 0..MaxTime, NEW st \in TimerStates
  PROVE  LET u == PauseEnded(t, st, at) IN
         /\ u \in Timers /\ u.st = st /\ u.due = t.due
         /\ t.st = "paused" => u.pausedFor = t.pausedFor + (at - t.pausedAt)
         /\ t.st # "paused" => u.pausedFor = t.pausedFor
<1> DEFINE f == IF t.st = "paused" THEN t.pausedFor + (at - t.pausedAt) ELSE t.pausedFor
<1>1. f \in Int /\ 0 \in 0..MaxTime
  BY BoundsAssumption DEF Timers
<1>2. PauseEnded(t, st, at) = [t EXCEPT !.st = st, !.pausedAt = 0, !.pausedFor = f]
  BY DEF PauseEnded, Timers
<1>3. LET u == [t EXCEPT !.st = st, !.pausedAt = 0, !.pausedFor = f] IN
      u \in Timers /\ u.st = st /\ u.due = t.due /\ u.pausedFor = f
  <2> HIDE DEF f
  <2> QED
    BY <1>1 DEF Timers
<1> QED
  BY <1>2, <1>3

LEMMA TransitionFields ==
  ASSUME NEW t \in Timers, NEW at \in 0..MaxTime, NEW target \in Targets, NEW k \in Kinds
  PROVE  LET u == ApplyTransition(t, target, at) IN
         /\ u \in Timers
         /\ u.st = IF t.st \in Mutable THEN target ELSE t.st
         /\ t.st \notin Mutable => u = t
         /\ Accounted(k, t) => Accounted(k, u)
<1> DEFINE u == ApplyTransition(t, target, at)
<1>1. CASE target = "paused"
  <2>1. u = Paused(t, at)
    BY <1>1 DEF ApplyTransition
  <2>2. CASE t.st = "running"
    <3>1. u = [t EXCEPT !.st = "paused", !.pausedAt = at]
      BY <2>1, <2>2 DEF Paused
    <3>2. LET v == [t EXCEPT !.st = "paused", !.pausedAt = at] IN
          v \in Timers /\ v.st = "paused" /\ v.due = t.due /\ v.pausedFor = t.pausedFor
      BY DEF Timers
    <3> QED
      BY <1>1, <2>2, <3>1, <3>2 DEF Accounted
  <2>3. CASE t.st # "running"
    BY <1>1, <2>1, <2>3 DEF Paused, Timers
  <2> QED
    BY <2>2, <2>3
<1>2. CASE target = "running"
  <2>1. u = Resumed(t, at)
    BY <1>2 DEF ApplyTransition
  <2>2. CASE t.st = "paused"
    <3> DEFINE p == PauseEnded(t, "running", at)
    <3>1. /\ p \in Timers /\ p.st = "running" /\ p.due = t.due
          /\ p.pausedFor = t.pausedFor + (at - t.pausedAt)
      BY <2>2, PauseEndedFields
    <3>2. u = [p EXCEPT !.due = p.due + (at - t.pausedAt)]
      <4>1. u = [p EXCEPT !.due = @ + (at - t.pausedAt)]
        BY <2>1, <2>2 DEF Resumed, Resumable
      <4> HIDE DEF p, u
      <4> QED
        BY <3>1, <4>1 DEF Timers
    <3> HIDE DEF p
    <3>3. p.due + (at - t.pausedAt) \in Int
      BY <3>1 DEF Timers
    <3>4. LET d == p.due + (at - t.pausedAt)
              v == [p EXCEPT !.due = d] IN
          v \in Timers /\ v.st = p.st /\ v.due = d /\ v.pausedFor = p.pausedFor
      BY <3>1, <3>3 DEF Timers
    <3>5. Accounted(k, t) => t.due + (at - t.pausedAt) = Window[k] + (t.pausedFor + (at - t.pausedAt))
      BY <2>2, WindowAssumption DEF Accounted, Timers
    <3> QED
      BY <1>2, <2>2, <3>1, <3>2, <3>4, <3>5 DEF Accounted
  <2>3. CASE t.st # "paused"
    BY <1>2, <2>1, <2>3 DEF Resumed, Resumable, Timers
  <2> QED
    BY <2>2, <2>3
<1>3. CASE target \in {"met", "cancelled"}
  <2>1. u = Stopped(t, target, at)
    BY <1>3 DEF ApplyTransition
  <2>2. CASE t.st \in Mutable
    <3>1. u = PauseEnded(t, target, at)
      BY <2>1, <2>2 DEF Stopped, Stoppable
    <3>2. target \in TimerStates
      BY <1>3
    <3>3. PauseEnded(t, target, at) \in Timers /\ PauseEnded(t, target, at).st = target
      BY <3>2, PauseEndedFields
    <3> QED
      BY <1>3, <2>2, <3>1, <3>3 DEF Accounted
  <2>3. CASE t.st \notin Mutable
    BY <2>1, <2>3 DEF Stopped, Stoppable, Timers
  <2> QED
    BY <2>2, <2>3
<1> QED
  BY <1>1, <1>2, <1>3

(* What the ticket, as it was read, wants of a timer. *)
LEMMA TargetType ==
  ASSUME NEW r \in Readings, NEW k \in Kinds
  PROVE  /\ SlaTimerTargetFor(k, r) \in Targets
         /\ \A l \in Kinds : SlaTimerTargetFor(k, r) # "met" /\ SlaTimerTargetFor(l, r) # "met"
              => SlaTimerTargetFor(k, r) = SlaTimerTargetFor(l, r)
  BY DEF SlaTimerTargetFor, Readings

(* The types in the form the lemmas use. *)
Types ==
  /\ now \in 0..MaxTime /\ tenant \in TenantStatuses
  /\ ticket \in Tickets
  /\ timers \in [Kinds -> Timers]
  /\ jobs \in Nat
  /\ worker \in [Workers -> WorkerStates]
  /\ breaches \in [Kinds -> Nat]
  /\ triggered \subseteq Kinds /\ misjudged \subseteq Kinds
  /\ overlapped \in BOOLEAN /\ dropped \in BOOLEAN
  /\ acts \in 0..MaxActs /\ faults \in 0..acts

LEMMA TypeParts == TypeOK <=> Types
  BY DEF TypeOK, Types, TenantStatuses, Timers, Tickets, WorkerStates, Readings

LEMMA TypesNext == Types' <=> TypeOK'
  BY TypeParts, PTL

USE DEF Types

LEMMA StartedType == \A k \in Kinds : /\ Started(k) \in Timers /\ Started(k).st = "running"
                                      /\ Accounted(k, Started(k))
  BY WindowAssumption, BoundsAssumption DEF Started, Timers, Accounted

(* One timer under a reconciliation by the reading r: From is the state it   *)
(* is taken to be in.                                                        *)
From(r, k) == IF Created(r) # {} THEN AfterCreate(r, k).st ELSE r.seen[k]
LEMMA ReconcileFields ==
  ASSUME TypeOK, NEW r \in Readings, NEW at \in 0..MaxTime, NEW k \in Kinds
  PROVE  LET t == AfterCreate(r, k)
             u == ReconcileTimers(r, at)[k]
             target == SlaTimerTargetFor(k, r)
         IN /\ u \in Timers
            /\ u.st = IF From(r, k) \in Mutable /\ From(r, k) # target /\ t.st \in Mutable
                      THEN target ELSE t.st
            /\ t.st \notin Mutable => u = t
            /\ Accounted(k, timers[k]) => Accounted(k, u)
<1> DEFINE t == AfterCreate(r, k)
           target == SlaTimerTargetFor(k, r)
<1>1. t \in Timers /\ target \in Targets
  BY TypeParts, StartedType, TargetType DEF AfterCreate
<1>2. Accounted(k, timers[k]) => Accounted(k, t)
  BY StartedType DEF AfterCreate
<1>3. ReconcileTimers(r, at)[k] = IF From(r, k) \in Mutable /\ From(r, k) # target
                                  THEN ApplyTransition(t, target, at) ELSE t
  BY DEF ReconcileTimers, From
<1> HIDE DEF t, target
<1>4. LET v == ApplyTransition(t, target, at) IN
         /\ v \in Timers
         /\ v.st = IF t.st \in Mutable THEN target ELSE t.st
         /\ t.st \notin Mutable => v = t
         /\ Accounted(k, t) => Accounted(k, v)
  BY <1>1, TransitionFields
<1>5. LET u == ReconcileTimers(r, at)[k] IN
      /\ u \in Timers
      /\ u.st = IF From(r, k) \in Mutable /\ From(r, k) # target /\ t.st \in Mutable
                THEN target ELSE t.st
      /\ t.st \notin Mutable => u = t
      /\ Accounted(k, timers[k]) => Accounted(k, u)
  BY <1>1, <1>2, <1>3, <1>4
<1> QED
  BY <1>5 DEF t, target
-----------------------------------------------------------------------------
(* Both timers under a reconciliation by a reading that may be old. *)
(* Either both timers are created, or neither and the states read decide.    *)
LEMMA ReconcileCases ==
  ASSUME TypeOK, TimersTogether, NEW r \in Readings, OldReading(r), NEW at \in 0..MaxTime
  PROVE  LET u == ReconcileTimers(r, at) IN
         \/ \A k \in Kinds : /\ timers[k].st = "none" /\ r.seen[k] = "none"
                             /\ u[k].st = SlaTimerTargetFor(k, r)
         \/ \A k \in Kinds :
              /\ timers[k].st # "none"
              /\ timers[k].st \notin Mutable => u[k] = timers[k]
              /\ u[k].st = IF r.seen[k] \in Mutable /\ r.seen[k] # SlaTimerTargetFor(k, r)
                              /\ timers[k].st \in Mutable
                           THEN SlaTimerTargetFor(k, r) ELSE timers[k].st
<1>1. /\ r.seen \in [Kinds -> TimerStates]
      /\ \A k \in Kinds : timers[k].st \in TimerStates /\ SlaTimerTargetFor(k, r) \in Targets
  BY TypeParts, TargetType DEF Readings, Timers
<1>2. \A k \in Kinds : States[k] = timers[k].st
  BY DEF States
<1>3. CASE Created(r) # {}
  <2>1. \A k \in Kinds : timers[k].st = "none" /\ r.seen[k] = "none"
    BY <1>2, <1>3 DEF Created, TimersTogether, OldReading, Together
  <2>2. \A k \in Kinds : AfterCreate(r, k) = Started(k)
    BY <2>1 DEF AfterCreate, Created
  <2>3. ASSUME NEW k \in Kinds PROVE ReconcileTimers(r, at)[k].st = SlaTimerTargetFor(k, r)
    <3>1. From(r, k) = "running" /\ AfterCreate(r, k).st = "running"
      BY <1>3, <2>2, StartedType DEF From
    <3> QED
      BY <3>1, ReconcileFields
  <2> QED
    BY <2>1, <2>3
<1>4. CASE Created(r) = {}
  <2>1. ASSUME NEW k \in Kinds PROVE timers[k].st # "none"
    BY <1>4 DEF Created, OldReading, Follows
  <2>2. ASSUME NEW k \in Kinds PROVE AfterCreate(r, k) = timers[k] /\ From(r, k) = r.seen[k]
    BY <1>4 DEF AfterCreate, From
  <2>3. ASSUME NEW k \in Kinds
        PROVE  LET u == ReconcileTimers(r, at) IN
               /\ timers[k].st \notin Mutable => u[k] = timers[k]
               /\ u[k].st = IF r.seen[k] \in Mutable /\ r.seen[k] # SlaTimerTargetFor(k, r)
                              /\ timers[k].st \in Mutable
                           THEN SlaTimerTargetFor(k, r) ELSE timers[k].st
    BY <2>2, ReconcileFields
  <2> QED
    BY <2>1, <2>3
<1> QED
  BY <1>3, <1>4

LEMMA ReconcileTogether ==
  ASSUME TypeOK, TimersTogether, NEW r \in Readings, OldReading(r), NEW at \in 0..MaxTime
  PROVE  LET u == ReconcileTimers(r, at) IN
         /\ \A k \in Kinds : u[k].st # "none" /\ Follows(timers[k].st, u[k].st)
         /\ \A k, l \in Kinds : u[k].st \in Mutable /\ u[l].st \in Mutable => u[k].st = u[l].st
<1> DEFINE u == ReconcileTimers(r, at)
<1>1. \A k \in Kinds : SlaTimerTargetFor(k, r) \in Targets
  BY TargetType
<1>2. \A k, l \in Kinds : timers[k].st \in Mutable /\ timers[l].st \in Mutable => timers[k].st = timers[l].st
  BY DEF TimersTogether, Together, States
<1>3. CASE \A k \in Kinds : /\ timers[k].st = "none" /\ r.seen[k] = "none"
                            /\ u[k].st = SlaTimerTargetFor(k, r)
  BY <1>1, <1>3, TargetType DEF Follows
<1>4. CASE \A k \in Kinds :
              /\ timers[k].st # "none"
              /\ timers[k].st \notin Mutable => u[k] = timers[k]
              /\ u[k].st = IF r.seen[k] \in Mutable /\ r.seen[k] # SlaTimerTargetFor(k, r)
                              /\ timers[k].st \in Mutable
                           THEN SlaTimerTargetFor(k, r) ELSE timers[k].st
  <2> HIDE DEF u
  <2>1. \A k \in Kinds : u[k].st # "none" /\ Follows(timers[k].st, u[k].st)
    BY <1>1, <1>4 DEF Follows
  <2>2. ASSUME NEW k \in Kinds, NEW l \in Kinds, u[k].st \in Mutable, u[l].st \in Mutable
        PROVE  u[k].st = u[l].st
    <3>1. timers[k].st \in Mutable /\ timers[l].st \in Mutable /\ timers[k].st = timers[l].st
      BY <1>2, <1>4, <2>2
    <3>2. r.seen[k] \in Mutable <=> r.seen[l] \in Mutable
      BY <3>1 DEF OldReading, Together, Follows
    <3>3. r.seen[k] \in Mutable => r.seen[k] = r.seen[l]
      BY <3>2 DEF OldReading, Together
    <3>4. CASE r.seen[k] \in Mutable
      <4>1. SlaTimerTargetFor(k, r) # "met" /\ SlaTimerTargetFor(l, r) # "met"
        BY <1>4, <2>2, <3>1, <3>2, <3>4
      <4>2. SlaTimerTargetFor(k, r) = SlaTimerTargetFor(l, r)
        BY <4>1, TargetType
      <4> QED
        BY <1>4, <3>1, <3>3, <3>4, <4>2
    <3>5. CASE r.seen[k] \notin Mutable
      BY <1>4, <3>1, <3>2, <3>5
    <3> QED
      BY <3>4, <3>5
  <2> QED
    BY <2>1, <2>2 DEF u
<1> QED
  BY <1>3, <1>4, ReconcileCases

(* A reading that is still true leaves the timers as the ticket wanted them. *)
LEMMA ReconcileExact ==
  ASSUME TypeOK, TimersTogether, NEW r \in Readings, OldReading(r), NEW at \in 0..MaxTime,
         \A k \in Kinds : r.seen[k] = timers[k].st, NEW k \in Kinds
  PROVE  LET u == ReconcileTimers(r, at)[k] IN
         /\ u.st \in {SlaTimerTargetFor(k, r), "breached", "met", "cancelled"}
         /\ u.st \in Mutable => u.st = SlaTimerTargetFor(k, r)
<1>1. timers[k].st \in TimerStates
  BY TypeParts DEF Timers
<1> QED
  BY <1>1, ReconcileCases

-----------------------------------------------------------------------------
(* What the steps write. *)
LEMMA UnreadType == Unread \in Readings /\ Unread.first = FALSE
  BY DEF Unread, Readings

LEMMA TicketReadings ==
  ASSUME NEW t \in Tickets, NEW b \in BOOLEAN
  PROVE  LET r == [Unread EXCEPT !.st = t.st, !.first = b, !.resolved = t.resolved] IN
         r \in Readings /\ r.st = t.st /\ r.first = b /\ r.resolved = t.resolved
  BY DEF Unread, Readings, Tickets

LEMMA TicketReadType ==
  ASSUME TypeOK
  PROVE  /\ TicketRead \in Readings /\ TicketRead.st = ticket.st
         /\ TicketRead.first = ticket.stamped /\ TicketRead.resolved = ticket.resolved
<1>1. ticket \in Tickets /\ ticket.stamped \in BOOLEAN
  BY TypeParts DEF Tickets
<1> QED
  BY <1>1, TicketReadings DEF TicketRead

LEMMA TicketReadingType ==
  ASSUME NEW t \in Tickets
  PROVE  /\ TicketReading(t) \in Readings /\ TicketReading(t).st = t.st
         /\ TicketReading(t).first = (t.stamped \/ t.replied) /\ TicketReading(t).resolved = t.resolved
<1>1. (t.stamped \/ t.replied) \in BOOLEAN
  OBVIOUS
<1> DEFINE b == t.stamped \/ t.replied
<1>2. TicketReading(t) = [Unread EXCEPT !.st = t.st, !.first = b, !.resolved = t.resolved]
  BY DEF TicketReading
<1>3. LET r == [Unread EXCEPT !.st = t.st, !.first = b, !.resolved = t.resolved] IN
         r \in Readings /\ r.st = t.st /\ r.first = b /\ r.resolved = t.resolved
  <2> HIDE DEF b
  <2>1. b \in BOOLEAN
    BY <1>1 DEF b
  <2> QED
    BY <2>1, TicketReadings
<1> QED
  BY <1>2, <1>3

LEMMA IdleType ==
  /\ Idle \in WorkerStates /\ Idle.pc = "idle" /\ Idle.at = 0 /\ Idle.found = {}
  /\ Idle.read = Unread
  BY UnreadType, BoundsAssumption DEF Idle, WorkerStates

LEMMA ListType ==
  ASSUME NEW K \in SUBSET Kinds, NEW pc \in {"found", "trigger"}
  PROVE  LET s == [Idle EXCEPT !.pc = pc, !.found = K]
         IN  s \in WorkerStates /\ s.pc = pc /\ s.found = K /\ s.at = 0 /\ s.read = Unread
  BY IdleType DEF WorkerStates

(* What a worker does not do to another: only alone and live change.        *)
Rest(v) ==
  /\ worker'[v].pc = worker[v].pc /\ worker'[v].at = worker[v].at
  /\ worker'[v].read = worker[v].read /\ worker'[v].found = worker[v].found
  /\ worker'[v].alone => worker[v].alone

(* A transaction begins.                                                     *)
Begins(w) ==
  /\ worker'[w].pc \in TransactionPCs /\ worker'[w].at = now
  /\ worker'[w].alone => InTransaction \ {w} = {}
  /\ InTransaction \ {w} = {} => worker'[w].alone
  /\ overlapped' = (overlapped \/ InTransaction \ {w} # {})
  /\ \A v \in Workers \ {w} :
       Rest(v) /\ worker'[v].live = worker[v].live /\ (v \in InTransaction => ~worker'[v].alone)

LEMMA StartFields ==
  ASSUME TypeOK, NEW w \in Workers, NEW s \in WorkerStates, s.pc \in TransactionPCs,
         StartTransaction(w, s)
  PROVE  /\ worker' \in [Workers -> WorkerStates] /\ Begins(w) /\ tenant # "deleted"
         /\ worker'[w].pc = s.pc /\ worker'[w].read = s.read
         /\ worker'[w].found = s.found /\ worker'[w].live = s.live
<1> DEFINE others == InTransaction \ {w}
           b == others = {}
           Next1(v) == IF v = w THEN [s EXCEPT !.at = now, !.alone = b]
                       ELSE IF v \in others THEN [worker[v] EXCEPT !.alone = FALSE] ELSE worker[v]
<1>1. worker' = [v \in Workers |-> Next1(v)] /\ overlapped' = (overlapped \/ others # {}) /\ tenant # "deleted"
  BY DEF StartTransaction
<1>2. b \in BOOLEAN /\ now \in 0..MaxTime /\ worker \in [Workers -> WorkerStates]
  BY TypeParts
<1>3. LET x == [s EXCEPT !.at = now, !.alone = b] IN
      /\ x \in WorkerStates /\ x.pc = s.pc /\ x.at = now /\ x.read = s.read /\ x.found = s.found
      /\ x.live = s.live /\ x.alone = b
  <2> HIDE DEF b
  <2> QED
    BY <1>2 DEF WorkerStates
<1>4. ASSUME NEW v \in Workers, v # w
      PROVE  /\ Next1(v) \in WorkerStates /\ Next1(v).pc = worker[v].pc /\ Next1(v).at = worker[v].at
             /\ Next1(v).read = worker[v].read /\ Next1(v).found = worker[v].found
             /\ Next1(v).live = worker[v].live /\ (Next1(v).alone => worker[v].alone)
             /\ v \in InTransaction => Next1(v).alone = FALSE
  <2>1. worker[v] \in WorkerStates
    BY <1>2
  <2>2. LET x == [worker[v] EXCEPT !.alone = FALSE] IN
        /\ x \in WorkerStates /\ x.pc = worker[v].pc /\ x.at = worker[v].at
        /\ x.read = worker[v].read /\ x.found = worker[v].found
        /\ x.live = worker[v].live /\ x.alone = FALSE
    BY <2>1 DEF WorkerStates
  <2> QED
    BY <1>4, <2>1, <2>2
<1>5. worker' \in [Workers -> WorkerStates] /\ \A v \in Workers : worker'[v] = Next1(v)
  <2>1. ASSUME NEW v \in Workers PROVE Next1(v) \in WorkerStates
    BY <1>3, <1>4
  <2> HIDE DEF Next1
  <2> QED
    BY <1>1, <2>1
<1>6. worker'[w] = [s EXCEPT !.at = now, !.alone = b]
  BY <1>5
<1>7. \A v \in Workers \ {w} :
        Rest(v) /\ worker'[v].live = worker[v].live /\ (v \in InTransaction => ~worker'[v].alone)
  <2> HIDE DEF Next1
  <2> QED
    BY <1>4, <1>5 DEF Rest
<1>8. /\ worker'[w].pc = s.pc /\ worker'[w].at = now /\ worker'[w].read = s.read
      /\ worker'[w].found = s.found /\ worker'[w].live = s.live /\ worker'[w].alone = b
  <2> HIDE DEF b, Next1
  <2> QED
    BY <1>3, <1>6
<1>9. (worker'[w].alone => others = {}) /\ (others = {} => worker'[w].alone)
  BY <1>8
<1> HIDE DEF Next1, b
<1>10. Begins(w)
  BY <1>1, <1>7, <1>8, <1>9 DEF Begins
<1> QED
  BY <1>1, <1>5, <1>8, <1>10

LEMMA SetWorkerFields ==
  ASSUME TypeOK, NEW w \in Workers, NEW s \in WorkerStates, SetWorker(w, s)
  PROVE  /\ worker' \in [Workers -> WorkerStates] /\ worker'[w] = s
         /\ \A v \in Workers \ {w} : worker'[v] = worker[v]
  BY TypeParts DEF SetWorker

LEMMA SelectFields ==
  ASSUME TypeOK, NEW w \in Workers, NEW pc, NEW next \in TransactionPCs, NEW r \in Readings,
         Select(w, pc, next, r)
  PROVE  /\ worker' \in [Workers -> WorkerStates] /\ worker[w].pc = pc
         /\ worker'[w].pc = next /\ worker'[w].read = r /\ worker'[w].at = worker[w].at
         /\ worker'[w].found = worker[w].found /\ worker'[w].live = worker[w].live
         /\ worker'[w].alone = worker[w].alone
         /\ \A v \in Workers \ {w} : worker'[v] = worker[v]
<1> DEFINE s == [worker[w] EXCEPT !.pc = next, !.read = r]
<1>1. worker[w] \in WorkerStates
  BY TypeParts
<1>2. /\ s \in WorkerStates /\ s.pc = next /\ s.read = r /\ s.at = worker[w].at
      /\ s.found = worker[w].found /\ s.live = worker[w].live /\ s.alone = worker[w].alone
  BY <1>1 DEF WorkerStates
<1>3. SetWorker(w, s) /\ worker[w].pc = pc
  BY DEF Select, At
<1> HIDE DEF s
<1> QED
  BY <1>2, <1>3, SetWorkerFields

(* A statement of the transaction, and the end of what a worker does.        *)
Others(w) == \A v \in Workers \ {w} : worker'[v] = worker[v]
Selects(w) ==
  /\ worker[w].pc \in {"ticket", "timers", "reply"} /\ worker'[w].pc \in {"timers", "reply", "commit"}
  /\ worker'[w].at = worker[w].at /\ worker'[w].found = worker[w].found
  /\ worker'[w].live = worker[w].live /\ worker'[w].alone = worker[w].alone
  /\ Others(w)
  /\ UNCHANGED <<now, dataVars, jobs, ghostVars, boundVars>>
Ends(w) ==
  /\ worker'[w].pc \in {"idle", "found", "trigger"}
  /\ worker'[w].at = 0 \/ worker'[w].at = worker[w].at
  /\ worker'[w].pc = "found" => worker'[w].read.first = FALSE /\ worker'[w].found # {}
  /\ Others(w) /\ UNCHANGED overlapped

(* evaluateTicket begins, or the job of a deleted tenant is dropped.         *)
LEMMA EvaluateTicketFields ==
  ASSUME TypeOK, NEW w \in Workers, EvaluateTicket(w)
  PROVE  /\ worker' \in [Workers -> WorkerStates] /\ worker[w].pc = "idle"
         /\ \/ /\ Begins(w) /\ worker'[w].pc = "timers" /\ worker'[w].read = TicketRead
               /\ worker'[w].found = {}
            \/ Ends(w) /\ dropped' = TRUE
<1>1. worker \in [Workers -> WorkerStates] /\ worker[w].pc = "idle"
  BY TypeParts DEF EvaluateTicket, At
<1>2. CASE StartTransaction(w, [Idle EXCEPT !.pc = "timers", !.read = TicketRead])
  <2> DEFINE s == [Idle EXCEPT !.pc = "timers", !.read = TicketRead]
  <2>1. s \in WorkerStates /\ s.pc = "timers" /\ s.read = TicketRead /\ s.found = {}
    BY IdleType, TicketReadType DEF WorkerStates
  <2>2. StartTransaction(w, s)
    BY <1>2
  <2> HIDE DEF s
  <2> QED
    BY <1>1, <2>1, <2>2, StartFields
<1>3. CASE dropped' = TRUE /\ UNCHANGED <<worker, overlapped>>
  BY <1>1, <1>3 DEF Ends, Others
<1> QED
  BY <1>2, <1>3 DEF EvaluateTicket

(* reconcileDueTickets begins, or the chunk is skipped.                      *)
LEMMA ReconcileDueFields ==
  ASSUME TypeOK, NEW w \in Workers, ReconcileDueTickets(w)
  PROVE  /\ worker' \in [Workers -> WorkerStates] /\ worker[w].pc = "found"
         /\ \/ /\ Begins(w) /\ worker'[w].pc = (IF StillDue(w) # {} THEN "ticket" ELSE "blind")
               /\ worker'[w].read = worker[w].read /\ worker'[w].found = worker[w].found
               /\ worker'[w].live = Wanted(ticket)
            \/ Ends(w) /\ worker'[w].pc = "idle"
<1> DEFINE pc == IF StillDue(w) # {} THEN "ticket" ELSE "blind"
           s == [worker[w] EXCEPT !.pc = pc, !.live = Wanted(ticket)]
<1>1. worker[w] \in WorkerStates /\ worker[w].pc = "found" /\ pc \in {"ticket", "blind"}
  BY TypeParts DEF ReconcileDueTickets, At
<1>2. CASE StartTransaction(w, [worker[w] EXCEPT !.pc = IF StillDue(w) # {} THEN "ticket" ELSE "blind",
                                                  !.live = Wanted(ticket)])
  <2>1. StartTransaction(w, s)
    BY <1>2
  <2>2. Wanted(ticket) \in SUBSET Kinds
    BY DEF Wanted
  <2>3. /\ s \in WorkerStates /\ s.pc = pc /\ s.read = worker[w].read /\ s.found = worker[w].found
        /\ s.live = Wanted(ticket)
    <3> HIDE DEF pc
    <3> QED
      BY <1>1, <2>2 DEF WorkerStates
  <2> HIDE DEF s
  <2>4. s.pc \in TransactionPCs
    BY <1>1, <2>3
  <2> QED
    BY <1>1, <2>1, <2>3, <2>4, StartFields
<1>3. CASE SetWorker(w, Idle) /\ UNCHANGED overlapped
  BY <1>1, <1>3, IdleType, SetWorkerFields DEF Ends, Others
<1> QED
  BY <1>2, <1>3 DEF ReconcileDueTickets

(* findDueTimers finds something.                                            *)
LEMMA FindFields ==
  ASSUME TypeOK, NEW w \in Workers, FindDueTimers(w)
  PROVE  worker' \in [Workers -> WorkerStates] /\ worker[w].pc = "idle" /\ Ends(w)
<1>1. PICK K \in SUBSET Kinds : K # {} /\ SetWorker(w, [Idle EXCEPT !.pc = "found", !.found = K])
  BY DEF FindDueTimers
<1> DEFINE s == [Idle EXCEPT !.pc = "found", !.found = K]
<1>2. s \in WorkerStates /\ s.pc = "found" /\ s.found = K /\ s.at = 0 /\ s.read.first = FALSE
  BY ListType, UnreadType
<1>3. SetWorker(w, s) /\ UNCHANGED overlapped /\ worker[w].pc = "idle"
  BY <1>1 DEF FindDueTimers, ghostVars, At
<1> HIDE DEF s
<1> QED
  BY <1>1, <1>2, <1>3, SetWorkerFields DEF Ends, Others

(* The three statements of a reconciliation.                                 *)
LEMMA ReadTicketFields ==
  ASSUME TypeOK, NEW w \in Workers, ReadTicket(w)
  PROVE  /\ worker' \in [Workers -> WorkerStates] /\ Selects(w)
         /\ worker[w].pc = "ticket" /\ worker'[w].pc = "timers" /\ worker'[w].read = TicketRead
<1>1. Select(w, "ticket", "timers", TicketRead) /\ TicketRead \in Readings
  BY TicketReadType DEF ReadTicket
<1> QED
  BY <1>1, SelectFields DEF Selects, Others, Select

LEMMA ReadTimersFields ==
  ASSUME TypeOK, NEW w \in Workers, ReadTimers(w)
  PROVE  /\ worker' \in [Workers -> WorkerStates] /\ Selects(w)
         /\ worker[w].pc = "timers"
         /\ worker'[w].pc = (IF worker[w].read.first THEN "commit" ELSE "reply")
         /\ worker'[w].read.st = worker[w].read.st /\ worker'[w].read.first = worker[w].read.first
         /\ worker'[w].read.resolved = worker[w].read.resolved
         /\ \A k \in Kinds : worker'[w].read.seen[k] = timers[k].st
<1> DEFINE f == [k \in Kinds |-> timers[k].st]
           r == [worker[w].read EXCEPT !.seen = f]
           next == IF worker[w].read.first THEN "commit" ELSE "reply"
<1>1. f \in [Kinds -> TimerStates] /\ worker[w].read \in Readings
  BY TypeParts DEF Timers, WorkerStates
<1>2. /\ r \in Readings /\ r.st = worker[w].read.st /\ r.first = worker[w].read.first
      /\ r.resolved = worker[w].read.resolved /\ r.seen = f
  <2> HIDE DEF f
  <2> QED
    BY <1>1 DEF Readings
<1>3. Select(w, "timers", next, r) /\ next \in {"reply", "commit"}
  BY DEF ReadTimers
<1>4. \A k \in Kinds : f[k] = timers[k].st
  OBVIOUS
<1>5. next = (IF worker[w].read.first THEN "commit" ELSE "reply")
  OBVIOUS
<1> HIDE DEF f, r, next
<1>6. next \in TransactionPCs /\ UNCHANGED <<now, dataVars, jobs, ghostVars, boundVars>>
  BY <1>3 DEF Select
<1>7. /\ worker' \in [Workers -> WorkerStates] /\ worker[w].pc = "timers"
      /\ worker'[w].pc = next /\ worker'[w].read = r /\ worker'[w].at = worker[w].at
      /\ worker'[w].found = worker[w].found /\ worker'[w].live = worker[w].live
      /\ worker'[w].alone = worker[w].alone
      /\ \A v \in Workers \ {w} : worker'[v] = worker[v]
  BY <1>2, <1>3, <1>6, SelectFields
<1>8. Selects(w)
  BY <1>3, <1>6, <1>7 DEF Selects, Others
<1> QED
  BY <1>2, <1>4, <1>5, <1>7, <1>8

LEMMA ReadReplyFields ==
  ASSUME TypeOK, NEW w \in Workers, ReadReply(w)
  PROVE  /\ worker' \in [Workers -> WorkerStates] /\ Selects(w)
         /\ worker[w].pc = "reply" /\ worker'[w].pc = "commit"
         /\ worker'[w].read.st = worker[w].read.st
         /\ worker'[w].read.first = (worker[w].read.first \/ ticket.replied)
         /\ worker'[w].read.resolved = worker[w].read.resolved
         /\ worker'[w].read.seen = worker[w].read.seen
<1> DEFINE b == worker[w].read.first \/ ticket.replied
           r == [worker[w].read EXCEPT !.first = b]
<1>1. b \in BOOLEAN /\ worker[w].read \in Readings
  BY TypeParts DEF WorkerStates
<1>2. /\ r \in Readings /\ r.st = worker[w].read.st /\ r.first = b
      /\ r.resolved = worker[w].read.resolved /\ r.seen = worker[w].read.seen
  <2> HIDE DEF b
  <2> QED
    BY <1>1 DEF Readings
<1>3. Select(w, "reply", "commit", r)
  BY DEF ReadReply
<1> HIDE DEF r
<1>4. UNCHANGED <<now, dataVars, jobs, ghostVars, boundVars>>
  BY <1>3 DEF Select
<1>5. /\ worker' \in [Workers -> WorkerStates] /\ Selects(w)
      /\ worker[w].pc = "reply" /\ worker'[w].pc = "commit" /\ worker'[w].read = r
  BY <1>2, <1>3, <1>4, SelectFields DEF Selects, Others
<1> QED
  BY <1>2, <1>5

(* The kinds of step a worker takes.                                         *)
WorkerStep(w) == Step(w) \/ EvaluateFail(w) \/ SweepFail(w)
Commit(w) == EvaluateCommit(w) \/ ClaimAndAlert(w)

LEMMA EndFields ==
  ASSUME TypeOK, NEW w \in Workers,
         \/ EvaluateCommit(w) \/ CastFails(w) \/ TriggerWorkflowEvaluation(w)
         \/ EvaluateFail(w) \/ SweepFail(w)
  PROVE  worker' \in [Workers -> WorkerStates] /\ Ends(w) /\ worker'[w].pc = "idle"
<1>1. SetWorker(w, Idle) /\ UNCHANGED overlapped
  BY DEF EvaluateCommit, CastFails, TriggerWorkflowEvaluation, EvaluateFail, SweepFail, ghostVars
<1> QED
  BY <1>1, IdleType, SetWorkerFields DEF Ends, Others

LEMMA ClaimFields ==
  ASSUME TypeOK, NEW w \in Workers, ClaimAndAlert(w)
  PROVE  /\ worker' \in [Workers -> WorkerStates] /\ Ends(w)
         /\ Claimed(w) = {} => worker'[w].pc = "idle"
         /\ Claimed(w) # {} => worker'[w].pc = "trigger" /\ worker'[w].found = Claimed(w)
<1>1. /\ SetWorker(w, IF Claimed(w) = {} THEN Idle ELSE [Idle EXCEPT !.pc = "trigger", !.found = Claimed(w)])
      /\ UNCHANGED overlapped
  BY DEF ClaimAndAlert
<1>2. Claimed(w) \in SUBSET Kinds
  BY TypeParts DEF Claimed, WorkerStates
<1>3. CASE Claimed(w) = {}
  BY <1>1, <1>3, IdleType, SetWorkerFields DEF Ends, Others
<1>4. CASE Claimed(w) # {}
  <2> DEFINE s == [Idle EXCEPT !.pc = "trigger", !.found = Claimed(w)]
  <2>1. s \in WorkerStates /\ s.pc = "trigger" /\ s.found = Claimed(w) /\ s.at = 0
    BY <1>2, ListType
  <2>2. SetWorker(w, s)
    BY <1>1, <1>4
  <2> HIDE DEF s
  <2> QED
    BY <1>1, <1>4, <2>1, <2>2, SetWorkerFields DEF Ends, Others
<1> QED
  BY <1>3, <1>4

LEMMA WorkerKinds ==
  ASSUME TypeOK, NEW w \in Workers, WorkerStep(w)
  PROVE  worker' \in [Workers -> WorkerStates] /\ (Begins(w) \/ Selects(w) \/ Ends(w))
  BY EvaluateTicketFields, ReconcileDueFields, FindFields, ReadTicketFields, ReadTimersFields,
     ReadReplyFields, EndFields, ClaimFields
  DEF WorkerStep, Step

(* A worker's statements change one record, or forget that others are alone. *)
LEMMA OthersRest ==
  ASSUME NEW w \in Workers, Begins(w) \/ Selects(w) \/ Ends(w), NEW v \in Workers \ {w}
  PROVE  Rest(v) /\ worker'[v].live = worker[v].live
  BY DEF Begins, Selects, Ends, Others, Rest

(* Only a commit changes the timers.                                         *)
LEMMA TimersFrame ==
  ASSUME [Next]_vars, \A w \in Workers : ~Commit(w)
  PROVE  UNCHANGED <<timers, misjudged, breaches>>
  BY DEF Commit, Next, Step, EvaluateTicket, FindDueTimers, ReconcileDueTickets, Select, ReadTicket,
         ReadTimers, ReadReply, CastFails, TriggerWorkflowEvaluation, EvaluateFail, SweepFail, TicketStep,
         SendReply, Pause, Resume, FinishTicket, Change, ChangeTenant, Tick, dataVars, breachVars,
         ghostVars, vars

(* The steps of the ticket, the tenant and the clock.                        *)
LEMMA TicketStepFields ==
  ASSUME TypeOK, TicketStep
  PROVE  \E t \in Tickets : Change(t) /\ (ticket.replied => t.replied)
<1>1. ticket \in Tickets
  BY TypeParts
<1>2. ASSUME NEW st \in Statuses
      PROVE  /\ [ticket EXCEPT !.st = st] \in Tickets
             /\ [ticket EXCEPT !.st = st].replied = ticket.replied
  BY <1>1 DEF Tickets
<1>3. CASE SendReply
  <2>1. LET t == [ticket EXCEPT !.replied = TRUE] IN t \in Tickets /\ t.replied = TRUE
    BY <1>1 DEF Tickets
  <2> QED
    BY <1>3, <2>1 DEF SendReply
<1>4. CASE Pause
  BY <1>2, <1>4 DEF Pause
<1>5. CASE Resume
  BY <1>2, <1>5 DEF Resume
<1>6. ASSUME NEW st \in {"resolved", "closed"}, FinishTicket(st)
      PROVE  \E t \in Tickets : Change(t) /\ (ticket.replied => t.replied)
  <2> DEFINE b == ticket.resolved \/ st = "resolved"
             t == [ticket EXCEPT !.st = st, !.resolved = b]
  <2>1. Change(t)
    <3>1. Change([ticket EXCEPT !.st = st, !.resolved = @ \/ st = "resolved"])
      BY <1>6 DEF FinishTicket
    <3>2. [ticket EXCEPT !.st = st, !.resolved = @ \/ st = "resolved"] = t
      BY <1>1 DEF Tickets
    <3> QED
      BY <3>1, <3>2
  <2>2. b \in BOOLEAN
    OBVIOUS
  <2>3. t \in Tickets /\ t.replied = ticket.replied
    <3> HIDE DEF b
    <3> QED
      BY <1>1, <2>2 DEF Tickets
  <2> QED
    BY <2>1, <2>3
<1> QED
  BY <1>3, <1>4, <1>5, <1>6 DEF TicketStep

Changed ==
  /\ ticket' \in Tickets /\ (ticket.replied => ticket'.replied)
  /\ UNCHANGED <<now, tenant>>
  /\ \/ jobs' = jobs + 1 /\ faults' = faults
     \/ jobs' = jobs /\ faults' = faults + 1
  /\ acts < MaxActs /\ acts' = acts + 1
  /\ \A v \in InTransaction : ~Evaluating(v) => worker'[v].live = worker[v].live \cup Wanted(ticket')
Quiet ==
  /\ UNCHANGED <<ticket, jobs, worker, faults>>
  /\ tenant' \in TenantStatuses
  /\ UNCHANGED now \/ (now < MaxTime /\ now' = now + 1)
  /\ UNCHANGED acts \/ (acts < MaxActs /\ acts' = acts + 1)

LEMMA ChangeFields ==
  ASSUME TypeOK, NEW t \in Tickets, Change(t), ticket.replied => t.replied
  PROVE  /\ worker' \in [Workers -> WorkerStates] /\ Changed
         /\ UNCHANGED <<timers, ghostVars>>
         /\ \A v \in Workers : Rest(v) /\ (worker[v].alone => worker'[v].alone)
<1> DEFINE sees(v) == v \in InTransaction /\ ~Evaluating(v)
           Next1(v) == IF sees(v) THEN [worker[v] EXCEPT !.live = @ \cup Wanted(t)] ELSE worker[v]
<1>1. worker' = [v \in Workers |-> Next1(v)] /\ ticket' = t
  BY DEF Change
<1>2. ASSUME NEW v \in Workers
      PROVE  /\ Next1(v) \in WorkerStates /\ Next1(v).pc = worker[v].pc /\ Next1(v).at = worker[v].at
             /\ Next1(v).read = worker[v].read /\ Next1(v).found = worker[v].found
             /\ Next1(v).alone = worker[v].alone
             /\ sees(v) => Next1(v).live = worker[v].live \cup Wanted(t)
  <2>1. worker[v] \in WorkerStates /\ worker[v].live \cup Wanted(t) \in SUBSET Kinds
    BY TypeParts DEF WorkerStates, Wanted
  <2> DEFINE l == worker[v].live \cup Wanted(t)
  <2>2. Next1(v) = IF sees(v) THEN [worker[v] EXCEPT !.live = l] ELSE worker[v]
    BY <2>1 DEF WorkerStates
  <2> HIDE DEF Next1, sees
  <2>3. LET x == [worker[v] EXCEPT !.live = l] IN
        /\ x \in WorkerStates /\ x.pc = worker[v].pc /\ x.at = worker[v].at /\ x.read = worker[v].read
        /\ x.found = worker[v].found /\ x.alone = worker[v].alone /\ x.live = l
    <3> HIDE DEF l
    <3>1. l \in SUBSET Kinds
      BY <2>1 DEF l
    <3> QED
      BY <2>1, <3>1 DEF WorkerStates
  <2> QED
    BY <2>1, <2>2, <2>3
<1>3. \A v \in Workers : sees(v) <=> (v \in InTransaction /\ ~Evaluating(v))
  OBVIOUS
<1> HIDE DEF Next1, sees
<1>4. worker' \in [Workers -> WorkerStates] /\ \A v \in Workers : worker'[v] = Next1(v)
  BY <1>1, <1>2
<1>5. \A v \in InTransaction : ~Evaluating(v) => worker'[v].live = worker[v].live \cup Wanted(ticket')
  BY <1>1, <1>2, <1>3, <1>4 DEF InTransaction
<1>6. Changed /\ UNCHANGED <<timers, ghostVars>>
  BY <1>1, <1>5 DEF Changed, Change, QueueSlaEvaluation
<1> QED
  BY <1>2, <1>4, <1>6 DEF Rest

LEMMA OutsideFields ==
  ASSUME TypeOK, [Next]_vars, \A w \in Workers : ~WorkerStep(w)
  PROVE  /\ worker' \in [Workers -> WorkerStates]
         /\ UNCHANGED <<timers, ghostVars>>
         /\ \A v \in Workers : Rest(v) /\ (worker[v].alone => worker'[v].alone)
         /\ Changed \/ Quiet
<1>1. CASE TicketStep
  BY <1>1, TicketStepFields, ChangeFields
<1>2. CASE ChangeTenant \/ Tick \/ UNCHANGED vars
  <2>1. Quiet /\ UNCHANGED <<timers, ghostVars, worker>>
    BY <1>2, TypeParts DEF ChangeTenant, Tick, TenantStatuses, vars, dataVars, ghostVars, breachVars, boundVars, Quiet
  <2> QED
    BY <2>1, TypeParts DEF Rest
<1> QED
  BY <1>1, <1>2 DEF Next, WorkerStep

-----------------------------------------------------------------------------
(* The commits. *)
LEMMA StampFields ==
  ASSUME TypeOK, NEW r \in Readings, ticket' = StampFirstResponse(r)
  PROVE  /\ ticket' \in Tickets
         /\ ticket'.st = ticket.st /\ ticket'.resolved = ticket.resolved
         /\ ticket'.replied = ticket.replied /\ ticket'.stamped = (ticket.stamped \/ r.first)
<1>1. ticket \in Tickets
  BY TypeParts
<1>2. ticket' = [ticket EXCEPT !.stamped = (ticket.stamped \/ r.first)]
  BY <1>1 DEF StampFirstResponse, Tickets
<1>3. (ticket.stamped \/ r.first) \in BOOLEAN
  OBVIOUS
<1> DEFINE b == ticket.stamped \/ r.first
<1>4. ticket' = [ticket EXCEPT !.stamped = b] /\ b \in BOOLEAN
  BY <1>2, <1>3
<1>5. /\ ticket' \in Tickets
      /\ ticket'.st = ticket.st /\ ticket'.resolved = ticket.resolved
      /\ ticket'.replied = ticket.replied /\ ticket'.stamped = b
  <2> HIDE DEF b
  <2> QED
    BY <1>1, <1>4 DEF Tickets
<1> QED
  BY <1>5

(* A commit goes by a reading that may be old, or, when the scan of a sweep  *)
(* found nothing due, by none.                                               *)
LEMMA CommitReading ==
  ASSUME IInv, NEW w \in Workers, Commit(w)
  PROVE  /\ worker[w].read \in Readings /\ worker[w].at \in 0..MaxTime /\ w \in InTransaction
         /\ \/ worker[w].pc = "commit" /\ OldReading(worker[w].read)
            \/ worker[w].pc = "blind" /\ worker[w].read.first = FALSE /\ ~Evaluating(w)
                 /\ ClaimAndAlert(w)
<1>1. worker[w] \in WorkerStates
  BY TypeParts DEF IInv
<1>2. worker[w].pc = "commit" \/ (worker[w].pc = "blind" /\ ClaimAndAlert(w))
  BY DEF Commit, EvaluateCommit, ClaimAndAlert, At
<1> QED
  BY <1>1, <1>2 DEF IInv, ReadingsArePast, WorkerStates, InTransaction

(* The timers as the transaction reconciled them, before any claim.          *)
LEMMA ReconciledFields ==
  ASSUME IInv, NEW w \in Workers, Commit(w)
  PROVE  /\ \A k \in Kinds :
              /\ Reconciled(w)[k] \in Timers /\ Accounted(k, Reconciled(w)[k])
              /\ Follows(timers[k].st, Reconciled(w)[k].st)
              /\ timers[k].st \notin Mutable \cup {"none"} => Reconciled(w)[k] = timers[k]
              /\ timers[k].st # "breached" => Reconciled(w)[k].st # "breached"
         /\ Together([k \in Kinds |-> Reconciled(w)[k].st])
<1>1. \A k \in Kinds : timers[k] \in Timers /\ Accounted(k, timers[k])
  BY TypeParts DEF IInv, DeadlineAccounted, Accounted
<1>2. CASE worker[w].pc = "blind"
  <2>1. Reconciled(w) = timers
    BY <1>2 DEF Reconciled, At
  <2> QED
    BY <1>1, <2>1 DEF Follows, IInv, TimersTogether, Together, States
<1>3. CASE worker[w].pc = "commit"
  <2> DEFINE r == worker[w].read
             u == ReconcileTimers(r, worker[w].at)
  <2>1. Reconciled(w) = u
    BY <1>3 DEF Reconciled, At
  <2>2. r \in Readings /\ worker[w].at \in 0..MaxTime /\ OldReading(r) /\ TypeOK /\ TimersTogether
    BY <1>3, CommitReading DEF IInv
  <2>3. \A k \in Kinds : u[k] \in Timers /\ Accounted(k, u[k])
    BY <1>1, <2>2, ReconcileFields
  <2>4. /\ \A k \in Kinds : u[k].st # "none" /\ Follows(timers[k].st, u[k].st)
        /\ \A k, l \in Kinds : u[k].st \in Mutable /\ u[l].st \in Mutable => u[k].st = u[l].st
    BY <2>2, ReconcileTogether
  <2>5. \A k \in Kinds : /\ timers[k].st \notin Mutable \cup {"none"} => u[k] = timers[k]
                         /\ timers[k].st # "breached" => u[k].st # "breached"
    <3>1. \A k \in Kinds : SlaTimerTargetFor(k, r) \in Targets
      BY <2>2, TargetType
    <3> QED
      BY <2>2, <3>1, ReconcileCases
  <2> HIDE DEF u
  <2> QED
    BY <2>1, <2>3, <2>4, <2>5 DEF Together
<1> QED
  BY <1>2, <1>3, CommitReading

(* One timer of a commit: as the reconciliation leaves it, or claimed.       *)
LEMMA CommitTimer ==
  ASSUME IInv, NEW w \in Workers, Commit(w), NEW k \in Kinds
  PROVE  LET u == Reconciled(w)[k] IN
         /\ timers'[k] \in Timers
         /\ timers'[k].due = u.due /\ timers'[k].pausedFor = u.pausedFor
         /\ \/ timers'[k] = u /\ k \notin Claimed(w)
            \/ /\ k \in Claimed(w) /\ ClaimAndAlert(w)
               /\ u.st = "running" /\ u.due <= worker[w].at /\ timers'[k].st = "breached"
<1> DEFINE u == Reconciled(w)[k]
<1>1. u \in Timers
  BY ReconciledFields
<1>2. LET v == [u EXCEPT !.st = "breached"] IN
      v \in Timers /\ v.due = u.due /\ v.pausedFor = u.pausedFor /\ v.st = "breached"
  <2> HIDE DEF u
  <2> QED
    BY <1>1 DEF Timers
<1>3. CASE EvaluateCommit(w)
  <2>1. timers'[k] = u
    BY <1>3 DEF EvaluateCommit, Reconciled, At
  <2>2. k \notin Claimed(w)
    BY <1>3 DEF EvaluateCommit, Evaluating, Claimed
  <2> QED
    BY <1>1, <2>1, <2>2
<1>4. CASE ClaimAndAlert(w)
  <2>1. timers'[k] = IF k \in Claimed(w) THEN [u EXCEPT !.st = "breached"] ELSE u
    BY <1>4 DEF ClaimAndAlert
  <2>2. k \in Claimed(w) => u.st = "running" /\ u.due <= worker[w].at
    BY DEF Claimed, Claimable, Due
  <2> HIDE DEF u
  <2>3. /\ timers'[k] \in Timers
        /\ timers'[k].due = u.due /\ timers'[k].pausedFor = u.pausedFor
        /\ \/ timers'[k] = u /\ k \notin Claimed(w)
           \/ /\ k \in Claimed(w) /\ ClaimAndAlert(w)
              /\ u.st = "running" /\ u.due <= worker[w].at /\ timers'[k].st = "breached"
    BY <1>1, <1>2, <1>4, <2>1, <2>2
  <2> QED
    BY <2>3 DEF u
<1> QED
  BY <1>3, <1>4 DEF Commit

LEMMA CommitTimers ==
  ASSUME IInv, NEW w \in Workers, Commit(w)
  PROVE  /\ timers' \in [Kinds -> Timers]
         /\ \A k \in Kinds : /\ Accounted(k, timers'[k])
                             /\ Follows(timers[k].st, timers'[k].st)
                             /\ timers[k].st = "breached" => timers'[k] = timers[k] /\ k \notin Claimed(w)
         /\ Together([k \in Kinds |-> timers'[k].st])
<1> DEFINE u == Reconciled(w)
<1>1. \A k \in Kinds :
         /\ timers'[k] \in Timers
         /\ timers'[k].due = u[k].due /\ timers'[k].pausedFor = u[k].pausedFor
         /\ \/ timers'[k] = u[k] /\ k \notin Claimed(w)
            \/ k \in Claimed(w) /\ u[k].st = "running" /\ timers'[k].st = "breached"
  BY CommitTimer
<1>2. /\ \A k \in Kinds :
           /\ u[k] \in Timers /\ Accounted(k, u[k]) /\ Follows(timers[k].st, u[k].st)
           /\ timers[k].st \notin Mutable \cup {"none"} => u[k] = timers[k]
      /\ Together([k \in Kinds |-> u[k].st])
  BY ReconciledFields
<1>3. DOMAIN timers' = Kinds /\ timers' = [k \in Kinds |-> timers'[k]]
  BY DEF Commit, EvaluateCommit, ClaimAndAlert, ReconcileTimers
<1> HIDE DEF u
<1>4. timers' \in [Kinds -> Timers]
  BY <1>1, <1>3
<1>5. \A k \in Kinds : Accounted(k, timers'[k])
  BY <1>1, <1>2 DEF Accounted
<1>6. \A k \in Kinds : Follows(timers[k].st, timers'[k].st)
  BY <1>1, <1>2 DEF Follows
<1>7. \A k \in Kinds : timers[k].st = "breached" => timers'[k] = timers[k] /\ k \notin Claimed(w)
  BY <1>1, <1>2
<1>8. Together([k \in Kinds |-> timers'[k].st])
  BY <1>1, <1>2 DEF Together
<1> QED
  BY <1>4, <1>5, <1>6, <1>7, <1>8

-----------------------------------------------------------------------------
LEMMA InitIInv == Init => IInv
<1> SUFFICES ASSUME Init PROVE IInv
  OBVIOUS
<1>1. NoTimer \in Timers /\ NoTimer.st = "none"
  BY BoundsAssumption DEF NoTimer, Timers
<1>2. TypeOK
  <2>1. worker \in [Workers -> WorkerStates] /\ timers \in [Kinds -> Timers]
    BY <1>1, IdleType DEF Init
  <2>2. ticket \in Tickets
    BY DEF Init, Tickets
  <2>3. /\ now \in 0..MaxTime /\ jobs \in Nat /\ breaches \in [Kinds -> Nat]
        /\ acts \in 0..MaxActs /\ faults \in 0..acts
    BY BoundsAssumption DEF Init
  <2> QED
    BY <2>1, <2>2, <2>3, TypeParts DEF Init, TenantStatuses
<1>3. \A k \in Kinds : timers[k].st = "none"
  BY <1>1 DEF Init
<1>4. DeadlineAccounted /\ BreachedOnce /\ LostJobBreachesNothing
  BY <1>3 DEF Init, DeadlineAccounted, BreachedOnce, LostJobBreachesNothing
<1>5. TimersTogether
  BY <1>3 DEF TimersTogether, Together, States
<1>6. \A w \in Workers : worker[w].pc = "idle" /\ worker[w].at = 0
  BY IdleType DEF Init
<1>7. ReadingsArePast /\ InTransaction = {}
  BY <1>2, <1>6, TypeParts, BoundsAssumption DEF Init, ReadingsArePast, InTransaction
<1>8. AloneIsAlone /\ AloneOrOverlapped /\ AloneSees /\ LiveIsWanted /\ ReadingsAreCurrent
  BY <1>6, <1>7 DEF AloneIsAlone, AloneOrOverlapped, AloneSees, LiveIsWanted, ReadingsAreCurrent, HasRead
<1>9. EvaluationIsDue
  BY DEF Init, EvaluationIsDue
<1> QED
  BY <1>2, <1>4, <1>5, <1>7, <1>8, <1>9 DEF IInv

(* Every step keeps the types.                                               *)
LEMMA CommitType ==
  ASSUME IInv, NEW w \in Workers, Commit(w)
  PROVE  TypeOK'
<1>0. Types /\ TypeOK
  BY TypeParts DEF IInv
<1>1. timers' \in [Kinds -> Timers]
  BY CommitTimers
<1>2. ticket' = StampFirstResponse(worker[w].read)
  BY DEF Commit, EvaluateCommit, ClaimAndAlert
<1>3. ticket' \in Tickets
  BY <1>0, <1>2, CommitReading, StampFields
<1>4. CASE EvaluateCommit(w)
  <2>1. worker' \in [Workers -> WorkerStates]
    BY <1>0, <1>4, EndFields
  <2> QED
    BY <1>0, <1>1, <1>3, <1>4, <2>1, TypesNext DEF EvaluateCommit, ghostVars, breachVars, boundVars
<1>5. CASE ClaimAndAlert(w)
  <2>1. worker' \in [Workers -> WorkerStates] /\ worker[w].found \subseteq Kinds
    BY <1>0, <1>5, ClaimFields DEF WorkerStates
  <2>2. breaches' \in [Kinds -> Nat]
    BY <1>0, <1>5 DEF ClaimAndAlert
  <2>3. misjudged' \subseteq Kinds
    BY <1>0, <1>5, <2>1 DEF ClaimAndAlert, Claimed
  <2> QED
    BY <1>0, <1>1, <1>3, <1>5, <2>1, <2>2, <2>3, TypesNext DEF ClaimAndAlert, boundVars
<1> QED
  BY <1>4, <1>5 DEF Commit

LEMMA NextTypeOK == IInv /\ [Next]_vars => TypeOK'
<1> SUFFICES ASSUME IInv, [Next]_vars PROVE TypeOK'
  OBVIOUS
<1>0. TypeOK /\ Types
  BY TypeParts DEF IInv
<1>1. ASSUME NEW w \in Workers, WorkerStep(w) PROVE TypeOK'
  <2>1. worker' \in [Workers -> WorkerStates] /\ worker[w].found \subseteq Kinds
    BY <1>0, <1>1, WorkerKinds DEF WorkerStates
  <2>2. overlapped' \in BOOLEAN
    BY <1>0, <1>1, WorkerKinds DEF Begins, Selects, Ends, ghostVars
  <2>3. CASE EvaluateTicket(w)
    <3>1. jobs' \in Nat
      BY <1>0, <2>3 DEF EvaluateTicket
    <3>2. dropped' = TRUE \/ dropped' = dropped
      BY <2>3 DEF EvaluateTicket
    <3>3. dropped' \in BOOLEAN
      BY <1>0, <3>2
    <3> QED
      BY <1>0, <2>1, <2>2, <2>3, <3>1, <3>3, TypesNext DEF EvaluateTicket, dataVars, breachVars, boundVars
  <2>4. CASE FindDueTimers(w)
    BY <1>0, <2>1, <2>4, TypesNext DEF FindDueTimers, dataVars, ghostVars, breachVars, boundVars
  <2>5. CASE ReconcileDueTickets(w)
    BY <1>0, <2>1, <2>2, <2>5, TypesNext DEF ReconcileDueTickets, dataVars, breachVars, boundVars
  <2>6. CASE ReadTicket(w) \/ ReadTimers(w) \/ ReadReply(w) \/ CastFails(w)
    BY <1>0, <2>1, <2>6, TypesNext
    DEF ReadTicket, ReadTimers, ReadReply, Select, CastFails, dataVars, ghostVars, breachVars, boundVars
  <2>7. CASE TriggerWorkflowEvaluation(w)
    BY <1>0, <2>1, <2>7, TypesNext DEF TriggerWorkflowEvaluation, Triggers, dataVars, boundVars
  <2>8. CASE EvaluateFail(w)
    BY <1>0, <2>1, <2>8, TypesNext, BoundsAssumption DEF EvaluateFail, Fault, dataVars, ghostVars, breachVars
  <2>9. CASE SweepFail(w)
    BY <1>0, <2>1, <2>9, TypesNext, BoundsAssumption DEF SweepFail, Fault, dataVars, ghostVars, breachVars
  <2>10. CASE Commit(w)
    BY <2>10, CommitType
  <2> QED
    BY <1>1, <2>3, <2>4, <2>5, <2>6, <2>7, <2>8, <2>9, <2>10 DEF WorkerStep, Step, Commit
<1>2. CASE \A w \in Workers : ~WorkerStep(w)
  <2>1. worker' \in [Workers -> WorkerStates] /\ UNCHANGED <<timers, ghostVars>> /\ (Changed \/ Quiet)
    BY <1>0, <1>2, OutsideFields
  <2>2. /\ ticket' \in Tickets /\ jobs' \in Nat /\ now' \in 0..MaxTime /\ tenant' \in TenantStatuses
        /\ acts' \in 0..MaxActs
    BY <1>0, <2>1, BoundsAssumption DEF Changed, Quiet
  <2>3. faults' \in 0..acts'
    BY <1>0, <2>1, BoundsAssumption DEF Changed, Quiet
  <2> QED
    BY <1>0, <2>1, <2>2, <2>3, TypesNext DEF ghostVars, breachVars
<1> QED
  BY <1>1, <1>2

LEMMA NextDeadline == IInv /\ [Next]_vars => DeadlineAccounted'
<1> SUFFICES ASSUME IInv, [Next]_vars PROVE DeadlineAccounted'
  OBVIOUS
<1>1. CASE \E w \in Workers : Commit(w)
  BY <1>1, CommitTimers DEF DeadlineAccounted, Accounted
<1>2. CASE ~\E w \in Workers : Commit(w)
  BY <1>2, TimersFrame DEF IInv, DeadlineAccounted
<1> QED
  BY <1>1, <1>2

LEMMA NextTogether == IInv /\ [Next]_vars => TimersTogether'
<1> SUFFICES ASSUME IInv, [Next]_vars PROVE TimersTogether'
  OBVIOUS
<1>1. CASE \E w \in Workers : Commit(w)
  <2>1. \A k \in Kinds : States'[k] = timers'[k].st
    BY DEF States
  <2> QED
    BY <1>1, <2>1, CommitTimers DEF TimersTogether, Together
<1>2. CASE ~\E w \in Workers : Commit(w)
  BY <1>2, TimersFrame DEF IInv, TimersTogether, Together, States
<1> QED
  BY <1>1, <1>2

(* What a sweep claims, with no transaction beside it, the ticket wanted     *)
(* running: a scan that found nothing due leaves it nothing to claim, and a  *)
(* reconciliation leaves running what it read as wanted.                     *)
LEMMA NextMisjudged == IInv /\ [Next]_vars => LostJobBreachesNothing'
<1> SUFFICES ASSUME IInv, [Next]_vars PROVE misjudged' = {}
  BY DEF LostJobBreachesNothing
<1>0. misjudged = {}
  BY DEF IInv, LostJobBreachesNothing
<1>1. ASSUME NEW w \in Workers, ClaimAndAlert(w), worker[w].alone, NEW k \in Claimed(w)
      PROVE  k \in worker[w].live
  <2>1. k \in Kinds /\ k \in worker[w].found /\ w \in InTransaction /\ Commit(w) /\ ~Evaluating(w)
    BY <1>1, TypeParts, CommitReading DEF Claimed, IInv, WorkerStates, Commit, Evaluating
  <2>2. Due(Reconciled(w)[k], worker[w].at)
    BY <1>1 DEF Claimed, Claimable
  <2>3. CASE worker[w].pc = "blind"
    BY <1>1, <2>1, <2>2, <2>3 DEF IInv, AloneSees, Reconciled, At
  <2>4. CASE worker[w].pc = "commit" /\ OldReading(worker[w].read)
    <3> DEFINE r == worker[w].read
    <3>1. Reconciled(w)[k] = ReconcileTimers(r, worker[w].at)[k] /\ Reconciled(w)[k].st = "running"
      BY <2>2, <2>4 DEF Reconciled, At, Due
    <3>2. \A l \in Kinds : r.seen[l] = timers[l].st
      BY <1>1, <2>1, <2>4 DEF IInv, AloneSees
    <3>3. r \in Readings /\ worker[w].at \in 0..MaxTime /\ TypeOK /\ TimersTogether
      BY <2>1, CommitReading DEF IInv
    <3>4. SlaTimerTargetFor(k, r) = "running"
      BY <2>1, <2>4, <3>1, <3>2, <3>3, ReconcileExact
    <3> QED
      BY <2>1, <2>4, <3>4 DEF IInv, LiveIsWanted, HasRead
  <2> QED
    BY <2>1, <2>3, <2>4, CommitReading
<1>2. ASSUME NEW w \in Workers, ClaimAndAlert(w) PROVE misjudged' = {}
  <2>1. CASE worker[w].alone
    <3>1. misjudged' = misjudged \cup (Claimed(w) \ worker[w].live)
      BY <1>2, <2>1 DEF ClaimAndAlert
    <3> QED
      BY <1>0, <1>1, <1>2, <2>1, <3>1
  <2>2. CASE ~worker[w].alone
    BY <1>0, <1>2, <2>2 DEF ClaimAndAlert
  <2> QED
    BY <2>1, <2>2
<1>3. ASSUME NEW w \in Workers, EvaluateCommit(w) PROVE UNCHANGED misjudged
  BY <1>3 DEF EvaluateCommit, ghostVars, breachVars
<1> QED
  BY <1>0, <1>2, <1>3, TimersFrame DEF Commit

-----------------------------------------------------------------------------
(* The clock and the count of faults never go back.                          *)
LEMMA Monotone ==
  ASSUME TypeOK, [Next]_vars
  PROVE  now <= now' /\ faults <= faults' /\ now' \in Nat /\ faults' \in Nat
<1>1. now \in Nat /\ faults \in Nat
  BY TypeParts, BoundsAssumption
<1>2. (UNCHANGED now \/ now' = now + 1) /\ (UNCHANGED faults \/ faults' = faults + 1)
  BY DEF Next, Step, EvaluateTicket, EvaluateCommit, FindDueTimers, ReconcileDueTickets, ReadTicket,
         ReadTimers, ReadReply, Select, CastFails, ClaimAndAlert, TriggerWorkflowEvaluation, EvaluateFail,
         SweepFail, TicketStep, SendReply, Pause, Resume, FinishTicket, Change, ChangeTenant, Tick, Fault,
         boundVars, vars
<1> QED
  BY <1>1, <1>2

(* A breach that was not handed on yet is with a worker, or a fault took it. *)
Handed(k) == \/ k \in triggered \/ faults > 0
             \/ \E w \in Workers : At(w, "trigger") /\ k \in worker[w].found

LEMMA HandedStays ==
  ASSUME IInv, [Next]_vars, NEW k \in Kinds, Handed(k)
  PROVE  Handed(k)'
<1>0. faults \in Nat /\ TypeOK
  BY TypeParts, BoundsAssumption DEF IInv
<1>1. triggered \subseteq triggered'
  BY DEF Next, Step, EvaluateTicket, EvaluateCommit, FindDueTimers, ReconcileDueTickets, ReadTicket,
         ReadTimers, ReadReply, Select, CastFails, ClaimAndAlert, TriggerWorkflowEvaluation, EvaluateFail,
         SweepFail, TicketStep, SendReply, Pause, Resume, FinishTicket, Change, ChangeTenant, Tick,
         breachVars, ghostVars, vars
<1>2. CASE k \in triggered \/ faults > 0
  BY <1>0, <1>1, <1>2, Monotone DEF Handed
<1>3. ASSUME NEW w \in Workers, At(w, "trigger"), k \in worker[w].found PROVE Handed(k)'
  <2>1. CASE Rest(w)
    BY <1>3, <2>1 DEF Handed, At, Rest
  <2>2. ASSUME NEW v \in Workers, v # w, WorkerStep(v) PROVE Handed(k)'
    BY <1>0, <2>1, <2>2, WorkerKinds, OthersRest
  <2>3. CASE WorkerStep(w)
    <3>1. TriggerWorkflowEvaluation(w) \/ SweepFail(w)
      BY <1>3, <2>3
      DEF WorkerStep, Step, EvaluateFail, EvaluateTicket, EvaluateCommit, FindDueTimers, InTransaction,
          ReconcileDueTickets, ReadTicket, ReadTimers, ReadReply, Select, CastFails, ClaimAndAlert, At
    <3>2. CASE TriggerWorkflowEvaluation(w)
      BY <1>3, <3>2 DEF TriggerWorkflowEvaluation, Triggers, Handed
    <3>3. CASE SweepFail(w)
      BY <1>0, <3>3 DEF SweepFail, Fault, Handed
    <3> QED
      BY <3>1, <3>2, <3>3
  <2>4. CASE \A v \in Workers : ~WorkerStep(v)
    BY <1>0, <2>1, <2>4, OutsideFields
  <2> QED
    BY <2>2, <2>3, <2>4
<1> QED
  BY <1>2, <1>3 DEF Handed

LEMMA NextBreached == IInv /\ [Next]_vars => BreachedOnce'
<1> SUFFICES ASSUME IInv, [Next]_vars, NEW k \in Kinds
             PROVE  /\ breaches'[k] = IF timers'[k].st = "breached" THEN 1 ELSE 0
                    /\ timers'[k].st = "breached" => timers'[k].due <= now' /\ Handed(k)'
  BY DEF BreachedOnce, Handed
<1>0. /\ breaches[k] = IF timers[k].st = "breached" THEN 1 ELSE 0
      /\ timers[k].st = "breached" => timers[k].due <= now /\ Handed(k)
  BY DEF IInv, BreachedOnce, Handed
<1>1. now \in Nat /\ timers[k].due \in Int /\ now <= now' /\ now' \in Nat
  BY TypeParts, Monotone, BoundsAssumption DEF IInv, Timers
<1>2. CASE timers'[k] = timers[k] /\ breaches'[k] = breaches[k]
  BY <1>0, <1>1, <1>2, HandedStays
<1>3. ASSUME NEW w \in Workers, Commit(w)
      PROVE  /\ breaches'[k] = IF timers'[k].st = "breached" THEN 1 ELSE 0
             /\ timers'[k].st = "breached" => timers'[k].due <= now' /\ Handed(k)'
  <2> DEFINE u == Reconciled(w)[k]
  <2>1. breaches'[k] = IF k \in Claimed(w) THEN breaches[k] + 1 ELSE breaches[k]
    <3>1. CASE EvaluateCommit(w)
      BY <3>1 DEF EvaluateCommit, Evaluating, Claimed, ghostVars, breachVars
    <3>2. CASE ClaimAndAlert(w)
      BY <3>2 DEF ClaimAndAlert
    <3> QED
      BY <1>3, <3>1, <3>2 DEF Commit
  <2>2. CASE timers[k].st = "breached"
    <3>1. k \notin Claimed(w) /\ timers'[k] = timers[k]
      BY <1>3, <2>2, CommitTimers
    <3> QED
      BY <1>2, <2>1, <3>1
  <2>3. CASE timers[k].st # "breached" /\ k \in Claimed(w)
    <3>1. /\ timers'[k].st = "breached" /\ timers'[k].due = u.due /\ u.due <= worker[w].at
          /\ ClaimAndAlert(w) /\ u \in Timers
      BY <1>3, <2>3, CommitTimer, ReconciledFields
    <3>2. worker[w].at <= now /\ worker[w].at \in Nat /\ u.due \in Int
      BY <3>1, TypeParts, BoundsAssumption DEF IInv, ReadingsArePast, WorkerStates, Timers
    <3>3. timers'[k].due <= now'
      <4> HIDE DEF u
      <4> QED
        BY <1>1, <3>1, <3>2
    <3>4. worker'[w].pc = "trigger" /\ worker'[w].found = Claimed(w)
      BY <2>3, <3>1, ClaimFields DEF IInv
    <3>5. Handed(k)'
      BY <2>3, <3>4 DEF Handed, At
    <3> QED
      BY <1>0, <2>1, <2>3, <3>1, <3>3, <3>5
  <2>4. CASE timers[k].st # "breached" /\ k \notin Claimed(w)
    <3>1. timers'[k] = u
      BY <1>3, <2>4, CommitTimer
    <3>2. u.st # "breached"
      BY <1>3, <2>4, ReconciledFields
    <3> QED
      BY <1>0, <2>1, <2>4, <3>1, <3>2
  <2> QED
    BY <2>2, <2>3, <2>4
<1> QED
  BY <1>2, <1>3, TimersFrame

LEMMA FollowsTransitive ==
  \A a, b, c : Follows(a, b) /\ Follows(b, c) => Follows(a, c)
  BY DEF Follows

(* What became of the timers.                                                *)
LEMMA TimersFollow ==
  ASSUME IInv, [Next]_vars
  PROVE  \A k \in Kinds : Follows(timers[k].st, timers'[k].st)
<1>1. CASE \E v \in Workers : Commit(v)
  BY <1>1, CommitTimers
<1>2. CASE ~\E v \in Workers : Commit(v)
  BY <1>2, TimersFrame DEF Follows
<1> QED
  BY <1>1, <1>2

LEMMA NextPast == IInv /\ [Next]_vars => ReadingsArePast'
<1> DEFINE Past(r) == Together(r.seen) /\ \A k \in Kinds : Follows(r.seen[k], timers'[k].st)
           G(w) == /\ worker'[w].at <= now'
                   /\ worker'[w].pc \in {"reply", "commit"} => Past(worker'[w].read)
                   /\ worker'[w].pc \in {"found", "ticket", "blind"} =>
                        worker'[w].read.first = FALSE /\ worker'[w].found # {}
<1> SUFFICES ASSUME IInv, [Next]_vars, NEW w \in Workers PROVE G(w)
  BY DEF ReadingsArePast, OldReading, Together, Follows, Evaluating
<1>1. /\ now \in Nat /\ worker[w].at \in Nat /\ worker[w].at <= now /\ now <= now' /\ now' \in Nat
  BY TypeParts, BoundsAssumption, Monotone DEF IInv, ReadingsArePast, WorkerStates
<1>2. \A k \in Kinds : Follows(timers[k].st, timers'[k].st)
  BY TimersFollow
<1>3. /\ worker[w].pc \in {"reply", "commit"} => Past(worker[w].read)
      /\ worker[w].pc \in {"found", "ticket", "blind"} => worker[w].read.first = FALSE /\ worker[w].found # {}
  BY <1>2, FollowsTransitive DEF IInv, ReadingsArePast, OldReading, Evaluating
<1>4. TypeOK
  BY DEF IInv
<1> HIDE DEF Past
<1>5. CASE Rest(w)
  BY <1>1, <1>3, <1>5 DEF Rest
<1>6. ASSUME Ends(w) PROVE G(w)
  BY <1>1, <1>6 DEF Ends
<1>7. CASE WorkerStep(w)
  <2>1. CASE EvaluateTicket(w)
    BY <1>1, <1>4, <1>6, <2>1, EvaluateTicketFields DEF Begins
  <2>2. CASE ReconcileDueTickets(w)
    BY <1>1, <1>3, <1>4, <1>6, <2>2, ReconcileDueFields DEF Begins
  <2>3. CASE ReadTicket(w)
    BY <1>1, <1>4, <2>3, ReadTicketFields DEF Selects
  <2>4. CASE ReadTimers(w)
    <3>1. /\ worker'[w].at = worker[w].at /\ worker'[w].pc \in {"reply", "commit"}
          /\ \A k \in Kinds : worker'[w].read.seen[k] = timers[k].st
      BY <1>4, <2>4, ReadTimersFields DEF Selects
    <3>2. Past(worker'[w].read)
      BY <1>2, <3>1 DEF Past, IInv, TimersTogether, Together, States
    <3> QED
      BY <1>1, <3>1, <3>2
  <2>5. CASE ReadReply(w)
    <3>1. /\ worker'[w].at = worker[w].at /\ worker'[w].pc = "commit" /\ worker[w].pc = "reply"
          /\ worker'[w].read.seen = worker[w].read.seen
      BY <1>4, <2>5, ReadReplyFields DEF Selects
    <3>2. Past(worker'[w].read)
      BY <1>3, <3>1 DEF Past
    <3> QED
      BY <1>1, <3>1, <3>2
  <2>6. CASE FindDueTimers(w)
    BY <1>4, <1>6, <2>6, FindFields
  <2>7. CASE ClaimAndAlert(w)
    BY <1>4, <1>6, <2>7, ClaimFields
  <2> QED
    BY <1>4, <1>6, <1>7, <2>1, <2>2, <2>3, <2>4, <2>5, <2>6, <2>7, EndFields DEF WorkerStep, Step
<1>8. ASSUME NEW v \in Workers, v # w, WorkerStep(v) PROVE G(w)
  BY <1>4, <1>5, <1>8, WorkerKinds, OthersRest
<1> QED
  BY <1>4, <1>5, <1>7, <1>8, OutsideFields

(* alone and overlapped record every transaction that begins beside another. *)
LEMMA RestIn ==
  ASSUME NEW v \in Workers, Rest(v)
  PROVE  (v \in InTransaction' <=> v \in InTransaction) /\ (worker'[v].alone => worker[v].alone)
  BY DEF Rest, InTransaction

LEMMA NextAlone == IInv /\ [Next]_vars => AloneIsAlone' /\ AloneOrOverlapped'
<1> SUFFICES ASSUME IInv, [Next]_vars PROVE AloneIsAlone' /\ AloneOrOverlapped'
  OBVIOUS
<1>0. TypeOK /\ AloneIsAlone /\ AloneOrOverlapped
  BY DEF IInv
<1>1. ASSUME NEW w \in Workers, Begins(w) PROVE AloneIsAlone' /\ AloneOrOverlapped'
  <2>1. \A v \in Workers \ {w} : v \in InTransaction' => v \in InTransaction /\ ~worker'[v].alone
    BY <1>1, RestIn DEF Begins
  <2>2. AloneIsAlone'
    BY <1>1, <2>1 DEF Begins, AloneIsAlone, InTransaction
  <2>3. AloneOrOverlapped'
    BY <1>1, <2>1 DEF Begins, AloneOrOverlapped, InTransaction
  <2> QED
    BY <2>2, <2>3
<1>2. ASSUME NEW w \in Workers, Selects(w) \/ Ends(w) PROVE AloneIsAlone' /\ AloneOrOverlapped'
  <2>1. \A v \in Workers \ {w} : worker'[v] = worker[v]
    BY <1>2 DEF Selects, Ends, Others
  <2>2. w \in InTransaction' => w \in InTransaction /\ worker'[w].alone = worker[w].alone
    BY <1>2 DEF Selects, Ends, InTransaction
  <2>3. UNCHANGED overlapped
    BY <1>2 DEF Selects, Ends, ghostVars
  <2> QED
    BY <1>0, <2>1, <2>2, <2>3 DEF AloneIsAlone, AloneOrOverlapped, InTransaction
<1>3. CASE \A w \in Workers : ~WorkerStep(w)
  <2>1. /\ \A v \in Workers : Rest(v) /\ (worker[v].alone => worker'[v].alone)
        /\ UNCHANGED overlapped
    BY <1>0, <1>3, OutsideFields DEF ghostVars
  <2> QED
    BY <1>0, <2>1 DEF Rest, AloneIsAlone, AloneOrOverlapped, InTransaction
<1> QED
  BY <1>0, <1>1, <1>2, <1>3, WorkerKinds

(* Beside a transaction that is alone no other commits.                      *)
LEMMA AloneKeepsTimers ==
  ASSUME IInv, [Next]_vars, NEW w \in InTransaction, worker[w].alone, ~Commit(w)
  PROVE  UNCHANGED <<timers, misjudged, breaches>>
<1>1. ASSUME NEW v \in Workers, Commit(v) PROVE FALSE
  <2>1. v \in InTransaction /\ w \in InTransaction
    BY <1>1, CommitReading
  <2> QED
    BY <1>1, <2>1 DEF IInv, AloneIsAlone, InTransaction
<1> QED
  BY <1>1, TimersFrame

LEMMA NextAloneSees == IInv /\ [Next]_vars => AloneSees'
<1> DEFINE G(w) ==
      /\ worker'[w].pc \in {"reply", "commit"} => \A k \in Kinds : worker'[w].read.seen[k] = timers'[k].st
      /\ worker'[w].pc = "blind" => \A k \in worker'[w].found : ~(timers'[k].st = "running" /\ timers'[k].due <= worker'[w].at)
<1> SUFFICES ASSUME IInv, [Next]_vars, NEW w \in Workers, w \in InTransaction', worker'[w].alone PROVE G(w)
  BY DEF AloneSees, Due, InTransaction
<1>0. TypeOK
  BY DEF IInv
<1>1. w \in InTransaction /\ worker[w].alone =>
        /\ worker[w].pc \in {"reply", "commit"} => \A k \in Kinds : worker[w].read.seen[k] = timers[k].st
        /\ worker[w].pc = "blind" => \A k \in worker[w].found : ~(timers[k].st = "running" /\ timers[k].due <= worker[w].at)
  BY DEF IInv, AloneSees, Due
<1>2. ASSUME Rest(w), ~Commit(w) PROVE G(w)
  <2>1. w \in InTransaction /\ worker[w].alone
    BY <1>2, RestIn
  <2>2. UNCHANGED timers
    BY <1>2, <2>1, AloneKeepsTimers
  <2> QED
    BY <1>1, <1>2, <2>1, <2>2 DEF Rest
<1>3. CASE WorkerStep(w)
  <2>1. CASE EvaluateTicket(w)
    BY <1>0, <2>1, EvaluateTicketFields DEF Ends, InTransaction
  <2>2. CASE ReconcileDueTickets(w)
    <3>1. CASE Ends(w)
      BY <3>1 DEF Ends, InTransaction
    <3>2. CASE Begins(w) /\ worker'[w].pc = (IF StillDue(w) # {} THEN "ticket" ELSE "blind")
               /\ worker'[w].found = worker[w].found
      <4>1. worker'[w].at = now /\ UNCHANGED timers
        BY <2>2, <3>2 DEF Begins, ReconcileDueTickets, dataVars
      <4> QED
        BY <3>2, <4>1 DEF StillDue, Due
    <3> QED
      BY <1>0, <2>2, <3>1, <3>2, ReconcileDueFields
  <2>3. CASE ReadTicket(w)
    BY <1>0, <2>3, ReadTicketFields
  <2>4. CASE ReadTimers(w)
    <3>1. worker'[w].pc \in {"reply", "commit"} /\ \A k \in Kinds : worker'[w].read.seen[k] = timers[k].st
      BY <1>0, <2>4, ReadTimersFields
    <3>2. UNCHANGED timers
      BY <2>4 DEF ReadTimers, Select, dataVars
    <3> QED
      BY <3>1, <3>2
  <2>5. CASE ReadReply(w)
    <3>1. /\ worker'[w].pc = "commit" /\ worker[w].pc = "reply"
          /\ worker'[w].read.seen = worker[w].read.seen /\ worker'[w].alone = worker[w].alone
      BY <1>0, <2>5, ReadReplyFields DEF Selects
    <3>2. UNCHANGED timers
      BY <2>5 DEF ReadReply, Select, dataVars
    <3> QED
      BY <1>1, <3>1, <3>2 DEF InTransaction
  <2>6. CASE Ends(w)
    BY <2>6 DEF Ends, InTransaction
  <2> QED
    BY <1>0, <1>3, <2>1, <2>2, <2>3, <2>4, <2>5, <2>6, FindFields, ClaimFields, EndFields DEF WorkerStep, Step
<1>4. CASE ~WorkerStep(w)
  <2>1. ~Commit(w)
    BY <1>4 DEF Commit, WorkerStep, Step
  <2>2. Rest(w)
    <3>1. CASE \E v \in Workers : v # w /\ WorkerStep(v)
      BY <1>0, <3>1, WorkerKinds, OthersRest
    <3>2. CASE \A v \in Workers : ~WorkerStep(v)
      BY <1>0, <3>2, OutsideFields
    <3> QED
      BY <1>4, <3>1, <3>2
  <2> QED
    BY <1>2, <2>1, <2>2
<1> QED
  BY <1>3, <1>4

(* What the ticket wants running.                                            *)
LEMMA WantedIs ==
  ASSUME NEW t \in Tickets
  PROVE  \A k \in Kinds : k \in Wanted(t) <=>
           /\ t.st = "open"
           /\ IF k = "first_response" THEN ~(t.stamped \/ t.replied) ELSE ~t.resolved
<1>1. /\ TicketReading(t).st = t.st /\ TicketReading(t).first = (t.stamped \/ t.replied)
      /\ TicketReading(t).resolved = t.resolved
  BY TicketReadingType
<1> HIDE DEF Statuses
<1>2. t.st \in {"open", "pending", "resolved", "closed"}
  BY DEF Tickets, Statuses
<1> QED
  BY <1>1, <1>2 DEF Wanted, SlaTimerTargetFor

LEMMA RunningIs ==
  ASSUME NEW r \in Readings, NEW k \in Kinds
  PROVE  SlaTimerTargetFor(k, r) = "running" <=>
           r.st = "open" /\ IF k = "first_response" THEN ~r.first ELSE ~r.resolved
  BY DEF SlaTimerTargetFor, Readings

(* The ticket changes in a commit, or in a step that is no worker's.         *)
LEMMA TicketFrame ==
  ASSUME [Next]_vars, NEW w \in Workers, WorkerStep(w), ~Commit(w)
  PROVE  UNCHANGED ticket
  BY DEF Commit, WorkerStep, Step, EvaluateTicket, FindDueTimers, ReconcileDueTickets, Select, ReadTicket,
         ReadTimers, ReadReply, CastFails, TriggerWorkflowEvaluation, EvaluateFail, SweepFail, dataVars

(* A commit stamps the first response, and with it only less is wanted.      *)
LEMMA CommitTicket ==
  ASSUME IInv, NEW w \in Workers, Commit(w)
  PROVE  /\ ticket' \in Tickets /\ ticket'.st = ticket.st /\ ticket'.resolved = ticket.resolved
         /\ ticket'.replied = ticket.replied
         /\ ticket'.stamped = (ticket.stamped \/ worker[w].read.first)
         /\ Wanted(ticket') \subseteq Wanted(ticket)
<1>1. ticket' = StampFirstResponse(worker[w].read) /\ TypeOK /\ ticket \in Tickets
  BY TypeParts DEF Commit, EvaluateCommit, ClaimAndAlert, IInv
<1>2. /\ ticket' \in Tickets /\ ticket'.st = ticket.st /\ ticket'.resolved = ticket.resolved
      /\ ticket'.replied = ticket.replied
      /\ ticket'.stamped = (ticket.stamped \/ worker[w].read.first)
  BY <1>1, CommitReading, StampFields
<1>3. Wanted(ticket') \subseteq Kinds
  BY DEF Wanted
<1> QED
  BY <1>1, <1>2, <1>3, WantedIs

LEMMA NextLive == IInv /\ [Next]_vars => LiveIsWanted'
<1> DEFINE Runs(k, r) == r.st = "open" /\ (IF k = "first_response" THEN ~r.first ELSE ~r.resolved)
           Late(k, w) == ticket.replied /\ k = "first_response" /\ worker[w].pc # "commit"
           LateNext(k, w) == ticket'.replied /\ k = "first_response" /\ worker'[w].pc # "commit"
           HasReadNext(w) == worker'[w].pc \in {"timers", "reply", "commit"}
           G(w) == /\ Wanted(ticket') \subseteq worker'[w].live
                   /\ HasReadNext(w) => \A k \in Kinds : Runs(k, worker'[w].read) =>
                        k \in worker'[w].live \/ LateNext(k, w)
           H(w) == /\ Wanted(ticket) \subseteq worker[w].live
                   /\ HasRead(w) => \A k \in Kinds : Runs(k, worker[w].read) =>
                        k \in worker[w].live \/ Late(k, w)
<1>0. TypeOK <=> Types
  BY TypeParts
<1> SUFFICES ASSUME IInv, [Next]_vars, NEW w \in Workers, w \in InTransaction', worker'[w].found # {}
             PROVE  G(w)
  <2>1. ASSUME IInv, [Next]_vars, NEW w \in Workers, w \in InTransaction', worker'[w].found # {}, G(w)
        PROVE  /\ Wanted(ticket') \subseteq worker'[w].live
               /\ HasRead(w)' => \A k \in Kinds : SlaTimerTargetFor(k, worker'[w].read) = "running" =>
                    k \in worker'[w].live \/ LateNext(k, w)
    <3>1. worker'[w].read \in Readings
      BY <2>1, NextTypeOK, TypesNext DEF WorkerStates
    <3> QED
      BY <2>1, <3>1, RunningIs DEF HasRead
  <2> QED
    BY <2>1 DEF LiveIsWanted, Evaluating, InTransaction, Wanted, SlaTimerTargetFor, HasRead
<1>1. TypeOK /\ ticket \in Tickets /\ ticket.replied \in BOOLEAN
  BY <1>0 DEF IInv, Tickets
<1>2. w \in InTransaction /\ worker[w].found # {} => H(w)
  <2>1. worker[w].read \in Readings
    BY <1>0, <1>1 DEF WorkerStates
  <2> QED
    BY <2>1, RunningIs DEF IInv, LiveIsWanted, Evaluating
<1>3. CASE EvaluateTicket(w) \/ ReconcileDueTickets(w)
  <2>1. UNCHANGED ticket
    BY <1>3 DEF EvaluateTicket, ReconcileDueTickets, dataVars
  <2>2. ~Ends(w)
    BY DEF Ends, InTransaction
  <2>3. worker'[w].live = Wanted(ticket) /\ worker'[w].pc \in {"ticket", "blind"}
    BY <1>1, <1>3, <2>2, EvaluateTicketFields, ReconcileDueFields
  <2> QED
    BY <2>1, <2>3
<1>4. CASE ReadTicket(w) \/ ReadTimers(w) \/ ReadReply(w)
  <2>1. Selects(w) /\ worker[w].pc \in {"ticket", "timers", "reply"}
    BY <1>1, <1>4, ReadTicketFields, ReadTimersFields, ReadReplyFields
  <2>2. UNCHANGED ticket /\ worker'[w].live = worker[w].live /\ H(w)
    BY <1>2, <2>1 DEF Selects, dataVars, InTransaction
  <2>3. CASE ReadTicket(w)
    <3>1. /\ worker'[w].pc = "timers" /\ worker'[w].read.st = ticket.st
          /\ worker'[w].read.first = ticket.stamped /\ worker'[w].read.resolved = ticket.resolved
      BY <1>1, <2>3, ReadTicketFields, TicketReadType
    <3> QED
      BY <1>1, <2>2, <3>1, WantedIs
  <2>4. CASE ReadTimers(w)
    <3>1. /\ worker[w].pc = "timers" /\ worker'[w].pc = (IF worker[w].read.first THEN "commit" ELSE "reply")
          /\ worker'[w].read.st = worker[w].read.st /\ worker'[w].read.first = worker[w].read.first
          /\ worker'[w].read.resolved = worker[w].read.resolved
      BY <1>1, <2>4, ReadTimersFields
    <3> QED
      BY <2>2, <3>1 DEF HasRead
  <2>5. CASE ReadReply(w)
    <3>1. /\ worker[w].pc = "reply" /\ worker'[w].pc = "commit"
          /\ worker'[w].read.st = worker[w].read.st
          /\ worker'[w].read.first = (worker[w].read.first \/ ticket.replied)
          /\ worker'[w].read.resolved = worker[w].read.resolved
      BY <1>1, <2>5, ReadReplyFields
    <3> QED
      BY <2>2, <3>1 DEF HasRead
  <2> QED
    BY <1>4, <2>3, <2>4, <2>5
<1>5. ~Ends(w)
  BY DEF Ends, InTransaction
<1>6. CASE \E v \in Workers \ {w} : WorkerStep(v)
  <2>1. PICK v \in Workers \ {w} : WorkerStep(v)
    BY <1>6
  <2>2. Rest(w) /\ worker'[w].live = worker[w].live
    BY <1>1, <2>1, WorkerKinds, OthersRest
  <2>3. H(w)
    BY <1>2, <2>2, RestIn DEF Rest
  <2>4. ticket'.replied = ticket.replied /\ Wanted(ticket') \subseteq Wanted(ticket)
    BY <2>1, CommitTicket, TicketFrame
  <2> QED
    BY <2>2, <2>3, <2>4 DEF Rest, HasRead
<1>7. CASE \A v \in Workers : ~WorkerStep(v)
  <2>1. Rest(w) /\ (Changed \/ Quiet)
    BY <1>1, <1>7, OutsideFields
  <2>2. w \in InTransaction /\ worker[w].found # {} /\ H(w)
    BY <1>2, <2>1, RestIn DEF Rest
  <2>3. CASE Changed
    <3>1. worker'[w].live = worker[w].live \cup Wanted(ticket') /\ (ticket.replied => ticket'.replied)
      BY <2>2, <2>3 DEF Changed, Evaluating
    <3> QED
      BY <2>1, <2>2, <3>1 DEF Rest, HasRead
  <2>4. CASE Quiet
    BY <2>2, <2>4 DEF Quiet, HasRead
  <2> QED
    BY <2>1, <2>3, <2>4
<1> QED
  BY <1>1, <1>3, <1>4, <1>5, <1>6, <1>7, FindFields, ClaimFields, EndFields DEF WorkerStep, Step

-----------------------------------------------------------------------------
LEMMA NoOverlapBefore == [Next]_vars /\ ~overlapped' => ~overlapped
  BY DEF Next, Step, EvaluateTicket, EvaluateCommit, FindDueTimers, ReconcileDueTickets, ReadTicket,
         ReadTimers, ReadReply, Select, CastFails, ClaimAndAlert, TriggerWorkflowEvaluation, EvaluateFail,
         SweepFail, TicketStep, SendReply, Pause, Resume, FinishTicket, Change, ChangeTenant, Tick,
         StartTransaction, ghostVars, vars

(* A drop of an evaluation is never forgotten, and a job that was not taken  *)
(* stays; a step that is not a commit leaves the ticket, or has it evaluated.*)
LEMMA JobsFrame ==
  ASSUME IInv, [Next]_vars, faults' = faults, \A w \in Workers : ~Commit(w) /\ ~EvaluateTicket(w)
  PROVE  /\ jobs > 0 => jobs' > 0
         /\ UNCHANGED <<ticket, jobs>> \/ jobs' > 0
<1>1. jobs \in Nat /\ faults \in Nat /\ TypeOK
  BY TypeParts, BoundsAssumption DEF IInv
<1>2. ASSUME NEW w \in Workers, WorkerStep(w) PROVE UNCHANGED ticket /\ (UNCHANGED jobs \/ jobs' = jobs + 1)
  <2>1. UNCHANGED ticket
    BY <1>2, TicketFrame
  <2>2. UNCHANGED jobs \/ jobs' = jobs + 1
    BY <1>2 DEF WorkerStep, Step, Commit, FindDueTimers, ReconcileDueTickets, ReadTicket, ReadTimers,
                ReadReply, Select, CastFails, TriggerWorkflowEvaluation, EvaluateFail, SweepFail
  <2> QED
    BY <2>1, <2>2
<1>3. CASE \A w \in Workers : ~WorkerStep(w)
  BY <1>1, <1>3, OutsideFields DEF Changed, Quiet
<1> QED
  BY <1>1, <1>2, <1>3

LEMMA DroppedStays == [Next]_vars /\ dropped => dropped'
  BY DEF Next, Step, EvaluateTicket, EvaluateCommit, FindDueTimers, ReconcileDueTickets, ReadTicket,
         ReadTimers, ReadReply, Select, CastFails, ClaimAndAlert, TriggerWorkflowEvaluation, EvaluateFail,
         SweepFail, TicketStep, SendReply, Pause, Resume, FinishTicket, Change, ChangeTenant, Tick,
         ghostVars, vars

LEMMA NextCurrent == IInv /\ [Next]_vars => ReadingsAreCurrent'
<1> DEFINE CurrentNext(w) ==
             /\ worker'[w].read.st = ticket'.st /\ worker'[w].read.resolved = ticket'.resolved
             /\ worker'[w].read.first = (ticket'.stamped \/ (worker'[w].pc = "commit" /\ ticket'.replied))
           HasReadNext(w) == worker'[w].pc \in {"timers", "reply", "commit"}
           G(w) == HasReadNext(w) => jobs' > 0 \/ dropped' \/ CurrentNext(w)
<1> SUFFICES ASSUME IInv, [Next]_vars, ~overlapped', faults' = 0, NEW w \in Workers PROVE G(w)
  BY DEF ReadingsAreCurrent, HasRead, Current
<1>0. ~overlapped /\ faults = 0 /\ faults' = faults
  BY NoOverlapBefore, Monotone, TypeParts, BoundsAssumption DEF IInv
<1>1. TypeOK /\ ticket \in Tickets /\ jobs \in Nat /\ ticket.stamped \in BOOLEAN
  BY TypeParts DEF IInv, Tickets
<1>2. HasRead(w) => jobs > 0 \/ dropped \/ Current(w)
  BY <1>0 DEF IInv, ReadingsAreCurrent
<1>3. ASSUME NEW v \in Workers, Commit(v) PROVE G(w)
  <2>1. v \in InTransaction /\ worker[v].alone
    BY <1>0, <1>3, CommitReading DEF IInv, AloneOrOverlapped
  <2>2. Ends(v)
    BY <1>1, <1>3, EndFields, ClaimFields DEF Commit
  <2>3. v = w => ~HasReadNext(w)
    BY <2>2 DEF Ends
  <2>4. v # w => ~HasReadNext(w)
    <3>1. ASSUME v # w, HasReadNext(w) PROVE FALSE
      <4>1. w \in InTransaction
        BY <2>2, <3>1 DEF Ends, Others, InTransaction
      <4> QED
        BY <2>1, <3>1, <4>1 DEF IInv, AloneIsAlone
    <3> QED
      BY <3>1
  <2> QED
    BY <2>3, <2>4
<1>4. ASSUME NEW v \in Workers, EvaluateTicket(v) PROVE G(w)
  <2>1. UNCHANGED ticket
    BY <1>4 DEF EvaluateTicket, dataVars
  <2>2. CASE Ends(v) /\ dropped' = TRUE
    BY <2>2
  <2>3. CASE Begins(v) /\ worker'[v].pc = "timers" /\ worker'[v].read = TicketRead
    <3>1. ASSUME v = w PROVE CurrentNext(w)
      <4>1. /\ worker'[w].read.st = ticket.st /\ worker'[w].read.first = ticket.stamped
            /\ worker'[w].read.resolved = ticket.resolved
        BY <1>1, <2>3, <3>1, TicketReadType
      <4> QED
        BY <1>1, <2>1, <2>3, <3>1, <4>1
    <3>2. v # w => ~HasReadNext(w)
      <4>1. InTransaction \ {v} = {}
        BY <2>3 DEF Begins
      <4> QED
        BY <2>3, <4>1 DEF Begins, Rest, InTransaction
    <3> QED
      BY <3>1, <3>2
  <2> QED
    BY <1>1, <1>4, <2>2, <2>3, EvaluateTicketFields
<1>5. CASE \A v \in Workers : ~Commit(v) /\ ~EvaluateTicket(v)
  <2>1. /\ jobs > 0 => jobs' > 0
        /\ UNCHANGED <<ticket, jobs>> \/ jobs' > 0
    BY <1>0, <1>5, JobsFrame
  <2>2. CASE Rest(w)
    BY <1>2, <2>1, <2>2, DroppedStays DEF Rest, HasRead, Current
  <2>3. CASE ReadTicket(w)
    <3>1. UNCHANGED ticket
      BY <2>3 DEF ReadTicket, Select, dataVars
    <3>2. /\ worker'[w].read.st = ticket.st /\ worker'[w].read.first = ticket.stamped
          /\ worker'[w].read.resolved = ticket.resolved /\ worker'[w].pc = "timers"
      BY <1>1, <2>3, ReadTicketFields, TicketReadType
    <3> QED
      BY <1>1, <3>1, <3>2
  <2>4. CASE ReadTimers(w)
    <3>1. /\ worker[w].pc = "timers" /\ worker'[w].pc = (IF worker[w].read.first THEN "commit" ELSE "reply")
          /\ worker'[w].read.st = worker[w].read.st /\ worker'[w].read.first = worker[w].read.first
          /\ worker'[w].read.resolved = worker[w].read.resolved
      BY <1>1, <2>4, ReadTimersFields
    <3> QED
      BY <1>2, <2>1, <3>1, DroppedStays DEF HasRead, Current
  <2>5. CASE ReadReply(w)
    <3>1. /\ worker[w].pc = "reply" /\ worker'[w].pc = "commit"
          /\ worker'[w].read.st = worker[w].read.st
          /\ worker'[w].read.first = (worker[w].read.first \/ ticket.replied)
          /\ worker'[w].read.resolved = worker[w].read.resolved
      BY <1>1, <2>5, ReadReplyFields
    <3> QED
      BY <1>2, <2>1, <3>1, DroppedStays DEF HasRead, Current
  <2>6. CASE ReconcileDueTickets(w)
    <3>1. worker'[w].pc \in {"ticket", "blind"} \/ Ends(w)
      BY <1>1, <2>6, ReconcileDueFields
    <3> QED
      BY <3>1 DEF Ends
  <2>7. CASE FindDueTimers(w) \/ CastFails(w) \/ TriggerWorkflowEvaluation(w) \/ EvaluateFail(w) \/ SweepFail(w)
    BY <1>1, <2>7, FindFields, EndFields DEF Ends
  <2>8. ASSUME NEW v \in Workers, v # w, WorkerStep(v) PROVE G(w)
    BY <1>1, <2>2, <2>8, WorkerKinds, OthersRest
  <2>9. CASE \A v \in Workers : ~WorkerStep(v)
    BY <1>1, <2>2, <2>9, OutsideFields
  <2>10. WorkerStep(w) =>
           \/ ReadTicket(w) \/ ReadTimers(w) \/ ReadReply(w) \/ ReconcileDueTickets(w)
           \/ FindDueTimers(w) \/ CastFails(w) \/ TriggerWorkflowEvaluation(w) \/ EvaluateFail(w) \/ SweepFail(w)
    BY <1>5 DEF WorkerStep, Step, Commit
  <2> HIDE DEF G
  <2> QED
    BY <2>3, <2>4, <2>5, <2>6, <2>7, <2>8, <2>9, <2>10
<1> HIDE DEF G
<1> QED
  BY <1>3, <1>4, <1>5

(* A pause that is too long stays so.                                        *)
LEMMA TooLongGrows ==
  ASSUME NEW t \in Timers, NEW a \in Nat, NEW b \in Nat, a <= b, TooLong(t, a)
  PROVE  TooLong(t, b)
<1>1. t.pausedAt \in Int /\ t.pausedFor \in Int /\ MaxPause \in Int
  BY BoundsAssumption, MaxPauseAssumption DEF Timers
<1>2. a - t.pausedAt > MaxPause \/ t.pausedFor + (a - t.pausedAt) > MaxPause
  BY DEF TooLong
<1>3. b - t.pausedAt > MaxPause \/ t.pausedFor + (b - t.pausedAt) > MaxPause
  BY <1>1, <1>2
<1> QED
  BY <1>3 DEF TooLong

LEMMA OverlongStays ==
  ASSUME IInv, [Next]_vars, Overlong, UNCHANGED timers
  PROVE  Overlong'
<1>1. PICK k \in Kinds : timers[k].st = "paused" /\ TooLong(timers[k], now)
  BY DEF Overlong
<1>2. timers[k] \in Timers /\ now \in Nat /\ now' \in Nat /\ now <= now'
  BY TypeParts, Monotone, BoundsAssumption DEF IInv
<1>3. TooLong(timers[k], now')
  BY <1>1, <1>2, TooLongGrows
<1> QED
  BY <1>1, <1>3 DEF Overlong, TooLong

LEMMA CastFailsOverlong ==
  ASSUME IInv, [Next]_vars, NEW w \in Workers, CastFails(w)
  PROVE  Overlong'
<1>1. PICK k \in Kinds : timers[k].st = "paused" /\ TooLong(timers[k], worker[w].at)
  BY DEF CastFails, CastRaises
<1>2. timers[k] \in Timers /\ now \in Nat /\ worker[w].at \in Nat /\ worker[w].at <= now
  BY TypeParts, BoundsAssumption DEF IInv, WorkerStates, ReadingsArePast
<1>3. TooLong(timers[k], now)
  BY <1>1, <1>2, TooLongGrows
<1>4. Overlong /\ UNCHANGED timers
  BY <1>1, <1>3 DEF Overlong, CastFails, dataVars
<1> QED
  BY <1>4, OverlongStays

(* Without overlaps and faults the commit of a reconciliation goes by a      *)
(* reading that is true, and a commit without one changes no more than it    *)
(* claims.                                                                   *)
LEMMA CommitAgrees ==
  ASSUME IInv, NEW w \in Workers, Commit(w), worker[w].alone, worker[w].pc = "commit", Current(w),
         NEW k \in Kinds
  PROVE  timers'[k].st \in {SlaTimerTargetFor(k, TicketReading(ticket')), "breached", "met", "cancelled"}
<1> DEFINE r == worker[w].read
<1>1. /\ r \in Readings /\ OldReading(r) /\ worker[w].at \in 0..MaxTime /\ w \in InTransaction
      /\ TypeOK /\ TimersTogether
  BY CommitReading DEF IInv
<1>2. \A l \in Kinds : r.seen[l] = timers[l].st
  BY <1>1 DEF IInv, AloneSees
<1>3. ReconcileTimers(r, worker[w].at)[k].st \in {SlaTimerTargetFor(k, r), "breached", "met", "cancelled"}
  BY <1>1, <1>2, ReconcileExact
<1>4. timers'[k].st \in {SlaTimerTargetFor(k, r), "breached", "met", "cancelled"}
  <2>1. Reconciled(w) = ReconcileTimers(r, worker[w].at)
    BY DEF Reconciled, At
  <2> QED
    BY <1>3, <2>1, CommitTimer
<1>5. /\ ticket' \in Tickets /\ ticket'.st = r.st /\ ticket'.resolved = r.resolved
      /\ r.first = (ticket'.stamped \/ ticket'.replied)
  BY CommitTicket DEF Current
<1>6. TicketReading(ticket').st = r.st /\ TicketReading(ticket').resolved = r.resolved
      /\ TicketReading(ticket').first = r.first
  BY <1>5, TicketReadingType
<1>7. SlaTimerTargetFor(k, TicketReading(ticket')) = SlaTimerTargetFor(k, r)
  BY <1>6 DEF SlaTimerTargetFor
<1> QED
  BY <1>4, <1>7

LEMMA BlindAgrees ==
  ASSUME IInv, NEW w \in Workers, Commit(w), worker[w].pc = "blind", worker[w].read.first = FALSE,
         NEW k \in Kinds, Agrees(k)
  PROVE  timers'[k].st \in {SlaTimerTargetFor(k, TicketReading(ticket')), "breached", "met", "cancelled"}
<1>1. Reconciled(w) = timers
  BY DEF Reconciled, At
<1>2. timers'[k].st \in {timers[k].st, "breached"}
  BY <1>1, CommitTimer
<1>3. ticket \in Tickets /\ ticket.stamped \in BOOLEAN
  BY TypeParts DEF IInv, Tickets
<1>4. /\ ticket' \in Tickets /\ ticket'.st = ticket.st /\ ticket'.resolved = ticket.resolved
      /\ ticket'.stamped = ticket.stamped /\ ticket'.replied = ticket.replied
  BY <1>3, CommitTicket
<1>5. /\ TicketReading(ticket').st = TicketReading(ticket).st
      /\ TicketReading(ticket').resolved = TicketReading(ticket).resolved
      /\ TicketReading(ticket').first = TicketReading(ticket).first
  BY <1>3, <1>4, TicketReadingType
<1>6. SlaTimerTargetFor(k, TicketReading(ticket')) = SlaTimerTargetFor(k, TicketReading(ticket))
  BY <1>5 DEF SlaTimerTargetFor
<1> QED
  BY <1>2, <1>6 DEF Agrees

LEMMA BlindOverlong ==
  ASSUME IInv, [Next]_vars, NEW w \in Workers, Commit(w), worker[w].pc = "blind", Overlong
  PROVE  Overlong'
<1>1. PICK k \in Kinds : timers[k].st = "paused" /\ TooLong(timers[k], now)
  BY DEF Overlong
<1>2. Reconciled(w) = timers
  BY DEF Reconciled, At
<1>3. timers'[k] = timers[k]
  BY <1>1, <1>2, CommitTimer
<1>4. UNCHANGED now
  BY DEF Commit, EvaluateCommit, ClaimAndAlert
<1> QED
  BY <1>1, <1>3, <1>4 DEF Overlong, TooLong

LEMMA NextDue == IInv /\ [Next]_vars => EvaluationIsDue'
<1> DEFINE AgreesNext(k) ==
             timers'[k].st \in {SlaTimerTargetFor(k, TicketReading(ticket')), "breached", "met", "cancelled"}
<1> SUFFICES ASSUME IInv, [Next]_vars, ~overlapped', faults' = 0, ~(jobs' > 0), ~dropped', ~Overlong',
                    ~\E w \in Workers : worker'[w].pc \in TransactionPCs /\ worker'[w].found = {},
                    NEW k \in Kinds
             PROVE  AgreesNext(k)
  BY DEF EvaluationIsDue, Evaluating, InTransaction, Agrees, TicketReading, SlaTimerTargetFor
<1>0. ~overlapped /\ faults = 0 /\ faults' = faults /\ TypeOK /\ ~dropped
  BY NoOverlapBefore, DroppedStays, Monotone, TypeParts, BoundsAssumption DEF IInv
<1>1. \/ jobs > 0 \/ Overlong
      \/ \E w \in InTransaction : Evaluating(w)
      \/ Agrees(k)
  BY <1>0 DEF IInv, EvaluationIsDue
<1>2. ASSUME NEW w \in Workers, Commit(w) PROVE AgreesNext(k)
  <2>1. w \in InTransaction /\ worker[w].alone /\ UNCHANGED jobs
    BY <1>0, <1>2, CommitReading DEF IInv, AloneOrOverlapped, Commit, EvaluateCommit, ClaimAndAlert
  <2>2. CASE worker[w].pc = "commit"
    <3>1. Current(w)
      BY <1>0, <2>1, <2>2 DEF IInv, ReadingsAreCurrent, HasRead
    <3> QED
      BY <1>2, <2>1, <2>2, <3>1, CommitAgrees
  <2>3. CASE worker[w].pc = "blind" /\ worker[w].read.first = FALSE /\ ~Evaluating(w)
    <3>1. ASSUME NEW v \in InTransaction, Evaluating(v) PROVE FALSE
      BY <2>1, <2>3, <3>1 DEF IInv, AloneIsAlone, InTransaction
    <3>2. ~Overlong
      BY <1>2, <2>3, BlindOverlong
    <3>3. Agrees(k)
      BY <1>1, <2>1, <3>1, <3>2
    <3> QED
      BY <1>2, <2>3, <3>3, BlindAgrees
  <2> QED
    BY <1>2, <2>2, <2>3, CommitReading
<1>3. ASSUME NEW w \in Workers, EvaluateTicket(w) PROVE FALSE
  BY <1>0, <1>3, EvaluateTicketFields DEF Begins
<1>4. CASE \A w \in Workers : ~Commit(w)
  <2>1. UNCHANGED <<ticket, jobs, timers>>
    BY <1>0, <1>3, <1>4, JobsFrame, TimersFrame
  <2>2. ~Overlong
    BY <2>1, OverlongStays
  <2>3. ASSUME NEW v \in InTransaction, Evaluating(v) PROVE FALSE
    <3>1. v \in Workers /\ worker[v].pc \in TransactionPCs /\ worker[v].found = {}
      BY <2>3 DEF InTransaction, Evaluating
    <3>2. ~Rest(v)
      BY <3>1 DEF Rest
    <3>3. WorkerStep(v)
      BY <1>0, <3>1, <3>2, WorkerKinds, OthersRest, OutsideFields
    <3>4. ~Selects(v)
      BY <3>1 DEF Selects
    <3>5. ~(ReadTicket(v) \/ ReadTimers(v) \/ ReadReply(v))
      BY <1>0, <3>1, <3>4, ReadTicketFields, ReadTimersFields, ReadReplyFields
    <3>6. ~EvaluateFail(v) /\ ~CastFails(v) /\ ~SweepFail(v)
      BY <1>0, <2>3, <3>1, CastFailsOverlong DEF EvaluateFail, Fault, SweepFail
    <3>7. ~FindDueTimers(v) /\ ~ReconcileDueTickets(v) /\ ~TriggerWorkflowEvaluation(v)
      BY <3>1 DEF FindDueTimers, ReconcileDueTickets, TriggerWorkflowEvaluation, At
    <3> QED
      BY <1>3, <1>4, <3>1, <3>3, <3>5, <3>6, <3>7 DEF WorkerStep, Step, Commit
  <2>4. Agrees(k)
    BY <1>1, <2>1, <2>2, <2>3
  <2> QED
    BY <2>1, <2>4 DEF Agrees
<1> QED
  BY <1>2, <1>4

-----------------------------------------------------------------------------
(* IInv is inductive. *)
THEOREM IInvInvariant == Spec => []IInv
<1>1. IInv /\ [Next]_vars => IInv'
  BY NextTypeOK, NextDeadline, NextTogether, NextMisjudged, NextBreached, NextPast, NextAlone,
     NextAloneSees, NextLive, NextCurrent, NextDue DEF IInv
<1> QED
  BY InitIInv, <1>1, PTL DEF Spec

(* Evaluations, sweeps and changes of the ticket and the tenant keep the     *)
(* types of the timers and of what the workers have read.                    *)
THEOREM SlaTypes == Spec => []TypeOK
<1>1. IInv => TypeOK
  BY DEF IInv
<1> QED
  BY IInvInvariant, <1>1, PTL

(* For every policy and every interleaving of applyTransition's updates, the *)
(* deadline of a live or breached timer is the window plus the time paused.  *)
THEOREM DeadlinesAccounted == Spec => []DeadlineAccounted
<1>1. IInv => DeadlineAccounted
  BY DEF IInv
<1> QED
  BY IInvInvariant, <1>1, PTL

(* However many sweeps find a timer overdue, claimAndAlert breaches it once, *)
(* and hands the breach on unless the process dies.                          *)
THEOREM BreachesOnce == Spec => []BreachedOnce
<1>1. IInv => BreachedOnce
  BY DEF IInv
<1> QED
  BY IInvInvariant, <1>1, PTL

(* A sweep beside which no other transaction runs breaches only a clock that *)
(* the ticket wanted running at some moment of its transaction, though its   *)
(* SELECTs are read committed and it claims all that findDueTimers found.    *)
THEOREM SweepsJudgeWhatTheyRead == Spec => []LostJobBreachesNothing
<1>1. IInv => LostJobBreachesNothing
  BY DEF IInv
<1> QED
  BY IInvInvariant, <1>1, PTL

(* When transactions ran one after the other and nothing failed, the last    *)
(* evaluation leaves every timer as the ticket wants it, or stopped, unless  *)
(* a job was dropped or a pause outgrew its column.                          *)
THEOREM SerialConvergence == Spec => []SerialEvaluationsConverge
<1>1. IInv => SerialEvaluationsConverge
  BY DEF IInv, EvaluationIsDue, SerialEvaluationsConverge, Settled, InTransaction, At
<1> QED
  BY IInvInvariant, <1>1, PTL
=============================================================================
