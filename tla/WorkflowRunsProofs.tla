--------------------------- MODULE WorkflowRunsProofs ---------------------------
(***************************************************************************)
(* Proofs about WorkflowRuns, for every set of workflows, every number of  *)
(* workers and every depth, budget, number of events, acts and faults.     *)
(*                                                                         *)
(* The unique key of a run makes the worker that claimed it its only       *)
(* owner, which carries most of the invariants.  The hourly budget needs   *)
(* an account: a worker that has counted once holds the candidates it has  *)
(* left as licences, one short of all event workflows, and the runs of the *)
(* hour that acted and the licences still held never exceed the bound.     *)
(***************************************************************************)
EXTENDS WorkflowRuns, FiniteSetTheorems, TLAPS

(* What the record x of a worker holds at each place of the handler. *)
RunPCs == {"budget", "act", "close", "closeOver", "reclose", "disarm", "raise"}
Key(x) == <<x.w, x.job.occ>>
Sound(x) ==
  /\ x.pc = "idle" => x = Idle
  /\ x.job.depth <= MaxChainDepth
  /\ \A w \in x.left : Trigger[w] = TypeOf(x.job.occ)
  /\ x.pc \in {"first", "claim"} => x.left # {}
  /\ x.pc = "first" => x.job.occ = Elapsed
  /\ x.pc \in RunPCs => /\ x.w \in Workflows \ x.left
                        /\ Trigger[x.w] = TypeOf(x.job.occ)
                        /\ x.next \in 1..ActionCount[x.w]
  /\ x.raised # {} => x.pc \in {"act", "close", "disarm", "raise"}
  /\ x.pc = "raise" => x.raised # {}
  /\ x.pc \notin {"idle", "first"} /\ x.job.occ = Elapsed => x.over = "no"
  /\ x.reason = "run_budget_exceeded" => x.job.occ # Elapsed
  /\ x.pc = "reclose" => x.reason = "none"
  /\ x.pc = "closeOver" => x.reason = "run_budget_exceeded"
WorkersSound == \A k \in Workers : Sound(worker[k])

(* A run has one owner, which knows how far it is. *)
OneOwner == \A j, k \in Workers : InRun(j) /\ InRun(k) /\ Current(j) = Current(k) => j = k
RunsSound ==
  /\ \A k \in Workers : /\ worker[k].pc \in {"disarm", "raise"} => runs[Current(k)].st = "closed"
                        /\ At(k, "budget") => performed[Current(k)] = 0
  /\ \A key \in Keys : /\ runs[key].st = "none" => performed[key] = 0
                       /\ runs[key].depth <= MaxChainDepth
                       /\ key[2] = Elapsed => runs[key].reason # "run_budget_exceeded"

(* A gap that was met is being closed, or was; and every notice is one of an *)
(* arming that is over.                                                      *)
GapsAreClosed ==
  /\ \A key \in Keys :
       runs[key].reason = "reference_missing" /\ key \notin abandoned =>
         \/ \E k \in Workers : worker[k].pc \in {"disarm", "reclose"} /\ Current(k) = key
         \/ key[1] \notin armed \/ arms[key[1]] > 1
  /\ \A w \in Workflows : /\ arms[w] >= 1 /\ notices[w] <= arms[w]
                          /\ w \in armed => notices[w] < arms[w]

(* The runs of the hour that acted, and the licences of the workers that     *)
(* have counted the budget: the event workflows they may still run.          *)
Acted == {key \in recent : key[2] # Elapsed /\ performed[key] > 0}
Licence(x) ==
  IF x.over = "no" /\ x.job.occ # Elapsed
  THEN x.left \cup (IF x.pc = "budget" THEN {x.w} ELSE {}) ELSE {}
Licences == {p \in Workers \X EventWorkflows : p[2] \in Licence(worker[p[1]])}
Spare(x) == EventWorkflows # {} => \E w \in EventWorkflows : w \notin Licence(x)
BudgetKept ==
  /\ \A k \in Workers : Spare(worker[k])
  /\ Cardinality(Acted) + Cardinality(Licences) <= Budget + Cardinality(Workers) * FurtherCandidates

IInv ==
  /\ TypeOK /\ WorkersSound /\ OneOwner /\ RunsSound
  /\ ActionsOnce /\ OpenRunNeedsCrash /\ GapsAreClosed /\ OccurrenceLostNeedsFault
  /\ BudgetKept

USE DEF PCs, Reasons, RunPCs

-----------------------------------------------------------------------------
(* The smallest of a set of positions, or of occurrences. *)
LEMMA MinIn == ASSUME NEW S \in SUBSET Nat, S # {} PROVE Min(S) \in S
<1> DEFINE R == {ss \in Nat \X Nat : ss[1] < ss[2]}
<1>1. OpToRel(<, Nat) = R
  BY DEF OpToRel
<1>2. PICK x \in S : \A y \in S : ~(<<y, x>> \in R)
  BY <1>1, NatLessThanWellFounded, WFMin
<1>3. ASSUME NEW y \in S PROVE x <= y
  <2>1. x \in Nat /\ y \in Nat
    OBVIOUS
  <2>2. <<y, x>> \in Nat \X Nat /\ <<y, x>>[1] = y /\ <<y, x>>[2] = x
    BY <2>1
  <2>3. ~(<<y, x>>[1] < <<y, x>>[2])
    BY <1>2, <2>2
  <2> QED
    BY <2>1, <2>2, <2>3
<1> QED
  BY <1>3 DEF Min

LEMMA OccurrenceType == Elapsed \in Occurrences /\ Occurrences \subseteq Nat
  BY BoundsAssumption DEF Elapsed, Occurrences

LEMMA IdleType ==
  /\ NoJob \in JobRecords /\ Idle \in WorkerRecords /\ Idle.pc = "idle" /\ Idle.left = {}
  /\ Idle.raised = {} /\ Idle.reason = "none" /\ Idle.over = "unknown" /\ Idle.job = NoJob
  /\ NoJob.depth = 0 /\ NoJob.occ = Elapsed
<1>1. NoJob \in JobRecords
  BY BoundsAssumption DEF NoJob, JobRecords, Elapsed, Occurrences
<1> QED
  BY <1>1, OccurrenceType DEF Idle, WorkerRecords, Elapsed, NoJob

LEMMA IdleSound == Sound(Idle) /\ Licence(Idle) = {}
  BY IdleType, BoundsAssumption DEF Sound, Licence

(* The records the steps write. *)
LEMMA NextCandidateFields ==
  ASSUME NEW x \in WorkerRecords
  PROVE  \E s \in WorkerRecords :
         /\ NextCandidate(x) = s
         /\ \/ x.left = {} /\ s = Idle
            \/ /\ x.left # {}
               /\ s.pc = "claim" /\ s.job = x.job /\ s.left = x.left /\ s.over = x.over
               /\ s.raised = {} /\ s.reason = "none"
<1> DEFINE s == [Idle EXCEPT !.pc = "claim", !.job = x.job, !.left = x.left, !.over = x.over]
<1>1. x.job \in JobRecords /\ x.left \in SUBSET Workflows /\ x.over \in {"unknown", "yes", "no"}
  BY DEF WorkerRecords
<1>2. /\ s \in WorkerRecords /\ s.pc = "claim" /\ s.job = x.job /\ s.left = x.left /\ s.over = x.over
      /\ s.raised = Idle.raised /\ s.reason = Idle.reason
  <2> DEFINE j == x.job
             L == x.left
             o == x.over
  <2>1. /\ j \in JobRecords /\ L \in SUBSET Workflows /\ o \in {"unknown", "yes", "no"}
        /\ "claim" \in PCs /\ Idle \in WorkerRecords
    BY <1>1, IdleType
  <2> HIDE DEF j, L, o
  <2>2. LET t == [Idle EXCEPT !.pc = "claim", !.job = j, !.left = L, !.over = o] IN
        /\ t \in WorkerRecords /\ t.pc = "claim" /\ t.job = j /\ t.left = L /\ t.over = o
        /\ t.raised = Idle.raised /\ t.reason = Idle.reason
    BY <2>1 DEF WorkerRecords
  <2> QED
    BY <2>2 DEF j, L, o
<1>3. NextCandidate(x) = IF x.left = {} THEN Idle ELSE s
  BY DEF NextCandidate
<1> HIDE DEF s
<1> QED
  BY <1>2, <1>3, IdleType

LEMMA NextCandidateSound ==
  ASSUME NEW x \in WorkerRecords, Sound(x), x.pc \notin {"idle", "first"}
  PROVE  \E s \in WorkerRecords :
         /\ NextCandidate(x) = s /\ s.pc \in {"idle", "claim"} /\ s.raised = {} /\ Sound(s)
         /\ Licence(s) \subseteq Licence(x)
<1>1. PICK s \in WorkerRecords :
         /\ NextCandidate(x) = s
         /\ \/ x.left = {} /\ s = Idle
            \/ /\ x.left # {}
               /\ s.pc = "claim" /\ s.job = x.job /\ s.left = x.left /\ s.over = x.over
               /\ s.raised = {} /\ s.reason = "none"
  BY NextCandidateFields
<1>2. ASSUME s = Idle PROVE s.pc \in {"idle", "claim"} /\ s.raised = {} /\ Sound(s) /\ Licence(s) \subseteq Licence(x)
  BY <1>2, IdleType, IdleSound
<1>3. ASSUME s # Idle PROVE s.pc \in {"idle", "claim"} /\ s.raised = {} /\ Sound(s) /\ Licence(s) \subseteq Licence(x)
  <2>1. Sound(s)
    BY <1>1, <1>3 DEF Sound
  <2>2. Licence(s) \subseteq Licence(x)
    BY <1>1, <1>3 DEF Licence
  <2> QED
    BY <1>1, <1>3, <2>1, <2>2
<1> QED
  BY <1>1, <1>2, <1>3

LEMMA FirstRecord ==
  ASSUME NEW x \in WorkerRecords, Sound(x), x.pc = "first"
  PROVE  \E s \in WorkerRecords :
         /\ [x EXCEPT !.pc = "claim", !.over = "no"] = s
         /\ s.pc = "claim" /\ s.raised = {} /\ Sound(s) /\ Licence(s) = {}
<1> DEFINE s == [x EXCEPT !.pc = "claim", !.over = "no"]
<1>1. /\ s \in WorkerRecords /\ s.pc = "claim" /\ s.over = "no" /\ s.job = x.job /\ s.left = x.left
      /\ s.raised = x.raised /\ s.reason = x.reason
  BY DEF WorkerRecords
<1> HIDE DEF s
<1>2. Sound(s)
  BY <1>1 DEF Sound
<1>3. Licence(s) = {} /\ s.raised = {}
  BY <1>1 DEF Licence, Sound
<1>4. [x EXCEPT !.pc = "claim", !.over = "no"] = s
  BY DEF s
<1> QED
  BY <1>1, <1>2, <1>3, <1>4

-----------------------------------------------------------------------------
(* The steps of a worker: one that ends outside a run, one that enters a run *)
(* and one within a run.                                                     *)
Moved(k, s) == s \in WorkerRecords /\ Sound(s) /\ worker' = [worker EXCEPT ![k] = s]
MovedOut(k, s) ==
  Moved(k, s) /\ s.pc \notin RunPCs /\ s.raised = {} /\ Licence(s) \subseteq Licence(worker[k])
MovedIn(k, s) ==
  Moved(k, s) /\ s.pc = "budget" /\ s.raised = {} /\ Licence(s) \subseteq Licence(worker[k])
MovedOn(k, s) == Moved(k, s) /\ InRun(k) /\ s.pc \in RunPCs \ {"budget"} /\ Key(s) = Current(k)

LEMMA WorkerTyped ==
  ASSUME TypeOK, WorkersSound, NEW k \in Workers
  PROVE  /\ worker[k] \in WorkerRecords /\ Sound(worker[k]) /\ worker[k].job \in JobRecords
         /\ worker[k].left \in SUBSET Workflows /\ worker[k].raised \in SUBSET Occurrences
         /\ worker[k].pc \in PCs /\ worker[k].reason \in Reasons
<1>1. worker[k] \in WorkerRecords /\ Sound(worker[k])
  BY DEF TypeOK, WorkersSound
<1> QED
  BY <1>1 DEF WorkerRecords

LEMMA CurrentTyped ==
  ASSUME TypeOK, WorkersSound, NEW k \in Workers, InRun(k)
  PROVE  /\ worker[k].w \in Workflows /\ worker[k].job.occ \in Occurrences /\ Current(k) \in Keys
         /\ Current(k)[1] = worker[k].w /\ Current(k)[2] = worker[k].job.occ
         /\ Current(k) = Key(worker[k]) /\ worker[k].next \in 1..ActionCount[worker[k].w]
<1>1. worker[k].job.occ \in Occurrences
  BY WorkerTyped DEF JobRecords
<1>2. worker[k].w \in Workflows /\ worker[k].next \in 1..ActionCount[worker[k].w]
  BY WorkerTyped DEF Sound, InRun
<1> QED
  BY <1>1, <1>2 DEF Current, Key, Keys

LEMMA StepEvaluate ==
  ASSUME TypeOK, WorkersSound, NEW k \in Workers, NEW j \in jobs, Evaluate(k, j)
  PROVE  /\ worker[k] = Idle /\ ~InRun(k) /\ worker[k].raised = {}
         /\ UNCHANGED worker \/ \E s : MovedOut(k, s)
<1>1. worker[k] = Idle /\ ~InRun(k) /\ worker[k].raised = {}
  BY WorkerTyped, IdleType DEF Evaluate, At, Sound, InRun
<1>2. ASSUME ~UNCHANGED worker PROVE \E s : MovedOut(k, s)
  <2> DEFINE L == LoadCandidates(j.occ)
             pc == IF j.occ = Elapsed THEN "first" ELSE "claim"
  <2>1. /\ j \in JobRecords /\ L \in SUBSET Workflows /\ L # {} /\ ~(j.depth > MaxChainDepth)
        /\ \A w \in L : Trigger[w] = TypeOf(j.occ)
        /\ worker' = [worker EXCEPT ![k] = [Idle EXCEPT !.job = j, !.left = L, !.pc = pc]]
    BY <1>2 DEF Evaluate, TypeOK, LoadCandidates, SetWorker, TooDeep
  <2>2. j.depth <= MaxChainDepth
    BY <2>1, BoundsAssumption DEF JobRecords
  <2>3. pc \in {"first", "claim"} /\ (pc = "first" => j.occ = Elapsed) /\ (pc = "claim" => j.occ # Elapsed)
    OBVIOUS
  <2> DEFINE s == [Idle EXCEPT !.job = j, !.left = L, !.pc = pc]
  <2> HIDE DEF L, pc
  <2>4. /\ s \in WorkerRecords /\ s.pc = pc /\ s.job = j /\ s.left = L
        /\ s.over = Idle.over /\ s.raised = Idle.raised /\ s.reason = Idle.reason
    BY <2>1, <2>3, IdleType DEF WorkerRecords
  <2>5. worker' = [worker EXCEPT ![k] = s]
    BY <2>1
  <2> HIDE DEF s
  <2>6. Sound(s)
    BY <2>1, <2>2, <2>3, <2>4, IdleType DEF Sound
  <2>7. Licence(s) = {} /\ s.raised = {} /\ s.pc \notin RunPCs
    BY <2>3, <2>4, IdleType DEF Licence
  <2>8. MovedOut(k, s)
    BY <2>4, <2>5, <2>6, <2>7 DEF MovedOut, Moved
  <2> QED
    BY <2>8
<1> QED
  BY <1>1, <1>2

LEMMA StepBudgetFirst ==
  ASSUME TypeOK, WorkersSound, NEW k \in Workers, BudgetFirst(k)
  PROVE  ~InRun(k) /\ worker[k].raised = {} /\ \E s : MovedOut(k, s)
<1>1. worker[k].pc = "first" /\ ~InRun(k) /\ worker[k].raised = {}
  BY WorkerTyped DEF BudgetFirst, At, Sound, InRun
<1>2. CASE IsOverRunBudget
  <2>1. worker' = [worker EXCEPT ![k] = Idle]
    BY <1>2 DEF BudgetFirst, SetWorker, DeferInsteadOfSpending
  <2>2. MovedOut(k, Idle)
    BY <2>1, IdleType, IdleSound DEF MovedOut, Moved
  <2> QED
    BY <1>1, <2>2
<1>3. CASE ~IsOverRunBudget
  <2>1. worker' = [worker EXCEPT ![k] = [worker[k] EXCEPT !.pc = "claim", !.over = "no"]]
    BY <1>3 DEF BudgetFirst, SetWorker, DeferInsteadOfSpending
  <2>2. PICK s \in WorkerRecords :
         /\ [worker[k] EXCEPT !.pc = "claim", !.over = "no"] = s
         /\ s.pc = "claim" /\ s.raised = {} /\ Sound(s) /\ Licence(s) = {}
    BY <1>1, WorkerTyped, FirstRecord
  <2>3. MovedOut(k, s)
    BY <2>1, <2>2 DEF MovedOut, Moved
  <2> QED
    BY <1>1, <2>3
<1> QED
  BY <1>2, <1>3

LEMMA StepClaim ==
  ASSUME TypeOK, WorkersSound, NEW k \in Workers, NEW due \in BOOLEAN, Claim(k, due)
  PROVE  /\ ~InRun(k) /\ worker[k].raised = {} /\ worker[k].pc = "claim"
         /\ \/ (\E s : MovedOut(k, s)) /\ UNCHANGED <<runs, recent>>
            \/ \E s : /\ MovedIn(k, s) /\ s.job = worker[k].job /\ s.w \in worker[k].left
                      /\ Key(s) \in Keys /\ runs[Key(s)].st = "none"
                      /\ runs' = [runs EXCEPT ![Key(s)] = [st |-> "running", reason |-> "none",
                                                           depth |-> worker[k].job.depth]]
                      /\ recent' = recent \cup {Key(s)}
<1> DEFINE w == Min(worker[k].left)
           key == <<w, worker[k].job.occ>>
<1>1. worker[k].pc = "claim" /\ ~InRun(k) /\ worker[k].raised = {} /\ worker[k].left # {}
  BY WorkerTyped DEF Claim, At, Sound, InRun
<1>2. w \in worker[k].left
  <2>1. worker[k].left \in SUBSET Nat
    BY WorkerTyped, WorkflowAssumption
  <2> QED
    BY <1>1, <2>1, MinIn
<1>3. /\ [worker[k] EXCEPT !.left = @ \ {w}] = [worker[k] EXCEPT !.left = worker[k].left \ {w}]
      /\ \/ /\ runs[key].st = "none"
            /\ runs' = [runs EXCEPT ![key] = [st |-> "running", reason |-> "none",
                                              depth |-> worker[k].job.depth]]
            /\ recent' = recent \cup {key}
            /\ worker' = [worker EXCEPT ![k] = [[worker[k] EXCEPT !.left = @ \ {w}]
                             EXCEPT !.w = w, !.pc = "budget", !.next = 1, !.raised = {}]]
         \/ /\ worker' = [worker EXCEPT ![k] = NextCandidate([worker[k] EXCEPT !.left = @ \ {w}])]
            /\ UNCHANGED <<runs, recent>>
  BY DEF Claim, SetWorker, Claimable
<1> HIDE DEF w
<1> DEFINE x == worker[k]
           t == [x EXCEPT !.left = x.left \ {w}]
           s == [t EXCEPT !.w = w, !.pc = "budget", !.next = 1, !.raised = {}]
<1>7. x \in WorkerRecords /\ Sound(x) /\ x.pc = "claim" /\ w \in x.left /\ w \in Nat
  BY <1>1, <1>2, WorkerTyped, WorkflowAssumption
<1>8. \/ /\ runs[key].st = "none"
         /\ runs' = [runs EXCEPT ![key] = [st |-> "running", reason |-> "none",
                                              depth |-> worker[k].job.depth]]
         /\ recent' = recent \cup {key}
         /\ worker' = [worker EXCEPT ![k] = s]
      \/ /\ worker' = [worker EXCEPT ![k] = NextCandidate(t)]
         /\ UNCHANGED <<runs, recent>>
  BY <1>3
<1>9. x = worker[k]
  OBVIOUS
<1> HIDE DEF x
<1>10. /\ t \in WorkerRecords /\ t.pc = "claim" /\ t.job = x.job /\ t.left = x.left \ {w}
       /\ t.over = x.over /\ t.reason = x.reason
  BY <1>7 DEF WorkerRecords
<1> HIDE DEF t
<1>11. /\ s \in WorkerRecords /\ s.pc = "budget" /\ s.raised = {} /\ s.job = t.job /\ s.w = w
       /\ s.left = t.left /\ s.over = t.over /\ s.reason = t.reason /\ s.next = 1
  BY <1>7, <1>10 DEF WorkerRecords
<1> HIDE DEF s
<1>12. /\ \E c \in WorkerRecords :
              /\ NextCandidate(t) = c /\ c.pc \in {"idle", "claim"} /\ c.raised = {} /\ Sound(c)
              /\ Licence(c) \subseteq Licence(x)
       /\ Sound(s) /\ Licence(s) \subseteq Licence(x)
  <2>1. ActionCount[w] \in Nat \ {0} /\ w \in Workflows
    BY <1>7, WorkflowAssumption DEF WorkerRecords
  <2>2. Sound(s)
    BY <1>7, <1>10, <1>11, <2>1 DEF Sound
  <2>3. Licence(s) \subseteq Licence(x)
    BY <1>7, <1>10, <1>11, <2>1 DEF Licence
  <2>4. PICK c \in WorkerRecords :
         /\ NextCandidate(t) = c
         /\ \/ t.left = {} /\ c = Idle
            \/ /\ t.left # {}
               /\ c.pc = "claim" /\ c.job = t.job /\ c.left = t.left /\ c.over = t.over
               /\ c.raised = {} /\ c.reason = "none"
    BY <1>10, NextCandidateFields
  <2>5. ASSUME c = Idle
        PROVE  c.pc \in {"idle", "claim"} /\ c.raised = {} /\ Sound(c) /\ Licence(c) \subseteq Licence(x)
    BY <2>5, IdleType, IdleSound
  <2>6. ASSUME c # Idle
        PROVE  c.pc \in {"idle", "claim"} /\ c.raised = {} /\ Sound(c) /\ Licence(c) \subseteq Licence(x)
    <3>1. Sound(c)
      BY <1>7, <1>10, <2>4, <2>6 DEF Sound
    <3>2. Licence(c) \subseteq Licence(x)
      BY <1>7, <1>10, <2>4, <2>6 DEF Licence
    <3> QED
      BY <2>4, <2>6, <3>1, <3>2
  <2> QED
    BY <2>2, <2>3, <2>4, <2>5, <2>6
<1>5. CASE worker' = [worker EXCEPT ![k] = NextCandidate(t)] /\ UNCHANGED <<runs, recent>>
  <2>1. PICK c \in WorkerRecords :
              /\ NextCandidate(t) = c /\ c.pc \in {"idle", "claim"} /\ c.raised = {} /\ Sound(c)
              /\ Licence(c) \subseteq Licence(x)
    BY <1>12
  <2>2. MovedOut(k, c)
    BY <1>5, <1>9, <2>1 DEF MovedOut, Moved
  <2> QED
    BY <1>1, <1>5, <2>2
<1>6. CASE /\ runs[key].st = "none"
           /\ runs' = [runs EXCEPT ![key] = [st |-> "running", reason |-> "none",
                                             depth |-> worker[k].job.depth]]
           /\ recent' = recent \cup {key}
           /\ worker' = [worker EXCEPT ![k] = s]
  <2>2. MovedIn(k, s)
    BY <1>6, <1>9, <1>11, <1>12 DEF MovedIn, Moved
  <2>3. Key(s) = key /\ s.job = worker[k].job /\ s.w \in worker[k].left
    BY <1>2, <1>9, <1>10, <1>11 DEF Key
  <2>4. Key(s) \in Keys
    BY <1>2, <2>3, WorkerTyped DEF JobRecords, Keys
  <2> QED
    BY <1>1, <1>6, <2>2, <2>3, <2>4
<1> QED
  BY <1>8, <1>5, <1>6

LEMMA StepRunOne ==
  ASSUME TypeOK, WorkersSound, NEW k \in Workers, RunOne(k)
  PROVE  /\ InRun(k) /\ worker[k].pc = "budget" /\ worker[k].raised = {}
         /\ \E s : /\ MovedOn(k, s) /\ s.raised = {} /\ s.pc \in {"closeOver", "act", "close"}
                   /\ s.left = worker[k].left /\ s.job = worker[k].job
                   /\ \/ s.over = "yes" /\ UNCHANGED performed
                      \/ /\ worker[k].over = "no" \/ ~IsOverRunBudget
                         /\ \/ UNCHANGED performed
                            \/ performed' = [performed EXCEPT ![Current(k)] = @ + 1]
<1> DEFINE x == worker[k]
<1>1. /\ x.pc = "budget" /\ x.raised = {} /\ x \in WorkerRecords /\ Sound(x) /\ InRun(k)
      /\ x.over \in {"unknown", "yes", "no"}
  <2>1. x.pc = "budget" /\ x \in WorkerRecords /\ Sound(x)
    BY WorkerTyped DEF RunOne, At
  <2> QED
    BY <2>1 DEF Sound, InRun, WorkerRecords
<1>2. PICK pc, over, reason :
        /\ \/ /\ Exceeded(k) /\ pc = "closeOver" /\ over = "yes" /\ reason = "run_budget_exceeded"
              /\ UNCHANGED performed
              /\ worker' = [worker EXCEPT ![k] = [[x EXCEPT !.over = over] EXCEPT !.pc = pc, !.reason = reason]]
           \/ /\ ~Exceeded(k) /\ pc \in {"act", "close"} /\ over = "no" /\ reason = x.reason
              /\ \/ UNCHANGED performed
                 \/ performed' = [performed EXCEPT ![Current(k)] = @ + 1]
              /\ worker' = [worker EXCEPT ![k] = [[x EXCEPT !.over = over] EXCEPT !.pc = pc]]
  BY DEF RunOne, SetWorker
<1>3. Exceeded(k) => x.over # "no"
  BY DEF Exceeded
<1>4. ~Exceeded(k) => x.over = "no" \/ ~IsOverRunBudget
  BY <1>1 DEF Exceeded
<1>5. x = worker[k] /\ Current(k) = Key(x)
  BY DEF Current, Key
<1> HIDE DEF x
<1>6. \E s : /\ s \in WorkerRecords /\ worker' = [worker EXCEPT ![k] = s]
             /\ s.pc = pc /\ s.over = over /\ s.reason = reason /\ s.job = x.job /\ s.left = x.left
             /\ s.w = x.w /\ s.next = x.next /\ s.raised = x.raised
  <2> DEFINE t == [x EXCEPT !.over = over]
             r == [t EXCEPT !.pc = pc, !.reason = reason]
             u == [t EXCEPT !.pc = pc]
  <2>1. over \in {"unknown", "yes", "no"} /\ pc \in PCs
    BY <1>2
  <2>2. /\ t \in WorkerRecords /\ t.over = over /\ t.reason = x.reason /\ t.job = x.job /\ t.left = x.left
        /\ t.w = x.w /\ t.next = x.next /\ t.raised = x.raised
    BY <1>1, <2>1 DEF WorkerRecords
  <2>3. \/ worker' = [worker EXCEPT ![k] = r] /\ reason = "run_budget_exceeded"
        \/ worker' = [worker EXCEPT ![k] = u] /\ reason = x.reason
    BY <1>2
  <2> HIDE DEF t
  <2>4. /\ u \in WorkerRecords /\ u.pc = pc /\ u.over = t.over /\ u.reason = t.reason /\ u.job = t.job
        /\ u.left = t.left /\ u.w = t.w /\ u.next = t.next /\ u.raised = t.raised
    BY <2>1, <2>2 DEF WorkerRecords
  <2>5. ASSUME reason \in Reasons
        PROVE /\ r \in WorkerRecords /\ r.pc = pc /\ r.over = t.over /\ r.reason = reason /\ r.job = t.job
              /\ r.left = t.left /\ r.w = t.w /\ r.next = t.next /\ r.raised = t.raised
    BY <2>1, <2>2, <2>5 DEF WorkerRecords
  <2> HIDE DEF r, u
  <2> QED
    BY <2>2, <2>3, <2>4, <2>5
<1>7. PICK s : /\ s \in WorkerRecords /\ worker' = [worker EXCEPT ![k] = s]
               /\ s.pc = pc /\ s.over = over /\ s.reason = reason /\ s.job = x.job /\ s.left = x.left
               /\ s.w = x.w /\ s.next = x.next /\ s.raised = x.raised
  BY <1>6
<1>8. pc \in {"closeOver", "act", "close"}
  BY <1>2
<1>9. Sound(s)
  BY <1>1, <1>2, <1>3, <1>7 DEF Sound
<1>10. MovedOn(k, s)
  BY <1>1, <1>5, <1>7, <1>8, <1>9 DEF MovedOn, Moved, Key
<1>11. \/ s.over = "yes" /\ UNCHANGED performed
       \/ /\ worker[k].over = "no" \/ ~IsOverRunBudget
          /\ \/ UNCHANGED performed
             \/ performed' = [performed EXCEPT ![Current(k)] = @ + 1]
  BY <1>2, <1>4, <1>5, <1>7
<1> QED
  BY <1>1, <1>5, <1>7, <1>8, <1>10, <1>11

LEMMA StepExecute ==
  ASSUME TypeOK, WorkersSound, NEW k \in Workers, Execute(k)
  PROVE  /\ InRun(k) /\ worker[k].pc = "act"
         /\ \E s : /\ MovedOn(k, s) /\ s.pc \in {"act", "close"} /\ Licence(s) \subseteq Licence(worker[k])
                   /\ \/ UNCHANGED events /\ s.raised = worker[k].raised
                      \/ /\ events < MaxEvents /\ events' = events + 1
                         /\ s.raised = worker[k].raised \cup {events + 1}
<1> DEFINE x == worker[k]
           a == AfterAction(k)
<1>1. /\ x.pc = "act" /\ x \in WorkerRecords /\ Sound(x) /\ InRun(k) /\ x.raised \in SUBSET Occurrences
      /\ x.w \in Workflows /\ x.next \in 1..ActionCount[x.w] /\ ActionCount[x.w] \in Nat
  <2>1. x.pc = "act" /\ x \in WorkerRecords /\ Sound(x) /\ InRun(k) /\ x.raised \in SUBSET Occurrences
    BY WorkerTyped DEF Execute, At, InRun
  <2> QED
    BY <2>1, WorkflowAssumption DEF Sound
<1>2. /\ a \in WorkerRecords /\ a.pc \in {"act", "close"} /\ a.over = x.over /\ a.reason = x.reason
      /\ a.job = x.job /\ a.left = x.left /\ a.w = x.w /\ a.next \in 1..ActionCount[x.w]
      /\ a.raised = x.raised
  <2> DEFINE c == [x EXCEPT !.pc = "close"]
             n == [x EXCEPT !.next = x.next + 1]
  <2>1. a = IF x.next = ActionCount[x.w] THEN c ELSE n
    BY DEF AfterAction
  <2>2. /\ c \in WorkerRecords /\ c.pc = "close" /\ c.over = x.over /\ c.reason = x.reason
        /\ c.job = x.job /\ c.left = x.left /\ c.w = x.w /\ c.next = x.next /\ c.raised = x.raised
    BY <1>1 DEF WorkerRecords
  <2>3. /\ n \in WorkerRecords /\ n.pc = "act" /\ n.over = x.over /\ n.reason = x.reason
        /\ n.job = x.job /\ n.left = x.left /\ n.w = x.w /\ n.next = x.next + 1 /\ n.raised = x.raised
    BY <1>1 DEF WorkerRecords
  <2> HIDE DEF c, n, a, x
  <2> QED
    BY <1>1, <2>1, <2>2, <2>3
<1>3. /\ x = worker[k] /\ Current(k) = Key(x)
      /\ \/ worker' = [worker EXCEPT ![k] = a] /\ UNCHANGED events
         \/ /\ events < MaxEvents /\ events' = events + 1
            /\ worker' = [worker EXCEPT ![k] = [a EXCEPT !.raised = a.raised \cup {events + 1}]]
         \/ /\ UNCHANGED events
            /\ \E reason \in Reasons \ {"run_budget_exceeded"} :
                 worker' = [worker EXCEPT ![k] = [x EXCEPT !.pc = "close", !.reason = reason]]
  BY DEF Execute, SetWorker, Close, Current, Key
<1>4. events + 1 \in Nat /\ (events < MaxEvents => events + 1 \in Occurrences)
  BY BoundsAssumption DEF TypeOK, Occurrences, Elapsed
<1> HIDE DEF x, a
<1>5. \E s \in WorkerRecords :
        /\ worker' = [worker EXCEPT ![k] = s] /\ s.pc \in {"act", "close"} /\ s.over = x.over
        /\ s.reason = x.reason \/ s.reason # "run_budget_exceeded"
        /\ s.job = x.job /\ s.left = x.left /\ s.w = x.w /\ s.next \in 1..ActionCount[x.w]
        /\ \/ UNCHANGED events /\ s.raised = x.raised
           \/ events < MaxEvents /\ events' = events + 1 /\ s.raised = x.raised \cup {events + 1}
  <2>1. CASE worker' = [worker EXCEPT ![k] = a] /\ UNCHANGED events
    BY <1>2, <2>1
  <2>2. CASE /\ events < MaxEvents /\ events' = events + 1
             /\ worker' = [worker EXCEPT ![k] = [a EXCEPT !.raised = a.raised \cup {events + 1}]]
    <3> DEFINE R == a.raised \cup {events + 1}
               s == [a EXCEPT !.raised = R]
    <3>1. R \in SUBSET Occurrences /\ R = x.raised \cup {events + 1}
      BY <1>1, <1>2, <1>4, <2>2
    <3>2. worker' = [worker EXCEPT ![k] = s]
      BY <2>2
    <3> HIDE DEF R
    <3>3. /\ s \in WorkerRecords /\ s.pc = a.pc /\ s.over = a.over /\ s.reason = a.reason
          /\ s.job = a.job /\ s.left = a.left /\ s.w = a.w /\ s.next = a.next /\ s.raised = R
      BY <1>2, <3>1 DEF WorkerRecords
    <3> HIDE DEF s
    <3> QED
      BY <1>2, <2>2, <3>1, <3>2, <3>3
  <2>3. ASSUME UNCHANGED events, NEW reason \in Reasons \ {"run_budget_exceeded"},
               worker' = [worker EXCEPT ![k] = [x EXCEPT !.pc = "close", !.reason = reason]]
        PROVE  \E s \in WorkerRecords :
                 /\ worker' = [worker EXCEPT ![k] = s] /\ s.pc = "close" /\ s.over = x.over
                 /\ s.reason # "run_budget_exceeded"
                 /\ s.job = x.job /\ s.left = x.left /\ s.w = x.w /\ s.next = x.next
                 /\ s.raised = x.raised
    <3> DEFINE s == [x EXCEPT !.pc = "close", !.reason = reason]
    <3>1. /\ s \in WorkerRecords /\ s.pc = "close" /\ s.over = x.over /\ s.reason = reason
          /\ s.job = x.job /\ s.left = x.left /\ s.w = x.w /\ s.next = x.next /\ s.raised = x.raised
      BY <1>1 DEF WorkerRecords
    <3>2. worker' = [worker EXCEPT ![k] = s]
      BY <2>3
    <3> HIDE DEF s
    <3> QED
      BY <3>1, <3>2
  <2>4. CASE /\ UNCHANGED events
             /\ \E reason \in Reasons \ {"run_budget_exceeded"} :
                  worker' = [worker EXCEPT ![k] = [x EXCEPT !.pc = "close", !.reason = reason]]
    <3>1. PICK reason \in Reasons \ {"run_budget_exceeded"} :
             worker' = [worker EXCEPT ![k] = [x EXCEPT !.pc = "close", !.reason = reason]]
      BY <2>4
    <3>2. PICK s \in WorkerRecords :
                 /\ worker' = [worker EXCEPT ![k] = s] /\ s.pc = "close" /\ s.over = x.over
                 /\ s.reason # "run_budget_exceeded"
                 /\ s.job = x.job /\ s.left = x.left /\ s.w = x.w /\ s.next = x.next
                 /\ s.raised = x.raised
      BY <2>3, <2>4, <3>1
    <3> QED
      BY <1>1, <2>4, <3>2
  <2> QED
    BY <1>3, <2>1, <2>2, <2>4
<1>6. PICK s \in WorkerRecords :
        /\ worker' = [worker EXCEPT ![k] = s] /\ s.pc \in {"act", "close"} /\ s.over = x.over
        /\ s.reason = x.reason \/ s.reason # "run_budget_exceeded"
        /\ s.job = x.job /\ s.left = x.left /\ s.w = x.w /\ s.next \in 1..ActionCount[x.w]
        /\ \/ UNCHANGED events /\ s.raised = x.raised
           \/ events < MaxEvents /\ events' = events + 1 /\ s.raised = x.raised \cup {events + 1}
  BY <1>5
<1>7. Sound(s)
  BY <1>1, <1>6 DEF Sound
<1>8. Licence(s) \subseteq Licence(x) /\ Key(s) = Key(x)
  BY <1>1, <1>6 DEF Licence, Key
<1>9. MovedOn(k, s)
  BY <1>1, <1>3, <1>6, <1>7, <1>8 DEF MovedOn, Moved
<1> QED
  BY <1>1, <1>3, <1>6, <1>8, <1>9

(* A run moves on to another place of the handler, with a reason and with    *)
(* the occurrences that are still to be enqueued.                            *)
LEMMA MovesOn ==
  ASSUME TypeOK, WorkersSound, NEW k \in Workers, InRun(k),
         NEW s \in WorkerRecords, worker' = [worker EXCEPT ![k] = s],
         s.pc \in {"reclose", "disarm", "raise"},
         s.over = worker[k].over, s.job = worker[k].job, s.left = worker[k].left, s.w = worker[k].w,
         s.next = worker[k].next, s.reason = worker[k].reason \/ s.reason = "none",
         s.pc = "reclose" => s.reason = "none" /\ s.raised = {},
         s.pc = "raise" => s.raised # {}
  PROVE  MovedOn(k, s) /\ Licence(s) \subseteq Licence(worker[k])
<1> DEFINE x == worker[k]
<1>1. /\ x.pc \in RunPCs /\ x \in WorkerRecords /\ Sound(x) /\ x = worker[k] /\ Current(k) = Key(x)
      /\ s.over = x.over /\ s.job = x.job /\ s.left = x.left /\ s.w = x.w
      /\ s.next = x.next /\ (s.reason = x.reason \/ s.reason = "none")
  BY WorkerTyped DEF InRun, Current, Key
<1> HIDE DEF x
<1>2. Sound(s)
  BY <1>1 DEF Sound
<1>3. Licence(s) \subseteq Licence(x) /\ Key(s) = Key(x)
  BY <1>1 DEF Licence, Key
<1> QED
  BY <1>1, <1>2, <1>3 DEF MovedOn, Moved

LEMMA StepAfterRun ==
  ASSUME TypeOK, WorkersSound, NEW k \in Workers, InRun(k), worker' = [worker EXCEPT ![k] = AfterRun(k)]
  PROVE  \E s : /\ Licence(s) \subseteq Licence(worker[k])
                /\ \/ MovedOn(k, s) /\ s.pc = "raise" /\ s.raised = worker[k].raised
                   \/ MovedOut(k, s) /\ worker[k].raised = {}
<1> DEFINE x == worker[k]
           s == [x EXCEPT !.pc = "raise"]
<1>1. x \in WorkerRecords /\ Sound(x) /\ x.pc \notin {"idle", "first"}
  BY WorkerTyped DEF InRun
<1>2. CASE x.raised # {}
  <2>1. worker' = [worker EXCEPT ![k] = s]
    BY <1>2 DEF AfterRun
  <2>2. x = worker[k]
    OBVIOUS
  <2> HIDE DEF x
  <2>3. /\ s \in WorkerRecords /\ s.pc = "raise" /\ s.over = x.over /\ s.reason = x.reason
        /\ s.job = x.job /\ s.left = x.left /\ s.w = x.w /\ s.next = x.next /\ s.raised = x.raised
    BY <1>1 DEF WorkerRecords
  <2> HIDE DEF s
  <2>4. MovedOn(k, s) /\ Licence(s) \subseteq Licence(worker[k])
    BY <1>2, <2>1, <2>2, <2>3, MovesOn
  <2> QED
    BY <2>2, <2>3, <2>4
<1>3. CASE x.raised = {}
  <2>1. worker' = [worker EXCEPT ![k] = NextCandidate(x)]
    BY <1>3 DEF AfterRun
  <2>2. PICK c \in WorkerRecords :
         /\ NextCandidate(x) = c /\ c.pc \in {"idle", "claim"} /\ c.raised = {} /\ Sound(c)
         /\ Licence(c) \subseteq Licence(x)
    BY <1>1, NextCandidateSound
  <2>3. MovedOut(k, c)
    BY <2>1, <2>2 DEF MovedOut, Moved
  <2> QED
    BY <1>3, <2>2, <2>3
<1> QED
  BY <1>2, <1>3

LEMMA StepFinish ==
  ASSUME TypeOK, WorkersSound, NEW k \in Workers, Finish(k)
  PROVE  /\ InRun(k) /\ worker[k].pc \in {"close", "closeOver", "reclose"}
         /\ \E s : /\ Licence(s) \subseteq Licence(worker[k])
                   /\ \/ MovedOn(k, s) /\ s.pc = "disarm" /\ s.raised = worker[k].raised
                      \/ /\ worker[k].reason # "reference_missing"
                         /\ \/ MovedOn(k, s) /\ s.pc = "raise" /\ s.raised = worker[k].raised
                            \/ MovedOut(k, s) /\ worker[k].raised = {}
<1> DEFINE x == worker[k]
           s == [x EXCEPT !.pc = "disarm"]
<1>1. /\ x \in WorkerRecords /\ Sound(x) /\ x.pc \in {"close", "closeOver", "reclose"} /\ InRun(k)
  BY WorkerTyped DEF Finish, InRun
<1>2. CASE x.pc = "close" /\ x.reason = "reference_missing"
  <2>1. worker' = [worker EXCEPT ![k] = s] /\ x = worker[k]
    BY <1>2 DEF Finish, SetWorker, At
  <2> HIDE DEF x
  <2>3. /\ s \in WorkerRecords /\ s.pc = "disarm" /\ s.over = x.over /\ s.reason = x.reason
        /\ s.job = x.job /\ s.left = x.left /\ s.w = x.w /\ s.next = x.next /\ s.raised = x.raised
    BY <1>1 DEF WorkerRecords
  <2> HIDE DEF s
  <2>4. MovedOn(k, s) /\ Licence(s) \subseteq Licence(worker[k])
    BY <1>1, <2>1, <2>3, MovesOn
  <2> QED
    BY <1>1, <2>1, <2>3, <2>4
<1>3. CASE ~(x.pc = "close" /\ x.reason = "reference_missing")
  <2>1. worker' = [worker EXCEPT ![k] = AfterRun(k)]
    BY <1>3 DEF Finish, SetWorker, At
  <2>2. x.reason # "reference_missing"
    BY <1>1, <1>3 DEF Sound
  <2> QED
    BY <1>1, <2>1, <2>2, StepAfterRun
<1> QED
  BY <1>2, <1>3

LEMMA StepAfterRaise ==
  ASSUME TypeOK, WorkersSound, NEW k \in Workers, worker[k].pc = "raise", NEW o,
         worker' = [worker EXCEPT ![k] = AfterRaise(k, o)]
  PROVE  \E s : /\ Licence(s) \subseteq Licence(worker[k])
                /\ \/ MovedOn(k, s) /\ s.pc = "raise" /\ s.raised = worker[k].raised \ {o}
                   \/ MovedOut(k, s) /\ worker[k].raised = {o}
<1> DEFINE x == worker[k]
           R == x.raised \ {o}
           s == [x EXCEPT !.raised = R]
<1>1. x \in WorkerRecords /\ Sound(x) /\ x.pc = "raise" /\ InRun(k) /\ R \in SUBSET Occurrences
  BY WorkerTyped DEF InRun
<1>2. CASE x.raised # {o}
  <2>1. worker' = [worker EXCEPT ![k] = s] /\ x = worker[k] /\ R = worker[k].raised \ {o}
    BY <1>2 DEF AfterRaise
  <2> HIDE DEF x, R
  <2>3. /\ s \in WorkerRecords /\ s.pc = "raise" /\ s.over = x.over /\ s.reason = x.reason
        /\ s.job = x.job /\ s.left = x.left /\ s.w = x.w /\ s.next = x.next /\ s.raised = R
    BY <1>1 DEF WorkerRecords
  <2>5. R # {}
    BY <1>1, <1>2 DEF Sound, R
  <2> HIDE DEF s
  <2>4. MovedOn(k, s) /\ Licence(s) \subseteq Licence(worker[k])
    BY <1>1, <2>1, <2>3, <2>5, MovesOn
  <2> QED
    BY <2>1, <2>3, <2>4
<1>3. CASE x.raised = {o}
  <2>1. worker' = [worker EXCEPT ![k] = NextCandidate(x)]
    BY <1>3 DEF AfterRaise
  <2>2. PICK c \in WorkerRecords :
         /\ NextCandidate(x) = c /\ c.pc \in {"idle", "claim"} /\ c.raised = {} /\ Sound(c)
         /\ Licence(c) \subseteq Licence(x)
    BY <1>1, NextCandidateSound
  <2>3. MovedOut(k, c)
    BY <2>1, <2>2 DEF MovedOut, Moved
  <2> QED
    BY <1>3, <2>2, <2>3
<1> QED
  BY <1>2, <1>3

LEMMA StepAbandon ==
  ASSUME NEW k \in Workers, worker' = [worker EXCEPT ![k] = Idle] PROVE MovedOut(k, Idle)
  BY IdleType, IdleSound DEF MovedOut, Moved

LEMMA StepStatementFails ==
  ASSUME TypeOK, WorkersSound, NEW k \in Workers, StatementFails(k)
  PROVE  /\ InRun(k) /\ worker[k].pc \in {"close", "disarm"}
         /\ \E s : /\ MovedOn(k, s) /\ s.pc = "reclose" /\ s.raised = {}
                   /\ Licence(s) \subseteq Licence(worker[k])
<1> DEFINE x == worker[k]
           s == [x EXCEPT !.pc = "reclose", !.reason = "none", !.raised = {}]
<1>1. x \in WorkerRecords /\ Sound(x) /\ x.pc \in {"close", "disarm"} /\ InRun(k)
  BY WorkerTyped DEF InRun, StatementFails
<1>2. worker' = [worker EXCEPT ![k] = s] /\ x = worker[k]
  BY DEF StatementFails, SetWorker, AfterError
<1> HIDE DEF x
<1>3. /\ s \in WorkerRecords /\ s.pc = "reclose" /\ s.over = x.over /\ s.reason = "none"
      /\ s.job = x.job /\ s.left = x.left /\ s.w = x.w /\ s.next = x.next /\ s.raised = {}
  BY <1>1 DEF WorkerRecords
<1> HIDE DEF s
<1>4. MovedOn(k, s) /\ Licence(s) \subseteq Licence(worker[k])
  BY <1>1, <1>2, <1>3, MovesOn
<1> QED
  BY <1>1, <1>2, <1>3, <1>4

-----------------------------------------------------------------------------
(* The kinds of steps, by what they do to a run and to the worker in it. *)
Quiet == UNCHANGED <<worker, runs, performed, abandoned>> /\ recent' \subseteq recent
Outside(k, s) == ~InRun(k) /\ MovedOut(k, s) /\ UNCHANGED <<runs, performed, recent, abandoned>>
Claims(k, s) ==
  /\ ~InRun(k) /\ MovedIn(k, s) /\ runs[Key(s)].st = "none"
  /\ runs' = [runs EXCEPT ![Key(s)] = [st |-> "running", reason |-> "none", depth |-> s.job.depth]]
  /\ recent' = recent \cup {Key(s)}
  /\ UNCHANGED <<performed, abandoned>>
Decides(k, s) ==
  /\ worker[k].pc = "budget" /\ MovedOn(k, s)
  /\ s.pc \in {"closeOver", "act", "close"} /\ s.left = worker[k].left /\ s.job = worker[k].job
  /\ \/ s.over = "yes" /\ UNCHANGED performed
     \/ /\ worker[k].over = "no" \/ ~IsOverRunBudget
        /\ \/ UNCHANGED performed
           \/ performed' = [performed EXCEPT ![Current(k)] = @ + 1]
  /\ UNCHANGED <<runs, recent, abandoned>>
GoesOn(k, s) ==
  /\ MovedOn(k, s) /\ worker[k].pc \notin {"budget", "reclose"} /\ Licence(s) \subseteq Licence(worker[k])
  /\ s.pc \in {"disarm", "raise"} => worker[k].pc \in {"disarm", "raise"}
  /\ worker[k].pc = "disarm" => s.pc = "reclose" \/ worker[k].w \notin armed'
  /\ UNCHANGED <<runs, performed, recent, abandoned>>
Finishes(k, s) ==
  /\ worker[k].pc \in {"close", "closeOver", "reclose"} /\ Licence(s) \subseteq Licence(worker[k])
  /\ runs' = [runs EXCEPT ![Current(k)].st = "closed", ![Current(k)].reason = worker[k].reason]
  /\ \/ MovedOn(k, s) /\ s.pc = "disarm"
     \/ worker[k].reason # "reference_missing" /\ ((MovedOn(k, s) /\ s.pc = "raise") \/ MovedOut(k, s))
  /\ UNCHANGED <<performed, recent, abandoned>>
Leaves(k, s) ==
  /\ worker[k].pc \in {"disarm", "raise"} /\ MovedOut(k, s)
  /\ worker[k].pc = "disarm" => worker[k].w \notin armed'
  /\ UNCHANGED <<runs, performed, recent, abandoned>>
Abandons(k, s) ==
  /\ InRun(k) /\ MovedOut(k, s) /\ abandoned' = abandoned \cup {Current(k)}
  /\ UNCHANGED <<runs, performed, recent>>

LEMMA Kinds ==
  ASSUME TypeOK, WorkersSound, Next
  PROVE  \/ Quiet
         \/ \E k \in Workers : \E s :
              \/ Outside(k, s) \/ Claims(k, s) \/ Decides(k, s) \/ GoesOn(k, s)
              \/ Finishes(k, s) \/ Leaves(k, s) \/ Abandons(k, s)
<1> DEFINE OneOf(k, s) == \/ Outside(k, s) \/ Claims(k, s) \/ Decides(k, s) \/ GoesOn(k, s)
                          \/ Finishes(k, s) \/ Leaves(k, s) \/ Abandons(k, s)
<1> USE DEF ghostVars, boundVars
<1>1. ASSUME NEW k \in Workers, NEW j \in jobs, Evaluate(k, j)
      PROVE  Quiet \/ \E s : OneOf(k, s)
  <2>1. CASE UNCHANGED worker
    BY <1>1, <2>1 DEF Evaluate, Quiet
  <2>2. ASSUME NEW s, MovedOut(k, s) PROVE Outside(k, s)
    BY <1>1, <2>2, StepEvaluate DEF Evaluate, Outside
  <2> QED
    BY <1>1, <2>1, <2>2, StepEvaluate
<1>2. ASSUME NEW k \in Workers, NEW due \in BOOLEAN, Claim(k, due)
      PROVE  \E s : OneOf(k, s)
  <2>1. ASSUME NEW s, MovedOut(k, s), UNCHANGED <<runs, recent>> PROVE Outside(k, s)
    BY <1>2, <2>1, StepClaim DEF Claim, Outside
  <2>2. ASSUME NEW s, MovedIn(k, s), s.job = worker[k].job,
               runs[Key(s)].st = "none",
               runs' = [runs EXCEPT ![Key(s)] = [st |-> "running", reason |-> "none",
                                                 depth |-> worker[k].job.depth]],
               recent' = recent \cup {Key(s)}
        PROVE  Claims(k, s)
    BY <1>2, <2>2, StepClaim DEF Claim, Claims
  <2> QED
    BY <1>2, <2>1, <2>2, StepClaim
<1>3. ASSUME NEW k \in Workers, BudgetFirst(k) PROVE \E s : OneOf(k, s)
  <2>1. ASSUME NEW s, MovedOut(k, s) PROVE Outside(k, s)
    BY <1>3, <2>1, StepBudgetFirst DEF BudgetFirst, Outside
  <2> QED
    BY <1>3, <2>1, StepBudgetFirst
<1>4. ASSUME NEW k \in Workers, RunOne(k) PROVE \E s : OneOf(k, s)
  BY <1>4, StepRunOne DEF RunOne, Decides
<1>5. ASSUME NEW k \in Workers, Execute(k) PROVE \E s : OneOf(k, s)
  BY <1>5, StepExecute DEF Execute, GoesOn
<1>6. ASSUME NEW k \in Workers, Finish(k) PROVE \E s : OneOf(k, s)
  BY <1>6, StepFinish DEF Finish, Finishes
<1>7. ASSUME NEW k \in Workers, Deactivate(k) PROVE \E s : OneOf(k, s)
  <2>1. InRun(k) /\ worker[k].pc = "disarm" /\ worker' = [worker EXCEPT ![k] = AfterRun(k)]
    BY <1>7 DEF Deactivate, InRun, At, SetWorker
  <2>2. worker[k].w \notin armed' /\ UNCHANGED <<runs, performed, recent, abandoned>>
    BY <1>7 DEF Deactivate, Disarmed
  <2> QED
    BY <2>1, <2>2, StepAfterRun DEF GoesOn, Leaves
<1>8. ASSUME NEW k \in Workers, RaiseChainedTrigger(k) \/ EnqueueFails(k) PROVE \E s : OneOf(k, s)
  <2> DEFINE o == Min(worker[k].raised)
  <2>1. worker[k].pc = "raise" /\ worker' = [worker EXCEPT ![k] = AfterRaise(k, o)]
    BY <1>8 DEF RaiseChainedTrigger, EnqueueFails, At, SetWorker
  <2>2. UNCHANGED <<runs, performed, recent, abandoned>>
    BY <1>8 DEF RaiseChainedTrigger, EnqueueFails
  <2> HIDE DEF o
  <2> QED
    BY <2>1, <2>2, StepAfterRaise DEF GoesOn, Leaves
<1>9. ASSUME NEW k \in Workers, Crash(k) PROVE OneOf(k, Idle)
  <2>1. MovedOut(k, Idle) /\ UNCHANGED <<runs, performed, recent>>
    BY <1>9, StepAbandon DEF Crash, Abandon, SetWorker
  <2> QED
    BY <1>9, <2>1 DEF Crash, Abandon, Outside, Abandons
<1>10. ASSUME NEW k \in Workers, StatementFails(k) PROVE \E s : OneOf(k, s)
  BY <1>10, StepStatementFails DEF StatementFails, GoesOn
<1>11. ASSUME NEW k \in Workers, Stall(k) PROVE Quiet
  BY <1>11 DEF Stall, Quiet
<1>12. ASSUME Sweep \/ HourPasses \/ PeopleStep PROVE Quiet
  BY <1>12 DEF Sweep, HourPasses, PeopleStep, ChangeTicket, Arm, Disarm, Quiet
<1> HIDE DEF OneOf
<1>13. Quiet \/ \E k \in Workers : \E s : OneOf(k, s)
  <2>1. ASSUME NEW k \in Workers, WorkerStep(k) PROVE Quiet \/ \E s : OneOf(k, s)
    <3>1. CASE \E j \in jobs : Evaluate(k, j)
      BY <1>1, <3>1
    <3>2. CASE \E due \in BOOLEAN : Claim(k, due)
      BY <1>2, <3>2
    <3> QED
      BY <1>3, <1>4, <1>5, <1>6, <1>7, <1>8, <2>1, <3>1, <3>2 DEF WorkerStep
  <2>2. ASSUME NEW k \in Workers, FaultStep(k) PROVE Quiet \/ \E s : OneOf(k, s)
    BY <1>8, <1>9, <1>10, <1>11, <2>2 DEF FaultStep
  <2> QED
    BY <1>12, <2>1, <2>2 DEF Next
<1> QED
  BY <1>13 DEF OneOf

LEMMA KeyTyped ==
  ASSUME NEW x \in WorkerRecords, Sound(x), x.pc \in RunPCs
  PROVE  /\ Key(x) \in Keys /\ Key(x)[1] = x.w /\ Key(x)[2] = x.job.occ /\ x.w \in Workflows
         /\ x.next \in 1..ActionCount[x.w]
<1>1. x.job.occ \in Occurrences
  BY DEF WorkerRecords, JobRecords
<1>2. x.w \in Workflows /\ x.next \in 1..ActionCount[x.w]
  BY DEF Sound
<1> QED
  BY <1>1, <1>2 DEF Key, Keys

LEMMA Frame ==
  ASSUME TypeOK, NEW k \in Workers, NEW s, Moved(k, s)
  PROVE  /\ worker' \in [Workers -> WorkerRecords] /\ worker'[k] = s
         /\ \A j \in Workers : j # k => worker'[j] = worker[j]
  BY DEF TypeOK, Moved

(* Every step moves one worker at most: out of a run, into one or on in it. *)
LEMMA Moves ==
  ASSUME TypeOK, WorkersSound, Next
  PROVE  \/ UNCHANGED worker
         \/ \E k \in Workers : \E s :
              \/ MovedOut(k, s)
              \/ MovedOn(k, s)
              \/ Claims(k, s)
<1>1. CASE Quiet
  BY <1>1 DEF Quiet
<1>2. ASSUME NEW k \in Workers, NEW s,
             \/ Outside(k, s) \/ Claims(k, s) \/ Decides(k, s) \/ GoesOn(k, s)
             \/ Finishes(k, s) \/ Leaves(k, s) \/ Abandons(k, s)
      PROVE  MovedOut(k, s) \/ MovedOn(k, s) \/ Claims(k, s)
  BY <1>2 DEF Outside, Decides, GoesOn, Finishes, Leaves, Abandons
<1> QED
  BY <1>1, <1>2, Kinds

WorkersTyped == worker \in [Workers -> WorkerRecords]

LEMMA NextWorkersSound == ASSUME TypeOK, WorkersSound, Next PROVE WorkersTyped' /\ WorkersSound'
<1>1. CASE UNCHANGED worker
  BY <1>1 DEF TypeOK, WorkersSound, WorkersTyped
<1>2. ASSUME NEW k \in Workers, NEW s, Moved(k, s) PROVE WorkersTyped' /\ WorkersSound'
  <2>1. Sound(s)
    BY <1>2 DEF Moved
  <2> QED
    BY <1>2, <2>1, Frame DEF WorkersSound, WorkersTyped
<1>3. UNCHANGED worker \/ \E k \in Workers : \E s : Moved(k, s)
  BY Moves DEF MovedOut, MovedOn, Claims, MovedIn
<1> QED
  BY <1>1, <1>2, <1>3

LEMMA NextOneOwner == ASSUME TypeOK, WorkersSound, OneOwner, Next PROVE OneOwner'
<1>1. CASE UNCHANGED worker
  BY <1>1 DEF OneOwner, InRun, Current
<1>2. ASSUME NEW k \in Workers, NEW s, MovedOut(k, s) PROVE OneOwner'
  <2>1. worker'[k] = s /\ s.pc \notin RunPCs /\ \A j \in Workers : j # k => worker'[j] = worker[j]
    BY <1>2, Frame DEF MovedOut
  <2> QED
    BY <2>1 DEF OneOwner, InRun, Current
<1>3. ASSUME NEW k \in Workers, NEW s, MovedOn(k, s) PROVE OneOwner'
  <2>1. /\ worker'[k] = s /\ \A j \in Workers : j # k => worker'[j] = worker[j]
        /\ InRun(k) /\ Key(s) = Current(k)
    BY <1>3, Frame DEF MovedOn
  <2> QED
    BY <2>1 DEF OneOwner, InRun, Current, Key
<1>4. ASSUME NEW k \in Workers, NEW s, Claims(k, s) PROVE OneOwner'
  <2>1. worker'[k] = s /\ (\A j \in Workers : j # k => worker'[j] = worker[j]) /\ runs[Key(s)].st = "none"
    BY <1>4, Frame DEF Claims, MovedIn
  <2>2. \A j \in Workers : InRun(j) => Current(j) # Key(s)
    BY <2>1 DEF TypeOK
  <2> QED
    BY <2>1, <2>2 DEF OneOwner, InRun, Current, Key
<1> QED
  BY <1>1, <1>2, <1>3, <1>4, Moves

(* What a step does to the runs. *)
LEMMA RunsChange ==
  ASSUME TypeOK, WorkersSound, Next
  PROVE  \/ UNCHANGED runs
         \/ \E k \in Workers : \E s : Claims(k, s)
         \/ \E k \in Workers : \E s : Finishes(k, s)
<1>1. CASE Quiet
  BY <1>1 DEF Quiet
<1>2. ASSUME NEW k \in Workers, NEW s,
             \/ Outside(k, s) \/ Claims(k, s) \/ Decides(k, s) \/ GoesOn(k, s)
             \/ Finishes(k, s) \/ Leaves(k, s) \/ Abandons(k, s)
      PROVE  UNCHANGED runs \/ Claims(k, s) \/ Finishes(k, s)
  BY <1>2 DEF Outside, Decides, GoesOn, Leaves, Abandons
<1> QED
  BY <1>1, <1>2, Kinds

RunRecords == [st : {"none", "running", "closed"}, reason : Reasons, depth : 0..(MaxChainDepth + 1)]

LEMMA ClaimsRun ==
  ASSUME TypeOK, WorkersSound, NEW k \in Workers, NEW s, Claims(k, s)
  PROVE  /\ Key(s) \in Keys /\ runs' \in [Keys -> RunRecords] /\ runs'[Key(s)].st = "running"
         /\ runs'[Key(s)].reason = "none" /\ runs'[Key(s)].depth <= MaxChainDepth
         /\ \A key \in Keys : key # Key(s) => runs'[key] = runs[key]
         /\ worker'[k] = s /\ s.pc = "budget" /\ \A j \in Workers : j # k => worker'[j] = worker[j]
<1>1. s \in WorkerRecords /\ Sound(s) /\ s.pc = "budget" /\ Moved(k, s)
  BY DEF Claims, MovedIn, Moved
<1>2. Key(s) \in Keys /\ s.job.depth <= MaxChainDepth /\ s.job.depth \in 0..(MaxChainDepth + 1)
  BY <1>1, KeyTyped DEF Sound, WorkerRecords, JobRecords
<1>3. [st |-> "running", reason |-> "none", depth |-> s.job.depth] \in RunRecords
  BY <1>2 DEF RunRecords
<1>4. runs \in [Keys -> RunRecords]
  BY DEF TypeOK, RunRecords
<1>5. runs' = [runs EXCEPT ![Key(s)] = [st |-> "running", reason |-> "none", depth |-> s.job.depth]]
  BY DEF Claims
<1>6. PICK r \in RunRecords : /\ r = [st |-> "running", reason |-> "none", depth |-> s.job.depth]
                              /\ r.st = "running" /\ r.reason = "none" /\ r.depth = s.job.depth
  BY <1>3
<1>7. runs' = [runs EXCEPT ![Key(s)] = r]
  BY <1>5, <1>6
<1>8. runs' \in [Keys -> RunRecords] /\ runs'[Key(s)] = r /\ \A key \in Keys : key # Key(s) => runs'[key] = runs[key]
  BY <1>2, <1>4, <1>7
<1> QED
  BY <1>1, <1>2, <1>6, <1>8, Frame

LEMMA FinishesRun ==
  ASSUME TypeOK, WorkersSound, NEW k \in Workers, NEW s, Finishes(k, s)
  PROVE  /\ InRun(k) /\ Current(k) \in Keys /\ runs' \in [Keys -> RunRecords]
         /\ runs'[Current(k)].st = "closed"
         /\ runs'[Current(k)].reason = worker[k].reason
         /\ runs'[Current(k)].depth = runs[Current(k)].depth
         /\ \A key \in Keys : key # Current(k) => runs'[key] = runs[key]
<1>1. InRun(k) /\ Current(k) \in Keys /\ worker[k].reason \in Reasons
  BY CurrentTyped, WorkerTyped DEF Finishes, InRun
<1>2. runs \in [Keys -> RunRecords]
  BY DEF TypeOK, RunRecords
<1>3. PICK c : c = Current(k)
  OBVIOUS
<1>4. PICK reason \in Reasons : reason = worker[k].reason
  BY <1>1
<1>5. PICK r : r = runs[c]
  OBVIOUS
<1>6. runs' = [runs EXCEPT ![c] = [r EXCEPT !.st = "closed", !.reason = reason]]
  <2>1. runs' = [runs EXCEPT ![c].st = "closed", ![c].reason = reason]
    BY <1>3, <1>4 DEF Finishes
  <2> QED
    BY <1>1, <1>2, <1>3, <1>5, <2>1 DEF RunRecords
<1>7. r \in RunRecords
  BY <1>1, <1>2, <1>3, <1>5
<1>8. PICK q \in RunRecords : /\ q = [r EXCEPT !.st = "closed", !.reason = reason]
                              /\ q.st = "closed" /\ q.reason = reason /\ q.depth = r.depth
  <2> DEFINE z == [r EXCEPT !.st = "closed", !.reason = reason]
  <2>1. z \in RunRecords /\ z.st = "closed" /\ z.reason = reason /\ z.depth = r.depth
    BY <1>7 DEF RunRecords
  <2>2. z = [r EXCEPT !.st = "closed", !.reason = reason]
    OBVIOUS
  <2> HIDE DEF z
  <2> QED
    BY <2>1, <2>2
<1>9. runs' = [runs EXCEPT ![c] = q]
  BY <1>6, <1>8
<1>10. runs' \in [Keys -> RunRecords] /\ runs'[c] = q /\ \A key \in Keys : key # c => runs'[key] = runs[key]
  BY <1>1, <1>2, <1>3, <1>9
<1> QED
  BY <1>1, <1>3, <1>4, <1>5, <1>8, <1>10

RunsTyped ==
  /\ runs \in [Keys -> RunRecords]
  /\ \A k \in Workers : InRun(k) => /\ Current(k) \in Keys /\ runs[Current(k)].st # "none"
                                   /\ worker[k].next \in 1..ActionCount[worker[k].w]
  /\ \A key \in Keys : runs[key].reason # "none" => runs[key].st = "closed"

LEMMA NextRunsTyped == ASSUME TypeOK, WorkersSound, Next PROVE RunsTyped'
<1>1. runs \in [Keys -> RunRecords] /\ \A key \in Keys : runs[key].reason # "none" => runs[key].st = "closed"
  BY DEF TypeOK, RunRecords
<1>2. /\ runs' \in [Keys -> RunRecords]
      /\ \A key \in Keys : runs[key].st # "none" => runs'[key].st # "none"
      /\ \A key \in Keys : runs'[key].reason # "none" => runs'[key].st = "closed"
  <2>1. CASE UNCHANGED runs
    BY <1>1, <2>1
  <2>2. ASSUME NEW k \in Workers, NEW s, Claims(k, s)
        PROVE  /\ runs' \in [Keys -> RunRecords]
               /\ \A key \in Keys : runs[key].st # "none" => runs'[key].st # "none"
               /\ \A key \in Keys : runs'[key].reason # "none" => runs'[key].st = "closed"
    BY <1>1, <2>2, ClaimsRun
  <2>3. ASSUME NEW k \in Workers, NEW s, Finishes(k, s)
        PROVE  /\ runs' \in [Keys -> RunRecords]
               /\ \A key \in Keys : runs[key].st # "none" => runs'[key].st # "none"
               /\ \A key \in Keys : runs'[key].reason # "none" => runs'[key].st = "closed"
    BY <1>1, <2>3, FinishesRun
  <2> QED
    BY <2>1, <2>2, <2>3, RunsChange
<1>3. ASSUME NEW k \in Workers, worker'[k].pc \in RunPCs
      PROVE  /\ Key(worker'[k]) \in Keys
             /\ worker'[k].next \in 1..ActionCount[worker'[k].w]
  <2>1. worker'[k] \in WorkerRecords /\ Sound(worker'[k])
    BY NextWorkersSound DEF WorkersTyped, WorkersSound
  <2> QED
    BY <1>3, <2>1, KeyTyped
<1>4. ASSUME NEW k \in Workers, worker'[k].pc \in RunPCs
      PROVE  runs'[Key(worker'[k])].st # "none"
  <2>1. CASE worker'[k].pc \in RunPCs /\ InRun(k) /\ Key(worker'[k]) = Current(k)
    BY <1>2, <2>1 DEF TypeOK
  <2>2. CASE UNCHANGED worker
    BY <1>4, <2>1, <2>2 DEF InRun, Current, Key
  <2>3. ASSUME NEW i \in Workers, NEW s, MovedOut(i, s) PROVE runs'[Key(worker'[k])].st # "none"
    <3>1. worker'[i] = s /\ s.pc \notin RunPCs /\ \A j \in Workers : j # i => worker'[j] = worker[j]
      BY <2>3, Frame DEF MovedOut
    <3> QED
      BY <1>4, <2>1, <3>1 DEF InRun, Current, Key
  <2>4. ASSUME NEW i \in Workers, NEW s, MovedOn(i, s) PROVE runs'[Key(worker'[k])].st # "none"
    <3>1. /\ worker'[i] = s /\ \A j \in Workers : j # i => worker'[j] = worker[j]
          /\ InRun(i) /\ Key(s) = Current(i)
      BY <2>4, Frame DEF MovedOn
    <3> QED
      BY <1>4, <2>1, <3>1 DEF InRun, Current, Key
  <2>5. ASSUME NEW i \in Workers, NEW s, Claims(i, s) PROVE runs'[Key(worker'[k])].st # "none"
    <3>1. worker'[i] = s /\ (\A j \in Workers : j # i => worker'[j] = worker[j]) /\ runs'[Key(s)].st = "running"
      BY <2>5, ClaimsRun
    <3> QED
      BY <1>4, <2>1, <3>1 DEF InRun, Current, Key
  <2> QED
    BY <2>2, <2>3, <2>4, <2>5, Moves
<1> QED
  BY <1>2, <1>3, <1>4 DEF RunsTyped, InRun, Current, Key

(* What a step does to the accounts of the runs. *)
Starts(k, s) == Decides(k, s) /\ performed' = [performed EXCEPT ![Current(k)] = @ + 1]

LEMMA PerformedChange ==
  ASSUME TypeOK, WorkersSound, Next
  PROVE  UNCHANGED performed \/ \E k \in Workers : \E s : Starts(k, s)
<1>1. CASE Quiet
  BY <1>1 DEF Quiet
<1>2. ASSUME NEW k \in Workers, NEW s,
             \/ Outside(k, s) \/ Claims(k, s) \/ Decides(k, s) \/ GoesOn(k, s)
             \/ Finishes(k, s) \/ Leaves(k, s) \/ Abandons(k, s)
      PROVE  UNCHANGED performed \/ Starts(k, s)
  BY <1>2 DEF Outside, Claims, Decides, GoesOn, Finishes, Leaves, Abandons, Starts
<1> QED
  BY <1>1, <1>2, Kinds

LEMMA StartsRun ==
  ASSUME TypeOK, WorkersSound, RunsSound, NEW k \in Workers, NEW s, Starts(k, s)
  PROVE  /\ InRun(k) /\ worker[k].pc = "budget" /\ Current(k) \in Keys /\ performed[Current(k)] = 0
         /\ runs[Current(k)].st # "none"
         /\ performed' \in [Keys -> Nat] /\ performed'[Current(k)] = 1
         /\ \A key \in Keys : key # Current(k) => performed'[key] = performed[key]
         /\ worker'[k] = s /\ s.pc # "budget" /\ \A j \in Workers : j # k => worker'[j] = worker[j]
<1>1. InRun(k) /\ worker[k].pc = "budget" /\ Moved(k, s) /\ s.pc # "budget"
  BY DEF Starts, Decides, MovedOn
<1>2. Current(k) \in Keys /\ performed[Current(k)] = 0 /\ runs[Current(k)].st # "none"
  BY <1>1 DEF TypeOK, RunsSound, At
<1>3. performed' = [performed EXCEPT ![Current(k)] = @ + 1] /\ performed \in [Keys -> Nat]
  BY DEF Starts, TypeOK
<1>4. PICK c \in Keys : c = Current(k)
  BY <1>2
<1>5. performed' \in [Keys -> Nat] /\ performed'[c] = performed[c] + 1 /\ \A key \in Keys : key # c => performed'[key] = performed[key]
  BY <1>3, <1>4
<1> QED
  BY <1>1, <1>2, <1>4, <1>5, Frame

AccountsTyped == performed \in [Keys -> Nat] /\ recent \subseteq Keys /\ abandoned \subseteq Keys

LEMMA NextAccountsTyped == ASSUME TypeOK, WorkersSound, RunsSound, Next PROVE AccountsTyped'
<1>1. performed' \in [Keys -> Nat]
  BY PerformedChange, StartsRun DEF TypeOK
<1>2. recent' \subseteq Keys /\ abandoned' \subseteq Keys
  <2>1. CASE Quiet
    BY <2>1 DEF Quiet, TypeOK
  <2>2. ASSUME NEW k \in Workers, NEW s, Claims(k, s) PROVE recent' \subseteq Keys /\ abandoned' \subseteq Keys
    <3>1. Key(s) \in Keys
      BY <2>2, ClaimsRun
    <3>2. recent' = recent \cup {Key(s)} /\ abandoned' = abandoned
      BY <2>2 DEF Claims
    <3> QED
      BY <3>1, <3>2 DEF TypeOK
  <2>3. ASSUME NEW k \in Workers, NEW s, Abandons(k, s) PROVE recent' \subseteq Keys /\ abandoned' \subseteq Keys
    BY <2>3, CurrentTyped DEF Abandons, TypeOK
  <2>4. ASSUME NEW k \in Workers, NEW s,
               \/ Outside(k, s) \/ Decides(k, s) \/ GoesOn(k, s) \/ Finishes(k, s) \/ Leaves(k, s)
        PROVE  recent' \subseteq Keys /\ abandoned' \subseteq Keys
    BY <2>4 DEF Outside, Decides, GoesOn, Finishes, Leaves, TypeOK
  <2> QED
    BY <2>1, <2>2, <2>3, <2>4, Kinds
<1> QED
  BY <1>1, <1>2 DEF AccountsTyped

LEMMA NextRunsSound == ASSUME TypeOK, WorkersSound, OneOwner, RunsSound, Next PROVE RunsSound'
<1>1. /\ \A key \in Keys : runs[key].st # "none" => runs'[key].st # "none"
      /\ \A key \in Keys : runs[key].st = "closed" => runs'[key].st = "closed"
      /\ \A key \in Keys : runs'[key].depth <= MaxChainDepth
      /\ \A key \in Keys : key[2] = Elapsed => runs'[key].reason # "run_budget_exceeded"
  <2> DEFINE G == /\ \A key \in Keys : runs[key].st # "none" => runs'[key].st # "none"
                  /\ \A key \in Keys : runs[key].st = "closed" => runs'[key].st = "closed"
                  /\ \A key \in Keys : runs'[key].depth <= MaxChainDepth
                  /\ \A key \in Keys : key[2] = Elapsed => runs'[key].reason # "run_budget_exceeded"
  <2>1. CASE UNCHANGED runs
    BY <2>1 DEF RunsSound
  <2>2. ASSUME NEW k \in Workers, NEW s, Claims(k, s) PROVE G
    <3>1. runs[Key(s)].st = "none"
      BY <2>2 DEF Claims
    <3> QED
      BY <2>2, <3>1, ClaimsRun DEF RunsSound
  <2>3. ASSUME NEW k \in Workers, NEW s, Finishes(k, s) PROVE G
    <3>1. worker[k].reason = "run_budget_exceeded" => Current(k)[2] # Elapsed
      BY <2>3, FinishesRun, CurrentTyped, WorkerTyped DEF Sound
    <3> QED
      BY <2>3, <3>1, FinishesRun DEF RunsSound
  <2> QED
    BY <2>1, <2>2, <2>3, RunsChange
<1>2. \A key \in Keys : runs'[key].st = "none" => performed'[key] = 0
  <2>1. CASE UNCHANGED performed
    BY <1>1, <2>1 DEF RunsSound
  <2>2. ASSUME NEW k \in Workers, NEW s, Starts(k, s)
        PROVE  \A key \in Keys : runs'[key].st = "none" => performed'[key] = 0
    BY <1>1, <2>2, StartsRun DEF RunsSound
  <2> QED
    BY <2>1, <2>2, PerformedChange
<1>3. ASSUME NEW i \in Workers, worker'[i].pc = "budget"
      PROVE  performed'[Key(worker'[i])] = 0
  <2>1. Key(worker'[i]) \in Keys
    <3>1. worker'[i] \in WorkerRecords /\ Sound(worker'[i])
      BY NextWorkersSound DEF WorkersTyped, WorkersSound
    <3> QED
      BY <1>3, <3>1, KeyTyped
  <2>2. performed[Key(worker'[i])] = 0
    <3>1. CASE worker'[i] = worker[i]
      BY <1>3, <3>1 DEF RunsSound, At, Current, Key
    <3>2. ASSUME NEW k \in Workers, NEW s, MovedOut(k, s) PROVE worker'[i] = worker[i]
      BY <1>3, <3>2, Frame DEF MovedOut
    <3>3. ASSUME NEW k \in Workers, NEW s, MovedOn(k, s) PROVE worker'[i] = worker[i]
      BY <1>3, <3>3, Frame DEF MovedOn
    <3>4. ASSUME NEW k \in Workers, NEW s, Claims(k, s) PROVE performed[Key(worker'[i])] = 0
      <4>1. CASE i # k
        BY <3>1, <3>4, <4>1, ClaimsRun
      <4>2. CASE i = k
        <5>1. Key(worker'[i]) = Key(s) /\ runs[Key(s)].st = "none"
          BY <3>4, <4>2, ClaimsRun DEF Claims
        <5> QED
          BY <2>1, <5>1 DEF RunsSound
      <4> QED
        BY <4>1, <4>2
    <3> QED
      BY <3>1, <3>2, <3>3, <3>4, Moves
  <2>3. CASE UNCHANGED performed
    BY <2>2, <2>3
  <2>4. ASSUME NEW k \in Workers, NEW s, Starts(k, s) PROVE performed'[Key(worker'[i])] = 0
    <3>1. i # k /\ worker'[i] = worker[i]
      BY <1>3, <2>4, StartsRun
    <3>2. Key(worker'[i]) # Current(k)
      <4>1. InRun(k)
        BY <2>4, StartsRun
      <4>2. InRun(i) /\ Current(i) = Key(worker'[i])
        BY <1>3, <3>1 DEF InRun, Current, Key
      <4> QED
        BY <3>1, <4>1, <4>2 DEF OneOwner
    <3> QED
      BY <2>1, <2>2, <2>4, <3>2, StartsRun
  <2> QED
    BY <2>3, <2>4, PerformedChange
<1>4. ASSUME NEW i \in Workers, worker'[i].pc \in {"disarm", "raise"}
      PROVE  runs'[Key(worker'[i])].st = "closed"
  <2>1. CASE worker[i].pc \in {"disarm", "raise"} /\ Key(worker'[i]) = Key(worker[i])
    <3>1. Key(worker[i]) \in Keys /\ runs[Key(worker[i])].st = "closed"
      BY <2>1, CurrentTyped DEF RunsSound, Current, Key, InRun
    <3> QED
      BY <1>1, <2>1, <3>1
  <2>2. CASE UNCHANGED worker
    BY <1>4, <2>1, <2>2
  <2>3. ASSUME NEW k \in Workers, NEW s, MovedOut(k, s) PROVE runs'[Key(worker'[i])].st = "closed"
    <3>1. worker'[i] = worker[i]
      BY <1>4, <2>3, Frame DEF MovedOut
    <3> QED
      BY <1>4, <2>1, <3>1
  <2>4. ASSUME NEW k \in Workers, NEW s, Claims(k, s) PROVE runs'[Key(worker'[i])].st = "closed"
    <3>1. worker'[i] = worker[i]
      BY <1>4, <2>4, ClaimsRun
    <3> QED
      BY <1>4, <2>1, <3>1
  <2>5. ASSUME NEW k \in Workers, NEW s, Decides(k, s) PROVE runs'[Key(worker'[i])].st = "closed"
    <3>1. worker'[i] = worker[i]
      BY <1>4, <2>5, Frame DEF Decides, MovedOn
    <3> QED
      BY <1>4, <2>1, <3>1
  <2>6. ASSUME NEW k \in Workers, NEW s, GoesOn(k, s) PROVE runs'[Key(worker'[i])].st = "closed"
    <3>1. /\ worker'[k] = s /\ Key(s) = Key(worker[k])
          /\ s.pc \in {"disarm", "raise"} => worker[k].pc \in {"disarm", "raise"}
          /\ \A j \in Workers : j # k => worker'[j] = worker[j]
      BY <2>6, Frame DEF GoesOn, MovedOn, Current, Key
    <3> QED
      BY <1>4, <2>1, <3>1
  <2>7. ASSUME NEW k \in Workers, NEW s, Finishes(k, s), MovedOn(k, s)
        PROVE  runs'[Key(worker'[i])].st = "closed"
    <3>1. /\ worker'[k] = s /\ Key(s) = Current(k)
          /\ \A j \in Workers : j # k => worker'[j] = worker[j]
      BY <2>7, Frame DEF MovedOn
    <3>2. runs'[Current(k)].st = "closed"
      BY <2>7, FinishesRun
    <3> QED
      BY <1>4, <2>1, <3>1, <3>2
  <2>8. ASSUME NEW k \in Workers, NEW s,
               \/ Outside(k, s) \/ Claims(k, s) \/ Decides(k, s) \/ GoesOn(k, s)
               \/ Finishes(k, s) \/ Leaves(k, s) \/ Abandons(k, s)
        PROVE  runs'[Key(worker'[i])].st = "closed"
    <3>1. CASE MovedOut(k, s)
      BY <2>3, <3>1
    <3>2. CASE Finishes(k, s) /\ MovedOn(k, s)
      BY <2>7, <3>2
    <3> QED
      BY <2>8, <3>1, <3>2, <2>4, <2>5, <2>6 DEF Outside, Finishes, Leaves, Abandons
  <2>9. CASE Quiet
    BY <2>2, <2>9 DEF Quiet
  <2> QED
    BY <2>8, <2>9, Kinds
<1> QED
  BY <1>1, <1>2, <1>3, <1>4 DEF RunsSound, At, Current, Key

LEMMA NextActionsOnce == ASSUME TypeOK, WorkersSound, RunsSound, ActionsOnce, Next PROVE ActionsOnce'
<1>1. CASE UNCHANGED performed
  BY <1>1 DEF ActionsOnce
<1>2. ASSUME NEW k \in Workers, NEW s, Starts(k, s) PROVE ActionsOnce'
  BY <1>2, StartsRun DEF ActionsOnce
<1> QED
  BY <1>1, <1>2, PerformedChange

LEMMA NextOpenRuns ==
  ASSUME TypeOK, WorkersSound, RunsSound, OpenRunNeedsCrash, Next PROVE OpenRunNeedsCrash'
<1> SUFFICES ASSUME NEW key \in Keys, runs'[key].st = "running",
                    ~(\E i \in Workers : worker'[i].pc \in RunPCs /\ Key(worker'[i]) = key)
             PROVE  key \in abandoned'
  BY DEF OpenRunNeedsCrash, InRun, Current, Key
<1>1. abandoned \subseteq abandoned'
  <2>1. ASSUME NEW k \in Workers, NEW s,
               \/ Outside(k, s) \/ Claims(k, s) \/ Decides(k, s) \/ GoesOn(k, s)
               \/ Finishes(k, s) \/ Leaves(k, s) \/ Abandons(k, s)
        PROVE  abandoned \subseteq abandoned'
    BY <2>1 DEF Outside, Claims, Decides, GoesOn, Finishes, Leaves, Abandons
  <2> QED
    BY <2>1, Kinds DEF Quiet
<1>2. runs[key].st = "running"
  <2>1. ASSUME NEW k \in Workers, NEW s, Claims(k, s) PROVE runs[key].st = "running"
    <3>1. key # Key(s)
      BY <2>1, ClaimsRun
    <3> QED
      BY <2>1, <3>1, ClaimsRun
  <2>2. ASSUME NEW k \in Workers, NEW s, Finishes(k, s) PROVE runs[key].st = "running"
    BY <2>2, FinishesRun
  <2> QED
    BY <2>1, <2>2, RunsChange
<1>3. CASE key \in abandoned
  BY <1>1, <1>3
<1>4. CASE key \notin abandoned
  <2>1. PICK i \in Workers : InRun(i) /\ Current(i) = key
    BY <1>2, <1>4 DEF OpenRunNeedsCrash
  <2>2. ~(worker'[i].pc \in RunPCs /\ Key(worker'[i]) = key)
    OBVIOUS
  <2>3. worker'[i] # worker[i]
    BY <2>1, <2>2 DEF InRun, Current, Key
  <2>4. ASSUME NEW k \in Workers, NEW s, MovedOn(k, s) PROVE FALSE
    BY <2>1, <2>2, <2>3, <2>4, Frame DEF MovedOn
  <2>5. ASSUME NEW k \in Workers, NEW s, MovedOut(k, s) PROVE k = i
    BY <2>3, <2>5, Frame DEF MovedOut
  <2>6. ASSUME NEW k \in Workers, NEW s, Claims(k, s) PROVE FALSE
    <3>1. k = i
      BY <2>3, <2>6, ClaimsRun
    <3> QED
      BY <2>1, <2>6, <3>1 DEF Claims
  <2>7. ASSUME NEW k \in Workers, NEW s, Outside(k, s) PROVE FALSE
    BY <2>1, <2>5, <2>7 DEF Outside
  <2>8. ASSUME NEW k \in Workers, NEW s, Finishes(k, s) PROVE FALSE
    <3>1. MovedOut(k, s)
      BY <2>4, <2>8 DEF Finishes
    <3>2. runs'[key].st = "closed"
      BY <2>1, <2>5, <2>8, <3>1, FinishesRun
    <3> QED
      BY <3>2
  <2>9. ASSUME NEW k \in Workers, NEW s, Leaves(k, s) PROVE FALSE
    <3>1. k = i /\ worker[k].pc \in {"disarm", "raise"}
      BY <2>5, <2>9 DEF Leaves
    <3> QED
      BY <1>2, <2>1, <3>1 DEF RunsSound
  <2>10. ASSUME NEW k \in Workers, NEW s, Abandons(k, s) PROVE key \in abandoned'
    BY <2>1, <2>5, <2>10 DEF Abandons
  <2>11. ~Quiet
    BY <2>3 DEF Quiet
  <2>12. ASSUME NEW k \in Workers, NEW s, Decides(k, s) \/ GoesOn(k, s) PROVE FALSE
    BY <2>4, <2>12 DEF Decides, GoesOn
  <2> QED
    BY <2>6, <2>7, <2>8, <2>9, <2>10, <2>11, <2>12, Kinds
<1> QED
  BY <1>3, <1>4

(* What a step does to the workflows. *)
ArmsTyped == armed \subseteq Workflows /\ notices \in [Workflows -> Nat] /\ arms \in [Workflows -> Nat]

LEMMA ArmsChange ==
  ASSUME Next
  PROVE  \/ UNCHANGED <<armed, notices, arms>>
         \/ \E k \in Workers : Deactivate(k)
         \/ \E w \in Workflows : Arm(w) \/ Disarm(w)
  BY DEF Next, WorkerStep, FaultStep, PeopleStep, Evaluate, Claim, BudgetFirst, RunOne, Execute, Finish,
         RaiseChainedTrigger, Crash, StatementFails, EnqueueFails, Stall, Sweep, HourPasses, ChangeTicket,
         ghostVars

Accounted(w) == arms[w] >= 1 /\ notices[w] <= arms[w] /\ (w \in armed => notices[w] < arms[w])

LEMMA NextArms ==
  ASSUME TypeOK, WorkersSound, GapsAreClosed, Next
  PROVE  /\ ArmsTyped'
         /\ \A w \in Workflows : /\ Accounted(w)'
                                 /\ (w \notin armed \/ arms[w] > 1) => (w \notin armed' \/ arms'[w] > 1)
<1>1. ArmsTyped /\ \A w \in Workflows : Accounted(w)
  BY DEF TypeOK, GapsAreClosed, ArmsTyped, Accounted
<1>2. CASE UNCHANGED <<armed, notices, arms>>
  BY <1>1, <1>2 DEF ArmsTyped, Accounted
<1>3. ASSUME NEW k \in Workers, Deactivate(k)
      PROVE  /\ ArmsTyped'
             /\ \A w \in Workflows : /\ Accounted(w)'
                                     /\ (w \notin armed \/ arms[w] > 1) => (w \notin armed' \/ arms'[w] > 1)
  <2>1. PICK v \in Workflows : v = worker[k].w
    BY <1>3, CurrentTyped DEF Deactivate, At, InRun
  <2>2. /\ armed' = armed \ {v} /\ arms' = arms
        /\ notices' = [notices EXCEPT ![v] = IF v \in armed THEN notices[v] + 1 ELSE notices[v]]
    BY <1>3, <2>1 DEF Deactivate, Disarmed, Tells
  <2> QED
    BY <1>1, <2>1, <2>2 DEF ArmsTyped, Accounted
<1>4. ASSUME NEW v \in Workflows, Arm(v) \/ Disarm(v)
      PROVE  /\ ArmsTyped'
             /\ \A w \in Workflows : /\ Accounted(w)'
                                     /\ (w \notin armed \/ arms[w] > 1) => (w \notin armed' \/ arms'[w] > 1)
  <2>1. CASE Arm(v)
    <3>1. armed' = armed \cup {v} /\ arms' = [arms EXCEPT ![v] = arms[v] + 1] /\ notices' = notices
      BY <2>1 DEF Arm
    <3> QED
      BY <1>1, <3>1 DEF ArmsTyped, Accounted
  <2>2. CASE Disarm(v)
    BY <1>1, <2>2 DEF Disarm, ghostVars, ArmsTyped, Accounted
  <2> QED
    BY <1>4, <2>1, <2>2
<1> QED
  BY <1>2, <1>3, <1>4, ArmsChange

LEMMA NextGaps ==
  ASSUME TypeOK, WorkersSound, GapsAreClosed, Next PROVE GapsAreClosed'
<1> DEFINE Closing(key) == \E i \in Workers : worker'[i].pc \in {"disarm", "reclose"} /\ Key(worker'[i]) = key
           Gone(w) == w \notin armed' \/ arms'[w] > 1
<1>1. ASSUME NEW key \in Keys, runs'[key].reason = "reference_missing", key \notin abandoned'
      PROVE  Closing(key) \/ Gone(key[1])
  <2>0. key[1] \in Workflows
    BY DEF Keys
  <2>1. CASE key[1] \notin armed \/ arms[key[1]] > 1
    BY <2>0, <2>1, NextArms
  <2>2. ASSUME NEW i \in Workers, worker[i].pc \in {"disarm", "reclose"}, Current(i) = key
        PROVE  Closing(key) \/ Gone(key[1])
    <3>1. InRun(i) /\ key[1] = worker[i].w
      BY <2>2, CurrentTyped DEF InRun
    <3>2. CASE worker'[i] = worker[i]
      BY <2>2, <3>2 DEF Current, Key
    <3>3. ASSUME NEW k \in Workers, NEW s, Moved(k, s), k # i PROVE Closing(key) \/ Gone(key[1])
      <4>1. worker'[i] = worker[i]
        BY <3>3, Frame
      <4> QED
        BY <3>2, <4>1
    <3>4. ASSUME NEW s, GoesOn(i, s) PROVE Closing(key) \/ Gone(key[1])
      <4>1. worker'[i] = s /\ Key(s) = key /\ (s.pc = "reclose" \/ worker[i].w \notin armed')
        BY <2>2, <3>4, Frame DEF GoesOn, MovedOn
      <4> QED
        BY <3>1, <4>1
    <3>5. ASSUME NEW s, Finishes(i, s) PROVE Closing(key) \/ Gone(key[1])
      <4>1. worker[i].reason = "reference_missing"
        BY <1>1, <2>2, <3>5, FinishesRun
      <4>2. worker[i].pc = "reclose" /\ Sound(worker[i])
        BY <2>2, <3>5, WorkerTyped DEF Finishes
      <4> QED
        BY <4>1, <4>2 DEF Sound
    <3>6. ASSUME NEW s, Leaves(i, s) PROVE Gone(key[1])
      BY <2>2, <3>1, <3>6 DEF Leaves
    <3>7. ASSUME NEW s, Abandons(i, s) PROVE FALSE
      BY <1>1, <2>2, <3>7 DEF Abandons
    <3>8. ASSUME NEW s, Outside(i, s) \/ Claims(i, s) \/ Decides(i, s) PROVE FALSE
      BY <2>2, <3>1, <3>8 DEF Outside, Claims, Decides
    <3>9. ASSUME NEW k \in Workers, NEW s,
                 \/ Outside(k, s) \/ Claims(k, s) \/ Decides(k, s) \/ GoesOn(k, s)
                 \/ Finishes(k, s) \/ Leaves(k, s) \/ Abandons(k, s)
          PROVE  Closing(key) \/ Gone(key[1])
      <4>1. Moved(k, s)
        BY <3>9 DEF Outside, Claims, Decides, GoesOn, Finishes, Leaves, Abandons, MovedOut, MovedIn, MovedOn
      <4>2. CASE k = i
        BY <3>4, <3>5, <3>6, <3>7, <3>8, <3>9, <4>2
      <4> QED
        BY <3>3, <4>1, <4>2
    <3>10. CASE Quiet
      BY <3>2, <3>10 DEF Quiet
    <3> HIDE DEF Closing, Gone
    <3> QED
      BY <3>9, <3>10, Kinds
  <2>3. ASSUME runs[key].reason = "reference_missing", key \notin abandoned
        PROVE  Closing(key) \/ Gone(key[1])
    <3>1. \/ \E i \in Workers : worker[i].pc \in {"disarm", "reclose"} /\ Current(i) = key
          \/ key[1] \notin armed \/ arms[key[1]] > 1
      BY <2>3 DEF GapsAreClosed
    <3> HIDE DEF Closing, Gone
    <3> QED
      BY <2>1, <2>2, <3>1
  <2>4. key \notin abandoned
    <3>1. ASSUME NEW k \in Workers, NEW s,
                 \/ Outside(k, s) \/ Claims(k, s) \/ Decides(k, s) \/ GoesOn(k, s)
                 \/ Finishes(k, s) \/ Leaves(k, s) \/ Abandons(k, s)
          PROVE  abandoned \subseteq abandoned'
      BY <3>1 DEF Outside, Claims, Decides, GoesOn, Finishes, Leaves, Abandons
    <3> QED
      BY <1>1, <3>1, Kinds DEF Quiet
  <2>5. ASSUME NEW k \in Workers, NEW s, Finishes(k, s) PROVE Closing(key) \/ Gone(key[1])
    <3>1. CASE key # Current(k)
      <4>1. runs[key].reason = "reference_missing"
        BY <1>1, <2>5, <3>1, FinishesRun
      <4> HIDE DEF Closing, Gone
      <4> QED
        BY <2>3, <2>4, <4>1
    <3>2. CASE key = Current(k)
      <4>1. worker[k].reason = "reference_missing"
        BY <1>1, <2>5, <3>2, FinishesRun
      <4>2. MovedOn(k, s) /\ s.pc = "disarm"
        BY <2>5, <4>1 DEF Finishes
      <4>3. worker'[k] = s /\ Key(s) = key
        BY <3>2, <4>2, Frame DEF MovedOn
      <4> QED
        BY <4>2, <4>3
    <3> QED
      BY <3>1, <3>2
  <2>6. ASSUME NEW k \in Workers, NEW s, Claims(k, s) PROVE runs[key].reason = "reference_missing"
    <3>1. key # Key(s)
      BY <1>1, <2>6, ClaimsRun
    <3> QED
      BY <1>1, <2>6, <3>1, ClaimsRun
  <2>7. CASE UNCHANGED runs
    <3>1. runs[key].reason = "reference_missing"
      BY <1>1, <2>7
    <3> HIDE DEF Closing, Gone
    <3> QED
      BY <2>3, <2>4, <3>1
  <2> HIDE DEF Closing, Gone
  <2> QED
    BY <2>3, <2>4, <2>5, <2>6, <2>7, RunsChange
<1>2. \A w \in Workflows : /\ arms'[w] >= 1 /\ notices'[w] <= arms'[w]
                           /\ w \in armed' => notices'[w] < arms'[w]
  BY NextArms DEF Accounted
<1> QED
  BY <1>1, <1>2 DEF GapsAreClosed, Current, Key

-----------------------------------------------------------------------------
(* The queue and the occurrences. *)
QueueTyped ==
  /\ jobs \subseteq JobRecords /\ settled \subseteq Occurrences
  /\ events \in 1..MaxEvents /\ open \in BOOLEAN
  /\ acts \in 0..MaxActs /\ faults \in 0..MaxFaults

LEMMA Requeued ==
  ASSUME TypeOK, NEW j \in JobRecords, Requeue(j) PROVE jobs \subseteq jobs' /\ jobs' \subseteq JobRecords
<1>1. CASE ~(j.tries + 1 < MaxTries)
  BY <1>1 DEF Requeue, TypeOK
<1>2. CASE j.tries + 1 < MaxTries
  <2> DEFINE r == [j EXCEPT !.tries = j.tries + 1]
  <2>1. j.tries + 1 \in 0..MaxTries
    BY <1>2, BoundsAssumption DEF JobRecords
  <2>2. PICK n \in 0..MaxTries : n = j.tries + 1
    BY <2>1
  <2>3. r = [j EXCEPT !.tries = n]
    BY <2>2
  <2>4. [j EXCEPT !.tries = n] \in JobRecords
    BY DEF JobRecords
  <2>5. r \in JobRecords /\ jobs' = jobs \cup {r}
    BY <1>2, <2>3, <2>4 DEF Requeue
  <2> QED
    BY <2>5 DEF TypeOK
<1> QED
  BY <1>1, <1>2

LEMMA RaisedLeast ==
  ASSUME TypeOK, WorkersSound, NEW k \in Workers, worker[k].raised # {}
  PROVE  Min(worker[k].raised) \in worker[k].raised
<1>1. worker[k].raised \in SUBSET Nat
  BY WorkerTyped, OccurrenceType
<1> QED
  BY <1>1, MinIn

LEMMA NewJob ==
  ASSUME NEW o \in Occurrences, NEW d \in 0..(MaxChainDepth + 1)
  PROVE  [occ |-> o, depth |-> d, tries |-> 0] \in JobRecords
  BY BoundsAssumption DEF JobRecords

LEMMA NextQueueTyped == ASSUME TypeOK, WorkersSound, Next PROVE QueueTyped'
<1> USE DEF ghostVars, boundVars
<1>0. QueueTyped
  BY DEF TypeOK, QueueTyped
<1>1. ASSUME NEW k \in Workers, NEW j \in jobs, Evaluate(k, j) PROVE QueueTyped'
  <2>1. j.occ \in Occurrences
    BY DEF TypeOK, JobRecords
  <2> QED
    BY <1>0, <1>1, <2>1 DEF Evaluate, QueueTyped
<1>2. ASSUME NEW k \in Workers,
             \/ \E due \in BOOLEAN : Claim(k, due)
             \/ BudgetFirst(k) \/ RunOne(k) \/ Finish(k) \/ Deactivate(k)
      PROVE  QueueTyped'
  <2>1. UNCHANGED <<jobs, settled, events, open, acts, faults>>
    BY <1>2 DEF Claim, BudgetFirst, RunOne, Finish, Deactivate
  <2> QED
    BY <1>0, <2>1 DEF QueueTyped
<1>3. ASSUME NEW k \in Workers, Execute(k) PROVE QueueTyped'
  <2>1. UNCHANGED <<jobs, settled, open, acts, faults>>
    BY <1>3 DEF Execute
  <2>2. events' = events \/ (events < MaxEvents /\ events' = events + 1)
    BY <1>3, StepExecute
  <2> QED
    BY <1>0, <2>1, <2>2, BoundsAssumption DEF QueueTyped
<1>4. ASSUME NEW k \in Workers, RaiseChainedTrigger(k) \/ EnqueueFails(k) PROVE QueueTyped'
  <2> DEFINE o == Min(worker[k].raised)
             d == ChainedDepth(k)
  <2>1. worker[k].pc = "raise"
    BY <1>4 DEF RaiseChainedTrigger, EnqueueFails, At
  <2>2. o \in Occurrences
    BY <2>1, WorkerTyped, RaisedLeast DEF Sound
  <2>3. d \in 0..(MaxChainDepth + 1)
    BY WorkerTyped, BoundsAssumption DEF ChainedDepth, Sound, JobRecords
  <2>4. CASE RaiseChainedTrigger(k)
    <3>1. /\ jobs' = jobs \cup {[occ |-> o, depth |-> d, tries |-> 0]}
          /\ UNCHANGED <<settled, events, open, acts, faults>>
      BY <2>4 DEF RaiseChainedTrigger
    <3> HIDE DEF o, d
    <3>2. jobs' \subseteq JobRecords
      BY <1>0, <2>2, <2>3, <3>1, NewJob DEF QueueTyped
    <3> QED
      BY <1>0, <3>1, <3>2 DEF QueueTyped
  <2>5. CASE EnqueueFails(k)
    <3>1. /\ settled' = settled \cup {o} /\ faults < MaxFaults /\ faults' = faults + 1
          /\ UNCHANGED <<jobs, events, open, acts>>
      BY <2>5 DEF EnqueueFails, Fault
    <3> HIDE DEF o
    <3> QED
      BY <1>0, <2>2, <3>1, BoundsAssumption DEF QueueTyped
  <2> QED
    BY <1>4, <2>4, <2>5
<1>5. ASSUME NEW k \in Workers, Crash(k) \/ StatementFails(k) \/ Stall(k) PROVE QueueTyped'
  <2>1. worker[k].raised \subseteq Occurrences /\ worker[k].job \in JobRecords
    BY WorkerTyped
  <2>2. /\ faults < MaxFaults /\ faults' = faults + 1 /\ UNCHANGED <<events, open, acts>>
        /\ settled' = settled \/ settled' = settled \cup worker[k].raised
        /\ jobs' = jobs \/ Requeue(worker[k].job)
    BY <1>5 DEF Crash, StatementFails, Stall, Fault, Abandon
  <2>3. jobs' \subseteq JobRecords
    BY <1>0, <2>1, <2>2, Requeued DEF QueueTyped
  <2> QED
    BY <1>0, <2>1, <2>2, <2>3, BoundsAssumption DEF QueueTyped
<1>6. CASE Sweep
  <2>1. NoJob \in JobRecords
    BY IdleType
  <2> QED
    BY <1>0, <1>6, <2>1 DEF Sweep, QueueTyped
<1>7. CASE HourPasses \/ \E w \in Workflows : Arm(w) \/ Disarm(w)
  <2>1. acts < MaxActs /\ acts' = acts + 1 /\ UNCHANGED <<jobs, settled, events, open, faults>>
    BY <1>7 DEF HourPasses, Arm, Disarm, Act
  <2> QED
    BY <1>0, <2>1, BoundsAssumption DEF QueueTyped
<1>8. ASSUME NEW finish \in BOOLEAN, NEW queued \in BOOLEAN, ChangeTicket(finish, queued) PROVE QueueTyped'
  <2>1. /\ acts < MaxActs /\ acts' = acts + 1 /\ open' = ~finish /\ events < MaxEvents /\ events' = events + 1
        /\ \/ /\ jobs' = jobs \cup {[occ |-> events + 1, depth |-> 0, tries |-> 0]}
              /\ UNCHANGED <<settled, faults>>
           \/ /\ faults < MaxFaults /\ faults' = faults + 1 /\ settled' = settled \cup {events + 1}
              /\ UNCHANGED jobs
    BY <1>8 DEF ChangeTicket
  <2>2. events + 1 \in Occurrences /\ 0 \in 0..(MaxChainDepth + 1) /\ events + 1 \in 1..MaxEvents
    BY <1>0, <2>1, BoundsAssumption DEF QueueTyped, Occurrences, Elapsed
  <2>3. PICK o \in Occurrences : o = events + 1
    BY <2>2
  <2>4. [occ |-> o, depth |-> 0, tries |-> 0] \in JobRecords
    BY <2>2, NewJob
  <2>5. open' \in BOOLEAN
    BY <2>1
  <2>6. jobs' \subseteq JobRecords /\ settled' \subseteq Occurrences
    BY <1>0, <2>1, <2>2, <2>3, <2>4 DEF QueueTyped
  <2>7. acts' \in 0..MaxActs /\ faults' \in 0..MaxFaults /\ events' \in 1..MaxEvents
    BY <1>0, <2>1, <2>2, BoundsAssumption DEF QueueTyped
  <2> QED
    BY <2>5, <2>6, <2>7 DEF QueueTyped
<1>9. ASSUME NEW k \in Workers, WorkerStep(k) \/ FaultStep(k) PROVE QueueTyped'
  <2>1. CASE \E j \in jobs : Evaluate(k, j)
    BY <1>1, <2>1
  <2> QED
    BY <1>2, <1>3, <1>4, <1>5, <1>9, <2>1 DEF WorkerStep, FaultStep
<1> QED
  BY <1>6, <1>7, <1>8, <1>9 DEF Next, PeopleStep

(* Who holds an occurrence. *)
Offered(o) == o \in settled \/ (\E j \in jobs : j.occ = o) \/ \E k \in Workers : o \in worker[k].raised

LEMMA OfferedByWorker ==
  ASSUME TypeOK, WorkersSound, NEW k \in Workers, NEW s, Moved(k, s), NEW o, Offered(o),
         settled \subseteq settled',
         \A j \in jobs : j \in jobs' \/ j.occ \in settled' \/ j.occ # o,
         o \in worker[k].raised => o \in s.raised \/ o \in settled' \/ \E j \in jobs' : j.occ = o
  PROVE  Offered(o)'
<1>1. worker'[k] = s /\ \A i \in Workers : i # k => worker'[i] = worker[i]
  BY Frame
<1>2. CASE o \in settled
  BY <1>2 DEF Offered
<1>3. CASE \E j \in jobs : j.occ = o
  BY <1>3 DEF Offered
<1>4. ASSUME NEW i \in Workers, o \in worker[i].raised PROVE Offered(o)'
  BY <1>1, <1>4 DEF Offered
<1> QED
  BY <1>2, <1>3, <1>4 DEF Offered

LEMMA OfferedStays ==
  ASSUME TypeOK, WorkersSound, Next, NEW o \in 1..events, Offered(o) PROVE Offered(o)'
<1> USE DEF ghostVars, boundVars
<1>0. o # Elapsed
  BY DEF TypeOK, Elapsed
<1>1. ASSUME NEW k \in Workers, NEW j \in jobs, Evaluate(k, j) PROVE Offered(o)'
  <2>1. /\ worker[k].raised = {} /\ settled \subseteq settled'
        /\ \A i \in jobs : i \in jobs' \/ i.occ \in settled' \/ i.occ # o
    BY <1>0, <1>1, StepEvaluate DEF Evaluate
  <2>2. CASE UNCHANGED worker
    BY <2>1, <2>2 DEF Offered
  <2>3. ASSUME NEW s, MovedOut(k, s) PROVE Offered(o)'
    <3>1. Moved(k, s)
      BY <2>3 DEF MovedOut
    <3> QED
      BY <2>1, <3>1, OfferedByWorker
  <2> QED
    BY <1>1, <2>2, <2>3, StepEvaluate
<1>2. ASSUME NEW k \in Workers, NEW s, Moved(k, s), UNCHANGED <<jobs, settled>>,
             worker[k].raised \subseteq s.raised
      PROVE  Offered(o)'
  <2>1. /\ settled \subseteq settled'
        /\ o \in worker[k].raised => o \in s.raised
        /\ \A j \in jobs : j \in jobs' \/ j.occ \in settled' \/ j.occ # o
    BY <1>2
  <2> QED
    BY <1>2, <2>1, OfferedByWorker
<1>3. ASSUME NEW k \in Workers, NEW due \in BOOLEAN, Claim(k, due) PROVE Offered(o)'
  <2>1. /\ UNCHANGED <<jobs, settled>> /\ worker[k].raised = {}
        /\ \E s : Moved(k, s)
    BY <1>3, StepClaim DEF Claim, MovedOut, MovedIn
  <2> QED
    BY <1>2, <2>1
<1>4. ASSUME NEW k \in Workers, BudgetFirst(k) PROVE Offered(o)'
  <2>1. /\ UNCHANGED <<jobs, settled>> /\ worker[k].raised = {}
        /\ \E s : Moved(k, s)
    BY <1>4, StepBudgetFirst DEF BudgetFirst, MovedOut
  <2> QED
    BY <1>2, <2>1
<1>5. ASSUME NEW k \in Workers, RunOne(k) PROVE Offered(o)'
  <2>1. /\ UNCHANGED <<jobs, settled>> /\ worker[k].raised = {}
        /\ \E s : Moved(k, s)
    BY <1>5, StepRunOne DEF RunOne, MovedOn
  <2> QED
    BY <1>2, <2>1
<1>6. ASSUME NEW k \in Workers, Execute(k) PROVE Offered(o)'
  <2>1. /\ UNCHANGED <<jobs, settled>>
        /\ \E s : Moved(k, s) /\ worker[k].raised \subseteq s.raised
    BY <1>6, StepExecute DEF Execute, MovedOn
  <2> QED
    BY <1>2, <2>1
<1>7. ASSUME NEW k \in Workers, Finish(k) PROVE Offered(o)'
  <2>1. /\ UNCHANGED <<jobs, settled>>
        /\ \E s : Moved(k, s) /\ worker[k].raised \subseteq s.raised
    BY <1>7, StepFinish DEF Finish, MovedOn, MovedOut
  <2> QED
    BY <1>2, <2>1
<1>8. ASSUME NEW k \in Workers, Deactivate(k) PROVE Offered(o)'
  <2>1. InRun(k) /\ worker' = [worker EXCEPT ![k] = AfterRun(k)]
    BY <1>8 DEF Deactivate, InRun, At, SetWorker
  <2>2. /\ UNCHANGED <<jobs, settled>>
        /\ \E s : Moved(k, s) /\ worker[k].raised \subseteq s.raised
    BY <1>8, <2>1, StepAfterRun DEF Deactivate, MovedOn, MovedOut
  <2> QED
    BY <1>2, <2>2
<1>9. ASSUME NEW k \in Workers, RaiseChainedTrigger(k) \/ EnqueueFails(k) PROVE Offered(o)'
  <2> DEFINE m == Min(worker[k].raised)
             d == ChainedDepth(k)
  <2>1. /\ worker[k].pc = "raise" /\ worker' = [worker EXCEPT ![k] = AfterRaise(k, m)]
        /\ settled \subseteq settled' /\ jobs \subseteq jobs'
        /\ m \in settled' \/ [occ |-> m, depth |-> d, tries |-> 0] \in jobs'
    BY <1>9 DEF RaiseChainedTrigger, EnqueueFails, At, SetWorker
  <2> HIDE DEF m, d
  <2>2. PICK s : Moved(k, s) /\ worker[k].raised \subseteq s.raised \cup {m}
    <3>1. PICK s : \/ MovedOn(k, s) /\ s.raised = worker[k].raised \ {m}
                   \/ MovedOut(k, s) /\ worker[k].raised = {m}
      BY <2>1, StepAfterRaise
    <3>2. Moved(k, s) /\ worker[k].raised \subseteq s.raised \cup {m}
      BY <3>1 DEF MovedOn, MovedOut
    <3> QED
      BY <3>2
  <2>3. m \in settled' \/ \E j \in jobs' : j.occ = m
    BY <2>1
  <2>4. /\ o \in worker[k].raised => o \in s.raised \/ o \in settled' \/ \E j \in jobs' : j.occ = o
        /\ \A j \in jobs : j \in jobs' \/ j.occ \in settled' \/ j.occ # o
    BY <2>1, <2>2, <2>3
  <2> QED
    BY <2>1, <2>2, <2>4, OfferedByWorker
<1>10. ASSUME NEW k \in Workers, Crash(k) \/ StatementFails(k) PROVE Offered(o)'
  <2>1. settled' = settled \cup worker[k].raised
    BY <1>10 DEF Crash, Abandon, StatementFails
  <2>2. jobs \subseteq jobs'
    BY <1>10, WorkerTyped, Requeued DEF Crash, Abandon, StatementFails
  <2>3. PICK s : Moved(k, s)
    <3>1. CASE Crash(k)
      BY <3>1, StepAbandon DEF Crash, Abandon, SetWorker, MovedOut
    <3>2. CASE StatementFails(k)
      BY <3>2, StepStatementFails DEF MovedOn
    <3> QED
      BY <1>10, <3>1, <3>2
  <2>4. /\ settled \subseteq settled'
        /\ o \in worker[k].raised => o \in s.raised \/ o \in settled' \/ \E j \in jobs' : j.occ = o
        /\ \A j \in jobs : j \in jobs' \/ j.occ \in settled' \/ j.occ # o
    BY <2>1, <2>2
  <2> QED
    BY <2>3, <2>4, OfferedByWorker
<1>11. ASSUME UNCHANGED worker, jobs \subseteq jobs', settled \subseteq settled' PROVE Offered(o)'
  BY <1>11 DEF Offered
<1>12. ASSUME NEW k \in Workers, Stall(k) PROVE Offered(o)'
  <2>1. UNCHANGED worker /\ jobs \subseteq jobs' /\ settled \subseteq settled'
    BY <1>12, WorkerTyped, Requeued DEF Stall
  <2> QED
    BY <1>11, <2>1
<1>13. ASSUME Sweep \/ HourPasses \/ PeopleStep PROVE Offered(o)'
  <2>1. UNCHANGED worker /\ jobs \subseteq jobs' /\ settled \subseteq settled'
    BY <1>13 DEF Sweep, HourPasses, PeopleStep, ChangeTicket, Arm, Disarm
  <2> QED
    BY <1>11, <2>1
<1>14. ASSUME NEW k \in Workers, WorkerStep(k) PROVE Offered(o)'
  <2>1. CASE \E j \in jobs : Evaluate(k, j)
    BY <1>1, <2>1
  <2>2. CASE \E due \in BOOLEAN : Claim(k, due)
    BY <1>3, <2>2
  <2> QED
    BY <1>4, <1>5, <1>6, <1>7, <1>8, <1>9, <1>14, <2>1, <2>2 DEF WorkerStep
<1>15. ASSUME NEW k \in Workers, FaultStep(k) PROVE Offered(o)'
  BY <1>9, <1>10, <1>12, <1>15 DEF FaultStep
<1> QED
  BY <1>13, <1>14, <1>15 DEF Next

LEMMA NextOccurrences ==
  ASSUME TypeOK, WorkersSound, OccurrenceLostNeedsFault, Next PROVE OccurrenceLostNeedsFault'
<1> USE DEF ghostVars, boundVars
<1>1. ASSUME NEW o \in 1..events PROVE Offered(o)'
  BY OfferedStays DEF OccurrenceLostNeedsFault, Offered
<1>2. PICK e \in Nat : e = events + 1
  BY BoundsAssumption DEF TypeOK
<1>3. events' = events \/ (events' = e /\ Offered(e)')
  <2>1. ASSUME NEW k \in Workers, Execute(k) PROVE events' = events \/ (events' = e /\ Offered(e)')
    <3>1. PICK s : /\ MovedOn(k, s)
                   /\ \/ UNCHANGED events /\ s.raised = worker[k].raised
                      \/ /\ events < MaxEvents /\ events' = events + 1
                         /\ s.raised = worker[k].raised \cup {events + 1}
      BY <2>1, StepExecute
    <3>2. worker'[k] = s
      BY <3>1, Frame DEF MovedOn
    <3>3. events' = events \/ (events' = e /\ e \in worker'[k].raised)
      BY <1>2, <3>1, <3>2
    <3> QED
      BY <3>3 DEF Offered
  <2>2. ASSUME NEW finish \in BOOLEAN, NEW queued \in BOOLEAN, ChangeTicket(finish, queued)
        PROVE  events' = e /\ Offered(e)'
    <3>1. e \in settled' \/ [occ |-> e, depth |-> 0, tries |-> 0] \in jobs'
      BY <1>2, <2>2 DEF ChangeTicket
    <3>2. e \in settled' \/ \E j \in jobs' : j.occ = e
      BY <3>1
    <3>3. events' = e
      BY <1>2, <2>2 DEF ChangeTicket
    <3> QED
      BY <3>2, <3>3 DEF Offered
  <2>3. \/ \E k \in Workers : Execute(k)
        \/ \E finish, queued \in BOOLEAN : ChangeTicket(finish, queued)
        \/ events' = events
    BY DEF Next, WorkerStep, FaultStep, PeopleStep, Evaluate, Claim, BudgetFirst, RunOne, Finish, Deactivate,
           RaiseChainedTrigger, Crash, StatementFails, EnqueueFails, Stall, Sweep, HourPasses, Arm, Disarm
  <2> QED
    BY <2>1, <2>2, <2>3
<1>4. events \in Nat
  BY BoundsAssumption DEF TypeOK
<1>5. ASSUME NEW o \in 1..events' PROVE Offered(o)'
  <2>1. CASE o \in 1..events
    BY <1>1, <2>1
  <2>2. CASE o \notin 1..events
    <3>1. o = e /\ events' = e
      BY <1>2, <1>3, <1>4, <2>2
    <3>2. Offered(e)'
      BY <1>2, <1>3, <1>4, <3>1
    <3> QED
      BY <3>1, <3>2
  <2> QED
    BY <2>1, <2>2
<1> QED
  BY <1>5 DEF OccurrenceLostNeedsFault, Offered

-----------------------------------------------------------------------------
(* The hourly budget. *)
LicencesOf(x) == {p \in Workers \X EventWorkflows : p[2] \in Licence(x[p[1]])}

LEMMA EventsFinite ==
  /\ IsFiniteSet(EventWorkflows) /\ Cardinality(EventWorkflows) \in Nat /\ Cardinality(Workers) \in Nat
  /\ IsFiniteSet(Workers \X EventWorkflows) /\ FurtherCandidates \in Nat
  /\ Cardinality(Workers \X EventWorkflows) = Cardinality(Workers) * Cardinality(EventWorkflows)
  /\ EventWorkflows # {} => FurtherCandidates = Cardinality(EventWorkflows) - 1
  /\ EventWorkflows = {} => FurtherCandidates = 0
<1>1. EventWorkflows \in SUBSET Workflows
  BY DEF EventWorkflows
<1>2. IsFiniteSet(EventWorkflows)
  BY <1>1, FiniteAssumption, FS_Subset
<1>3. Cardinality(EventWorkflows) \in Nat /\ Cardinality(Workers) \in Nat
  BY <1>2, FiniteAssumption, FS_CardinalityType
<1>4. EventWorkflows # {} => Cardinality(EventWorkflows) # 0
  BY <1>2, FS_EmptySet
<1>5. /\ IsFiniteSet(Workers \X EventWorkflows)
      /\ Cardinality(Workers \X EventWorkflows) = Cardinality(Workers) * Cardinality(EventWorkflows)
  BY <1>2, FiniteAssumption, FS_Product
<1> QED
  BY <1>2, <1>3, <1>4, <1>5 DEF FurtherCandidates

LEMMA TimesPred == ASSUME NEW m \in Nat, NEW n \in Nat PROVE m * n - m = m * (n - 1)
  OBVIOUS

(* One event workflow is spared by every worker. *)
LEMMA LicencesBounded ==
  ASSUME NEW x, \A k \in Workers : Spare(x[k])
  PROVE  /\ IsFiniteSet(LicencesOf(x)) /\ Cardinality(LicencesOf(x)) \in Nat
         /\ Cardinality(LicencesOf(x)) <= Cardinality(Workers) * FurtherCandidates
<1> DEFINE P == Workers \X EventWorkflows
           L == LicencesOf(x)
<1>1. L \in SUBSET P
  BY DEF LicencesOf
<1>2. IsFiniteSet(P) /\ IsFiniteSet(L) /\ Cardinality(L) \in Nat
  <2>1. IsFiniteSet(P)
    BY EventsFinite
  <2> HIDE DEF P, L
  <2>2. IsFiniteSet(L)
    BY <1>1, <2>1, FS_Subset
  <2> QED
    BY <2>1, <2>2, FS_CardinalityType
<1>3. CASE EventWorkflows = {}
  <2>1. L = {}
    BY <1>3 DEF LicencesOf
  <2>2. Cardinality(L) = 0
    BY <2>1, FS_EmptySet
  <2>3. FurtherCandidates = 0 /\ Cardinality(Workers) \in Nat
    BY <1>3, EventsFinite
  <2>4. Cardinality(Workers) * FurtherCandidates = 0
    BY <2>3
  <2> QED
    BY <1>2, <2>2, <2>4
<1>4. CASE EventWorkflows # {}
  <2> DEFINE c == [k \in Workers |-> CHOOSE w \in EventWorkflows : w \notin Licence(x[k])]
             g == [k \in Workers |-> <<k, c[k]>>]
             G == {g[k] : k \in Workers}
  <2>1. \A k \in Workers : c[k] \in EventWorkflows /\ c[k] \notin Licence(x[k])
    BY <1>4 DEF Spare
  <2> HIDE DEF c
  <2>2. \A k \in Workers : g[k] = <<k, c[k]>> /\ g[k] \in P /\ g[k] \notin L /\ g[k][1] = k
    BY <2>1 DEF LicencesOf
  <2>3. g \in [Workers -> G]
    BY DEF g
  <2> HIDE DEF g
  <2>4. G \in SUBSET P /\ L \in SUBSET (P \ G) /\ P \cap G = G
    BY <1>1, <2>2
  <2>5. g \in Injection(Workers, G)
    <3>1. \A a, b \in Workers : g[a] = g[b] => a = b
      BY <2>2
    <3> QED
      BY <2>3, <3>1 DEF Injection, IsInjective
  <2> HIDE DEF G, P, L
  <2>6. IsFiniteSet(G)
    BY <1>2, <2>4, FS_Subset
  <2>7. Cardinality(Workers) <= Cardinality(G) /\ Cardinality(G) \in Nat
    BY <2>5, <2>6, FS_Injection, FS_CardinalityType
  <2>8. IsFiniteSet(P \ G) /\ Cardinality(P \ G) = Cardinality(P) - Cardinality(G)
    BY <1>2, <2>4, FS_Difference
  <2>9. Cardinality(L) <= Cardinality(P \ G)
    BY <2>4, <2>8, FS_Subset
  <2>10. Cardinality(P) = Cardinality(Workers) * Cardinality(EventWorkflows)
    BY EventsFinite DEF P
  <2>11. PICK m \in Nat, n \in Nat : /\ m = Cardinality(Workers) /\ n = Cardinality(EventWorkflows)
                                     /\ FurtherCandidates = n - 1
    BY <1>4, EventsFinite
  <2>12. m * n - m = m * FurtherCandidates
    BY <2>11, TimesPred
  <2>13. PICK q \in Nat : q = m * n
    BY <2>11
  <2>14. Cardinality(L) <= q - m
    BY <1>2, <2>7, <2>8, <2>9, <2>10, <2>11, <2>13
  <2>15. q - m = m * FurtherCandidates
    BY <2>12, <2>13
  <2>16. Cardinality(L) <= m * FurtherCandidates
    BY <2>14, <2>15
  <2> QED
    BY <1>2, <2>11, <2>16 DEF L
<1> QED
  BY <1>2, <1>3, <1>4

LEMMA KeysFinite == IsFiniteSet(Keys)
<1>1. IsFiniteSet(Occurrences)
  BY BoundsAssumption, FS_Interval DEF Occurrences, Elapsed
<1> QED
  BY <1>1, FiniteAssumption, FS_Product DEF Keys

LEMMA SpareLess ==
  ASSUME NEW x, NEW s, Spare(x), Licence(s) \subseteq Licence(x) PROVE Spare(s)
  BY DEF Spare

(* Past the budget a run spares its own workflow. *)
LEMMA SpareInRun ==
  ASSUME NEW s \in WorkerRecords, Sound(s), s.pc \in RunPCs \ {"budget"} PROVE Spare(s)
<1>1. CASE s.job.occ = Elapsed
  BY <1>1 DEF Spare, Licence
<1>2. CASE s.job.occ # Elapsed
  <2>1. s.w \in Workflows \ s.left /\ Trigger[s.w] = "event"
    BY <1>2 DEF Sound, TypeOf
  <2>2. Licence(s) \subseteq s.left
    BY DEF Licence
  <2> QED
    BY <2>1, <2>2 DEF Spare, EventWorkflows
<1> QED
  BY <1>1, <1>2

Spared == \A k \in Workers : Spare(worker[k])
BudgetCount == Cardinality(Acted) + Cardinality(Licences) <= Budget + Cardinality(Workers) * FurtherCandidates

LEMMA NextSpared == ASSUME TypeOK, WorkersSound, Spared, Next PROVE Spared'
<1>1. CASE Quiet
  BY <1>1 DEF Quiet, Spared
<1>2. ASSUME NEW k \in Workers, NEW s,
             \/ Outside(k, s) \/ Claims(k, s) \/ Decides(k, s) \/ GoesOn(k, s)
             \/ Finishes(k, s) \/ Leaves(k, s) \/ Abandons(k, s)
      PROVE  Spared'
  <2>1. Moved(k, s)
    BY <1>2 DEF Outside, Claims, Decides, GoesOn, Finishes, Leaves, Abandons, MovedOut, MovedIn, MovedOn
  <2>2. Licence(s) \subseteq Licence(worker[k]) \/ s.pc \in RunPCs \ {"budget"}
    BY <1>2 DEF Outside, Claims, Decides, GoesOn, Finishes, Leaves, Abandons, MovedOut, MovedIn, MovedOn
  <2>3. Spare(s)
    BY <2>1, <2>2, SpareLess, SpareInRun DEF Moved, Spared
  <2> QED
    BY <2>1, <2>3, Frame DEF Spared
<1> QED
  BY <1>1, <1>2, Kinds

LEMMA ActedFinite ==
  ASSUME TypeOK PROVE /\ IsFiniteSet(recent) /\ IsFiniteSet(Acted)
                      /\ Cardinality(recent) \in Nat /\ Cardinality(Acted) \in Nat
<1>1. recent \in SUBSET Keys /\ Acted \in SUBSET Keys
  BY DEF TypeOK, Acted
<1>2. IsFiniteSet(recent) /\ IsFiniteSet(Acted)
  BY <1>1, KeysFinite, FS_Subset
<1> QED
  BY <1>2, FS_CardinalityType

LEMMA LicencesFinite ==
  ASSUME Spared PROVE IsFiniteSet(Licences) /\ Cardinality(Licences) \in Nat
<1>1. Licences = LicencesOf(worker)
  BY DEF Licences, LicencesOf
<1> QED
  BY <1>1, LicencesBounded DEF Spared

LEMMA SmallerAccount ==
  ASSUME NEW A, NEW B, NEW L, NEW M, IsFiniteSet(A), IsFiniteSet(L), B \subseteq A, M \subseteq L
  PROVE  /\ Cardinality(B) + Cardinality(M) <= Cardinality(A) + Cardinality(L)
         /\ Cardinality(B) \in Nat /\ Cardinality(M) \in Nat
<1>1. IsFiniteSet(B) /\ IsFiniteSet(M) /\ Cardinality(B) <= Cardinality(A) /\ Cardinality(M) <= Cardinality(L)
  BY FS_Subset
<1>2. /\ Cardinality(A) \in Nat /\ Cardinality(B) \in Nat
      /\ Cardinality(L) \in Nat /\ Cardinality(M) \in Nat
  BY <1>1, FS_CardinalityType
<1> QED
  BY <1>1, <1>2

(* A licence is spent. *)
LEMMA SpentAccount ==
  ASSUME NEW A, NEW B, NEW L, NEW M, NEW c, NEW p, IsFiniteSet(A), IsFiniteSet(L),
         B \subseteq A \cup {c}, p \in L, M \subseteq L \ {p}
  PROVE  Cardinality(B) + Cardinality(M) <= Cardinality(A) + Cardinality(L)
<1> DEFINE C == A \cup {c}
           N == L \ {p}
<1>1. IsFiniteSet(C) /\ Cardinality(C) <= Cardinality(A) + 1
  <2>1. IsFiniteSet(C) /\ Cardinality(C) = IF c \in A THEN Cardinality(A) ELSE Cardinality(A) + 1
    BY FS_AddElement
  <2>2. Cardinality(A) \in Nat
    BY FS_CardinalityType
  <2> HIDE DEF C
  <2> QED
    BY <2>1, <2>2
<1>2. IsFiniteSet(N) /\ Cardinality(N) = Cardinality(L) - 1
  BY FS_RemoveElement
<1>3. Cardinality(A) \in Nat /\ Cardinality(L) \in Nat
  BY FS_CardinalityType
<1>4. B \subseteq C /\ M \subseteq N
  OBVIOUS
<1> HIDE DEF C, N
<1>5. /\ Cardinality(B) + Cardinality(M) <= Cardinality(C) + Cardinality(N)
      /\ Cardinality(B) \in Nat /\ Cardinality(M) \in Nat
  BY <1>1, <1>2, <1>4, SmallerAccount
<1>6. Cardinality(C) \in Nat /\ Cardinality(N) \in Nat
  BY <1>1, <1>2, FS_CardinalityType
<1> QED
  BY <1>1, <1>2, <1>3, <1>5, <1>6

LEMMA CountKept ==
  ASSUME BudgetCount, TypeOK, Spared,
         NEW n, NEW m, n \in Nat, m \in Nat, n + m <= Cardinality(Acted) + Cardinality(Licences)
  PROVE  n + m <= Budget + Cardinality(Workers) * FurtherCandidates
<1>1. Cardinality(Acted) \in Nat /\ Cardinality(Licences) \in Nat
  BY ActedFinite, LicencesFinite
<1>2. PICK q \in Nat : q = Cardinality(Workers) * FurtherCandidates
  BY EventsFinite
<1> QED
  BY <1>1, <1>2, BoundsAssumption DEF BudgetCount

LEMMA ShrinkingStep ==
  ASSUME TypeOK, Spared, BudgetCount, Acted' \subseteq Acted, Licences' \subseteq Licences
  PROVE  BudgetCount'
<1>1. PICK B, M : B = Acted' /\ M = Licences'
  OBVIOUS
<1>2. IsFiniteSet(Acted) /\ IsFiniteSet(Licences)
  BY ActedFinite, LicencesFinite
<1>3. /\ Cardinality(B) + Cardinality(M) <= Cardinality(Acted) + Cardinality(Licences)
      /\ Cardinality(B) \in Nat /\ Cardinality(M) \in Nat
  BY <1>1, <1>2, SmallerAccount
<1>4. Cardinality(B) + Cardinality(M) <= Budget + Cardinality(Workers) * FurtherCandidates
  BY <1>3, CountKept
<1> QED
  BY <1>1, <1>4 DEF BudgetCount

LEMMA LicencesLess ==
  ASSUME TypeOK, NEW k \in Workers, NEW s, Moved(k, s), Licence(s) \subseteq Licence(worker[k])
  PROVE  Licences' \subseteq Licences
<1>1. \A j \in Workers : Licence(worker'[j]) \subseteq Licence(worker[j])
  BY Frame
<1>2. Licences' = {p \in Workers \X EventWorkflows : p[2] \in Licence(worker'[p[1]])}
  BY DEF Licences
<1> QED
  BY <1>1, <1>2 DEF Licences

LEMMA NextBudget ==
  ASSUME TypeOK, WorkersSound, RunsSound, Spared, BudgetCount, Next PROVE BudgetCount'
<1>0. Acted' = {key \in recent' : key[2] # Elapsed /\ performed'[key] > 0}
  BY DEF Acted
<1>1. CASE Quiet
  <2>1. Acted' \subseteq Acted /\ Licences' \subseteq Licences
    BY <1>0, <1>1 DEF Quiet, Acted, Licences
  <2> QED
    BY <2>1, ShrinkingStep
<1>2. ASSUME NEW k \in Workers, NEW s, Outside(k, s) \/ GoesOn(k, s) \/ Finishes(k, s) \/ Leaves(k, s) \/ Abandons(k, s)
      PROVE  BudgetCount'
  <2>1. Moved(k, s) /\ Licence(s) \subseteq Licence(worker[k]) /\ UNCHANGED <<performed, recent>>
    BY <1>2 DEF Outside, GoesOn, Finishes, Leaves, Abandons, MovedOut, MovedOn
  <2>2. Acted' \subseteq Acted
    BY <1>0, <2>1 DEF Acted
  <2> QED
    BY <2>1, <2>2, LicencesLess, ShrinkingStep
<1>3. ASSUME NEW k \in Workers, NEW s, Claims(k, s) PROVE BudgetCount'
  <2>1. /\ Moved(k, s) /\ Licence(s) \subseteq Licence(worker[k]) /\ UNCHANGED performed
        /\ recent' = recent \cup {Key(s)} /\ runs[Key(s)].st = "none"
    BY <1>3 DEF Claims, MovedIn
  <2>2. Key(s) \in Keys
    BY <1>3, ClaimsRun
  <2>3. performed[Key(s)] = 0
    BY <2>1, <2>2 DEF RunsSound
  <2>4. Acted' \subseteq Acted
    BY <1>0, <2>1, <2>3 DEF Acted
  <2> QED
    BY <2>1, <2>4, LicencesLess, ShrinkingStep
<1>4. ASSUME NEW k \in Workers, NEW s, Decides(k, s) PROVE BudgetCount'
  <2>1. /\ Moved(k, s) /\ s \in WorkerRecords /\ Sound(s) /\ s.pc # "budget" /\ worker[k].pc = "budget"
        /\ s.left = worker[k].left /\ s.job = worker[k].job /\ UNCHANGED recent /\ InRun(k)
    BY <1>4 DEF Decides, MovedOn, Moved
  <2>2. Licence(s) \subseteq worker[k].left
    BY <2>1 DEF Licence
  <2>3. CASE Licence(s) = {} /\ UNCHANGED performed
    <3>1. Acted' \subseteq Acted
      BY <1>0, <2>1, <2>3 DEF Acted
    <3> QED
      BY <2>1, <2>3, <3>1, LicencesLess, ShrinkingStep
  <2>4. CASE s.over = "yes" /\ UNCHANGED performed
    BY <2>3, <2>4 DEF Licence
  <2>5. CASE ~IsOverRunBudget
    <3>1. PICK B, M : B = Acted' /\ M = Licences'
      OBVIOUS
    <3>2. B \in SUBSET recent
      BY <1>0, <2>1, <3>1
    <3>3. Cardinality(recent) \in Nat /\ Cardinality(recent) <= Budget /\ IsFiniteSet(recent)
      BY <2>5, ActedFinite, BoundsAssumption DEF IsOverRunBudget
    <3>4. Cardinality(B) \in Nat /\ Cardinality(B) <= Cardinality(recent)
      BY <3>2, <3>3, FS_Subset, FS_CardinalityType
    <3>5. M = LicencesOf(worker')
      BY <3>1 DEF Licences, LicencesOf
    <3>6. \A j \in Workers : Spare(worker'[j])
      BY NextSpared DEF Spared
    <3>7. PICK x : x = worker'
      OBVIOUS
    <3>8. /\ Cardinality(LicencesOf(x)) \in Nat
          /\ Cardinality(LicencesOf(x)) <= Cardinality(Workers) * FurtherCandidates
      BY <3>6, <3>7, LicencesBounded
    <3>9. PICK q \in Nat : q = Cardinality(Workers) * FurtherCandidates
      BY EventsFinite
    <3>10. Cardinality(M) \in Nat /\ Cardinality(M) <= q
      BY <3>5, <3>7, <3>8, <3>9
    <3>11. Cardinality(B) + Cardinality(M) <= Budget + q
      BY <3>3, <3>4, <3>10, BoundsAssumption
    <3> QED
      BY <3>1, <3>9, <3>11 DEF BudgetCount
  <2>6. CASE worker[k].over = "no"
    <3>1. CASE UNCHANGED performed
      <4>1. Acted' \subseteq Acted
        BY <1>0, <2>1, <3>1 DEF Acted
      <4>2. Licence(s) \subseteq Licence(worker[k])
        BY <2>1, <2>6 DEF Licence
      <4> QED
        BY <2>1, <4>1, <4>2, LicencesLess, ShrinkingStep
    <3>2. CASE Starts(k, s)
      <4>1. /\ Current(k) \in Keys /\ performed[Current(k)] = 0
            /\ \A key \in Keys : key # Current(k) => performed'[key] = performed[key]
        BY <3>2, StartsRun
      <4>2. recent' \subseteq Keys /\ recent' = recent
        BY <2>1 DEF TypeOK
      <4>3. Acted' \subseteq Acted \cup {Current(k)}
        BY <1>0, <4>1, <4>2 DEF Acted
      <4>4. /\ Current(k)[2] = worker[k].job.occ /\ worker[k].w \in Workflows \ worker[k].left
            /\ Trigger[worker[k].w] = TypeOf(worker[k].job.occ)
        BY <2>1, CurrentTyped, WorkerTyped DEF Sound
      <4>5. CASE worker[k].job.occ = Elapsed
        <5>1. Acted' \subseteq Acted
          BY <1>0, <4>3, <4>4, <4>5 DEF Acted
        <5>2. Licence(s) \subseteq Licence(worker[k])
          BY <2>1, <4>5 DEF Licence
        <5> QED
          BY <2>1, <5>1, <5>2, LicencesLess, ShrinkingStep
      <4>6. CASE worker[k].job.occ # Elapsed
        <5> DEFINE w == worker[k].w
                   p == <<k, w>>
        <5>1. w \in EventWorkflows /\ w \in Licence(worker[k]) /\ w \notin Licence(s)
          BY <2>1, <2>2, <2>6, <4>4, <4>6 DEF EventWorkflows, TypeOf, Licence
        <5>2. Licence(s) \subseteq Licence(worker[k])
          BY <2>1, <2>6 DEF Licence
        <5>3. p \in Licences
          BY <5>1 DEF Licences
        <5>4. Licences' \subseteq Licences
          BY <2>1, <5>2, LicencesLess
        <5>5. p \notin Licences'
          <6>1. worker'[k] = s
            BY <2>1, Frame
          <6>2. Licences' = {z \in Workers \X EventWorkflows : z[2] \in Licence(worker'[z[1]])}
            BY DEF Licences
          <6> QED
            BY <5>1, <6>1, <6>2
        <5> HIDE DEF p
        <5>6. PICK B, M, c : B = Acted' /\ M = Licences' /\ c = Current(k)
          OBVIOUS
        <5>7. IsFiniteSet(Acted) /\ IsFiniteSet(Licences)
          BY ActedFinite, LicencesFinite
        <5>8. B \subseteq Acted \cup {c} /\ M \subseteq Licences \ {p} /\ M \subseteq Licences
          BY <4>3, <5>4, <5>5, <5>6
        <5>9. Cardinality(B) + Cardinality(M) <= Cardinality(Acted) + Cardinality(Licences)
          BY <5>3, <5>7, <5>8, SpentAccount
        <5>10. Cardinality(B) \in Nat /\ Cardinality(M) \in Nat
          <6>1. IsFiniteSet(Acted \cup {c})
            BY <5>7, FS_AddElement
          <6>2. IsFiniteSet(B) /\ IsFiniteSet(M)
            BY <5>7, <5>8, <6>1, FS_Subset
          <6> QED
            BY <6>2, FS_CardinalityType
        <5>11. Cardinality(B) + Cardinality(M) <= Budget + Cardinality(Workers) * FurtherCandidates
          BY <5>9, <5>10, CountKept
        <5> QED
          BY <5>6, <5>11 DEF BudgetCount
      <4> QED
        BY <4>5, <4>6
    <3> QED
      BY <1>4, <3>1, <3>2 DEF Decides, Starts
  <2> QED
    BY <1>4, <2>4, <2>5, <2>6 DEF Decides
<1> QED
  BY <1>1, <1>2, <1>3, <1>4, Kinds

-----------------------------------------------------------------------------
(* The invariant. *)
LEMMA NextTypeOK == ASSUME TypeOK, WorkersSound, RunsSound, GapsAreClosed, Next PROVE TypeOK'
<1>1. WorkersTyped' /\ RunsTyped' /\ AccountsTyped' /\ ArmsTyped' /\ QueueTyped'
  BY NextWorkersSound, NextRunsTyped, NextAccountsTyped, NextArms, NextQueueTyped
<1> QED
  BY <1>1 DEF TypeOK, WorkersTyped, RunsTyped, RunRecords, AccountsTyped, ArmsTyped, QueueTyped

LEMMA InitTypes == ASSUME Init PROVE TypeOK /\ WorkersSound
<1>1. 1 \in Occurrences /\ 1 \in 1..MaxEvents /\ 0 \in 0..(MaxChainDepth + 1)
  BY BoundsAssumption DEF Occurrences, Elapsed
<1>2. jobs \subseteq JobRecords
  BY <1>1, NewJob DEF Init
<1>3. NoRun \in [st : {"none", "running", "closed"}, reason : Reasons, depth : 0..(MaxChainDepth + 1)]
  BY <1>1 DEF NoRun
<1>4. NoRun.st = "none" /\ NoRun.reason = "none"
  BY DEF NoRun
<1>5. /\ runs \in [Keys -> [st : {"none", "running", "closed"}, reason : Reasons, depth : 0..(MaxChainDepth + 1)]]
      /\ \A key \in Keys : runs[key].reason = "none"
  BY <1>3, <1>4 DEF Init
<1>6. worker \in [Workers -> WorkerRecords] /\ \A k \in Workers : worker[k] = Idle /\ ~InRun(k)
  BY IdleType DEF Init, InRun
<1>7. open \in BOOLEAN
  BY DEF Init
<1>8. /\ armed \subseteq Workflows /\ recent \subseteq Keys /\ events \in 1..MaxEvents
      /\ performed \in [Keys -> Nat] /\ notices \in [Workflows -> Nat] /\ arms \in [Workflows -> Nat]
      /\ settled \subseteq Occurrences /\ abandoned \subseteq Keys
      /\ acts \in 0..MaxActs /\ faults \in 0..MaxFaults
  BY <1>1, BoundsAssumption DEF Init
<1>9. TypeOK
  BY <1>2, <1>5, <1>6, <1>7, <1>8 DEF TypeOK
<1> QED
  BY <1>6, <1>9, IdleSound DEF WorkersSound

LEMMA InitBudget == ASSUME Init, TypeOK PROVE BudgetKept
<1>1. \A k \in Workers : worker[k] = Idle /\ Licence(worker[k]) = {}
  BY IdleSound DEF Init
<1>2. Acted = {} /\ Licences = {}
  BY <1>1 DEF Init, Acted, Licences
<1>3. Spared
  BY <1>1 DEF Spared, Spare
<1>4. PICK q \in Nat : q = Cardinality(Workers) * FurtherCandidates
  BY EventsFinite
<1>5. Cardinality(Acted) = 0 /\ Cardinality(Licences) = 0
  BY <1>2, FS_EmptySet
<1>6. BudgetCount
  BY <1>4, <1>5, BoundsAssumption DEF BudgetCount
<1> QED
  BY <1>3, <1>6 DEF BudgetKept, Spared, BudgetCount

LEMMA InitIInv == Init => IInv
<1> SUFFICES ASSUME Init PROVE IInv
  OBVIOUS
<1>1. TypeOK /\ WorkersSound /\ BudgetKept
  BY InitTypes, InitBudget
<1>2. \A k \in Workers : worker[k].pc = "idle"
  BY IdleType DEF Init
<1>3. \A key \in Keys : runs[key].st = "none" /\ runs[key].reason = "none" /\ runs[key].depth = 0
  BY DEF Init, NoRun
<1>4. OneOwner /\ RunsSound /\ ActionsOnce /\ OpenRunNeedsCrash
  BY <1>2, <1>3, BoundsAssumption DEF Init, OneOwner, RunsSound, ActionsOnce, OpenRunNeedsCrash, InRun, At
<1>5. GapsAreClosed
  BY <1>3 DEF Init, GapsAreClosed
<1>6. OccurrenceLostNeedsFault
  <2>1. [occ |-> 1, depth |-> 0, tries |-> 0] \in jobs /\ events = 1
    BY DEF Init
  <2>2. \E j \in jobs : j.occ = 1
    BY <2>1
  <2> QED
    BY <2>1, <2>2 DEF OccurrenceLostNeedsFault
<1> QED
  BY <1>1, <1>4, <1>5, <1>6 DEF IInv

LEMMA NextIInv == IInv /\ [Next]_vars => IInv'
<1> SUFFICES ASSUME IInv, [Next]_vars PROVE IInv'
  OBVIOUS
<1>1. CASE Next
  <2>0. Spared /\ BudgetCount
    BY DEF IInv, BudgetKept, Spared, BudgetCount
  <2>1. TypeOK'
    BY <1>1, NextTypeOK DEF IInv
  <2>2. WorkersSound'
    BY <1>1, NextWorkersSound DEF IInv
  <2>3. OneOwner'
    BY <1>1, NextOneOwner DEF IInv
  <2>4. RunsSound'
    BY <1>1, NextRunsSound DEF IInv
  <2>5. ActionsOnce'
    BY <1>1, NextActionsOnce DEF IInv
  <2>6. OpenRunNeedsCrash'
    BY <1>1, NextOpenRuns DEF IInv
  <2>7. GapsAreClosed'
    BY <1>1, NextGaps DEF IInv
  <2>8. OccurrenceLostNeedsFault'
    BY <1>1, NextOccurrences DEF IInv
  <2>9. Spared' /\ BudgetCount'
    BY <1>1, <2>0, NextSpared, NextBudget DEF IInv
  <2>10. BudgetKept'
    BY <2>9 DEF BudgetKept, Spared, BudgetCount
  <2> QED
    BY <2>1, <2>2, <2>3, <2>4, <2>5, <2>6, <2>7, <2>8, <2>10 DEF IInv
<1>2. CASE UNCHANGED vars
  BY <1>2 DEF vars, IInv, TypeOK, WorkersSound, OneOwner, RunsSound, ActionsOnce, OpenRunNeedsCrash,
              GapsAreClosed, OccurrenceLostNeedsFault, BudgetKept, Acted, Licences, InRun, Current, At
<1> QED
  BY <1>1, <1>2

(* The invariant holds in every reachable state. *)
THEOREM IInvInvariant == Spec => []IInv
<1>1. Init => IInv
  BY InitIInv
<1>2. IInv /\ [Next]_vars => IInv'
  BY NextIInv
<1> QED
  BY <1>1, <1>2, PTL DEF Spec

(* Every variable has its type; a worker in a run holds the key of a run it  *)
(* claimed, and only a closed run has a reason (evaluate, runOne, finish).   *)
THEOREM WorkflowTypes == Spec => []TypeOK
<1>1. IInv => TypeOK
  BY DEF IInv
<1> QED
  BY <1>1, IInvInvariant, PTL

(* The insert of a run with ON CONFLICT DO NOTHING keeps its actions from    *)
(* being started twice, however often the job is delivered.                  *)
THEOREM RunsActOnce == Spec => []ActionsOnce
<1>1. IInv => ActionsOnce
  BY DEF IInv
<1> QED
  BY <1>1, IInvInvariant, PTL

(* Workflows that trigger each other are stopped by the depth of the chain   *)
(* and by the hourly budget, which the runs that act exceed by no more than  *)
(* the further candidates of the jobs under way (evaluate, budgetExceeded).  *)
THEOREM RunawaysAreBounded == Spec => []RunawayBounded
<1>1. IInv => RunawayBounded
  <2> SUFFICES ASSUME IInv PROVE RunawayBounded
    OBVIOUS
  <2>1. \A key \in Keys : runs[key].st # "none" => runs[key].depth <= MaxChainDepth
    BY DEF IInv, RunsSound
  <2>2. ASSUME NEW w \in Workflows PROVE runs[<<w, Elapsed>>].reason # "run_budget_exceeded"
    <3>1. <<w, Elapsed>> \in Keys /\ <<w, Elapsed>>[2] = Elapsed
      BY OccurrenceType DEF Keys
    <3> QED
      BY <3>1 DEF IInv, RunsSound
  <2>3. TypeOK /\ Spared /\ BudgetCount
    BY DEF IInv, BudgetKept, Spared, BudgetCount
  <2>4. Cardinality(Acted) \in Nat /\ Cardinality(Licences) \in Nat
    BY <2>3, ActedFinite, LicencesFinite
  <2>5. PICK q \in Nat : q = Cardinality(Workers) * FurtherCandidates
    BY EventsFinite
  <2>6. Cardinality(Acted) <= Budget + q
    BY <2>3, <2>4, <2>5, BoundsAssumption DEF BudgetCount
  <2> QED
    BY <2>1, <2>2, <2>5, <2>6 DEF RunawayBounded, Acted
<1> QED
  BY <1>1, IInvInvariant, PTL

(* A run that stays open was left by a worker that went away in the middle   *)
(* of it; no other path of runOne and finish leaves one (finish).            *)
THEOREM OpenRunsNeedCrashes == Spec => []OpenRunNeedsCrash
<1>1. IInv => OpenRunNeedsCrash
  BY DEF IInv
<1> QED
  BY <1>1, IInvInvariant, PTL

(* A workflow whose run met a missing reference has been disarmed since, and *)
(* the admins are told at most once per arming (deactivate).                 *)
THEOREM GapsDisarm == Spec => []MissingReferenceDisarms
<1>1. IInv => MissingReferenceDisarms
  <2> SUFFICES ASSUME IInv PROVE MissingReferenceDisarms
    OBVIOUS
  <2>1. ASSUME NEW key \in Keys, runs[key].reason = "reference_missing",
               ~\E k \in Workers : InRun(k) /\ Current(k) = key, key \notin abandoned
        PROVE  key[1] \notin armed \/ arms[key[1]] > 1
    <3>1. ~\E k \in Workers : worker[k].pc \in {"disarm", "reclose"} /\ Current(k) = key
      BY <2>1 DEF InRun
    <3> QED
      BY <2>1, <3>1 DEF IInv, GapsAreClosed
  <2>2. \A w \in Workflows : notices[w] <= arms[w]
    BY DEF IInv, GapsAreClosed
  <2> QED
    BY <2>1, <2>2 DEF MissingReferenceDisarms
<1> QED
  BY <1>1, IInvInvariant, PTL

(* Every recorded occurrence is queued, taken up, held by the run that       *)
(* raised it, or lost to a fault (raiseChainedTrigger).                      *)
THEOREM OccurrencesNeedFaults == Spec => []OccurrenceLostNeedsFault
<1>1. IInv => OccurrenceLostNeedsFault
  BY DEF IInv
<1> QED
  BY <1>1, IInvInvariant, PTL
================================================================================
