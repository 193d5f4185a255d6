------------------------- MODULE OutboundDeliveryProofs -------------------------
(***************************************************************************)
(* Proofs for OutboundDelivery: for any number of messages, worker slots,  *)
(* attempts and faults, IInv is inductive, and with it no receipt is lost, *)
(* statuses only move forward, a message is sent again only for a fault,   *)
(* and a queued message without a fault is still carried by somebody.      *)
(***************************************************************************)
EXTENDS OutboundDelivery, FiniteSetTheorems, TLAPS

-----------------------------------------------------------------------------
(* The inductive invariant, part by part.                                    *)

(* A row has a provider id only once Meta's answer was recorded.             *)
QueuedHasNoPid == \A o \in Msgs : msg[o].st \in {"none", "queued"} => msg[o].pid = NoPid

(* Nothing is under way for a message that was not committed, and a request  *)
(* hands a message over once.                                                *)
NothingBeforeCommit ==
  \A o \in Msgs :
    /\ msg[o].st = "none" => /\ o \notin sending /\ job[o].st = "none" /\ accepted[o] = 0
                             /\ \A d \in Dispatchers : disp[d].o # o
    /\ o \in sending => job[o].st = "none"

(* A job has attempts left while it exists, only an active one is locked,    *)
(* and the worker that holds the lock works on that message.                 *)
JobsAreSound ==
  \A o \in Msgs : /\ job[o].tries < MaxAttempts
                  /\ job[o].st # "active" => job[o].owner = NoDispatcher
                  /\ job[o].owner # NoDispatcher => disp[job[o].owner].o = o

(* A worker has a message unless it is idle, Meta's id when it records one,  *)
(* and returns only when its message is decided.                             *)
WorkersAreSound ==
  \A d \in Dispatchers : /\ disp[d].pc = "idle" <=> disp[d].o = NoMsg
                         /\ disp[d].pc = "record_sent" => disp[d].pid \in Pids
                         /\ disp[d].pc = "return" => msg[disp[d].o].st \notin {"none", "queued"}

(* Until a fault hits a message, its active job is locked, the worker on it  *)
(* holds that lock and counts attempts as the queue does, and throws only    *)
(* when an attempt is left.                                                  *)
FaultFreeIsExclusive ==
  \A o \in Msgs : hits[o] = 0 =>
    /\ job[o].st = "active" => job[o].owner # NoDispatcher
    /\ \A d \in Dispatchers : disp[d].o = o =>
         /\ job[o].owner = d
         /\ disp[d].attempt = job[o].tries + 1
         /\ disp[d].pc = "throw" => disp[d].attempt < MaxAttempts

(* The workers that may still lead to a call of Meta for message o: before   *)
(* the call, or about to give the job they hold back to the queue.           *)
Senders(o) ==
  {d \in Dispatchers : /\ disp[d].o = o
                       /\ \/ disp[d].pc \in {"load", "check", "call"}
                          \/ disp[d].pc = "throw" /\ job[o].owner = d}
(* A request or a job that waits for a worker may lead to one more.          *)
Waits(o) == IF \/ o \in sending \/ job[o].st = "waiting"
               \/ job[o].st = "active" /\ job[o].owner = NoDispatcher
            THEN 1 ELSE 0

(* Calls Meta accepted and calls still to come are paid for: one by the      *)
(* commit, every other by a fault.                                           *)
SendsArePaid ==
  \A o \in Msgs : /\ IsFiniteSet(Senders(o))
                  /\ accepted[o] + Cardinality(Senders(o)) + Waits(o) <= 1 + hits[o]

IInv == /\ TypeOK
        /\ QueuedHasNoPid
        /\ NothingBeforeCommit
        /\ JobsAreSound
        /\ WorkersAreSound
        /\ FaultFreeIsExclusive
        /\ SendsArePaid
        /\ ReceiptsStick
        /\ StuckNeedsFault

-----------------------------------------------------------------------------
(* What a step does to the fault counter, the workers and the budget.        *)

(* A step of message o leaves the other messages' faults and adds at most one. *)
HitsMove(o) == /\ hits' \in [Msgs -> 0..MaxHits]
               /\ hits'[o] \in {hits[o], hits[o] + 1}
               /\ \A q \in Msgs \ {o} : hits'[q] = hits[q]

(* Worker d goes on to p with the message and the attempt it has. *)
WorkerMoves(d, p) == /\ disp' \in [Dispatchers -> DispStates]
                     /\ disp'[d].pc = p /\ disp'[d].o = disp[d].o
                     /\ disp'[d].attempt = disp[d].attempt
                     /\ \A k \in Dispatchers \ {d} : disp'[k] = disp[k]

(* A step that meets no fault counts none. *)
LEMMA HealthyHits ==
  ASSUME TypeOK, NEW o \in Msgs, UNCHANGED hits
  PROVE  HitsMove(o)
BY DEF TypeOK, HitsMove

(* A fault is counted on its message, once. *)
LEMMA FaultHits ==
  ASSUME TypeOK, NEW o \in Msgs, Fault(o)
  PROVE  HitsMove(o) /\ hits'[o] = hits[o] + 1
<1>1. hits \in [Msgs -> 0..MaxHits] /\ MaxHits \in Nat BY BoundsAssumption DEF TypeOK
<1>2. hits[o] + 1 \in 0..MaxHits BY <1>1 DEF Fault
<1> QED BY <1>1, <1>2 DEF Fault, HitsMove

(* A worker that has work has it for a message. *)
LEMMA WorkerHasMessage ==
  ASSUME TypeOK, WorkersAreSound, NEW d \in Dispatchers, ~At(d, "idle")
  PROVE  disp[d].o \in Msgs
<1>1. disp[d].o \in Msgs \union {NoMsg} BY DEF TypeOK, DispStates
<1> QED BY <1>1 DEF WorkersAreSound, At

(* Goto changes nothing of a worker but its place. *)
LEMMA GotoMoves ==
  ASSUME TypeOK, NEW d \in Dispatchers, NEW p \in PCs, Goto(d, p)
  PROVE  WorkerMoves(d, p) /\ disp'[d].pid = disp[d].pid
<1>1. disp \in [Dispatchers -> DispStates] /\ disp[d] \in DispStates BY DEF TypeOK
<1>2. \A x \in DispStates : LET y == [x EXCEPT !.pc = p]
                             IN  /\ y \in DispStates /\ y.pc = p /\ y.o = x.o
                                 /\ y.attempt = x.attempt /\ y.pid = x.pid
  BY DEF DispStates
<1>3. disp' = [disp EXCEPT ![d] = [disp[d] EXCEPT !.pc = p]] BY DEF Goto, SetDisp
<1> QED BY <1>1, <1>2, <1>3 DEF WorkerMoves

(* A set that gains or loses at most d changes its size accordingly. *)
LEMMA OneElementMoves ==
  ASSUME NEW S, NEW T, NEW d, IsFiniteSet(S), S \ {d} = T \ {d}
  PROVE  /\ IsFiniteSet(T)
         /\ Cardinality(S) \in Nat /\ Cardinality(T) \in Nat
         /\ Cardinality(T) + (IF d \in S THEN 1 ELSE 0) = Cardinality(S) + (IF d \in T THEN 1 ELSE 0)
<1>1. IsFiniteSet(S \ {d}) /\ Cardinality(S \ {d}) = IF d \in S THEN Cardinality(S) - 1 ELSE Cardinality(S)
  BY FS_RemoveElement
<1>2. Cardinality(S) \in Nat BY FS_CardinalityType
<1>3. CASE d \in T
  <2>1. T = (S \ {d}) \cup {d} BY <1>3
  <2>2. d \notin S \ {d} OBVIOUS
  <2>3. IsFiniteSet(T) /\ Cardinality(T) = Cardinality(S \ {d}) + 1
    BY <2>1, <2>2, <1>1, FS_AddElement
  <2> QED BY <2>3, <1>1, <1>2, <1>3, FS_CardinalityType
<1>4. CASE d \notin T
  <2>1. T = S \ {d} BY <1>4
  <2> QED BY <2>1, <1>1, <1>2, <1>4, FS_CardinalityType
<1> QED BY <1>3, <1>4

(* A step of worker d on message o keeps the budget if what it adds, in      *)
(* accepted calls and calls to come, is paid for by a fault.                 *)
LEMMA BudgetStep ==
  ASSUME TypeOK, SendsArePaid, NEW d, NEW o \in Msgs, HitsMove(o),
         accepted' \in [Msgs -> Nat],
         \A q \in Msgs \ {o} : /\ Senders(q)' = Senders(q) /\ Waits(q)' = Waits(q)
                               /\ accepted'[q] = accepted[q],
         Senders(o) \ {d} = Senders(o)' \ {d},
         accepted'[o] + (IF d \in Senders(o)' THEN 1 ELSE 0) + Waits(o)' + hits[o]
           <= accepted[o] + (IF d \in Senders(o) THEN 1 ELSE 0) + Waits(o) + hits'[o]
  PROVE  SendsArePaid'
<1>1. /\ \A q \in Msgs : accepted[q] \in Nat /\ hits[q] \in Nat /\ Waits(q) \in Nat
      /\ hits'[o] \in Nat /\ accepted'[o] \in Nat /\ Waits(o)' \in Nat
  BY BoundsAssumption DEF TypeOK, HitsMove, Waits
<1>2. /\ IsFiniteSet(Senders(o)')
      /\ accepted'[o] + Cardinality(Senders(o)') + Waits(o)' <= 1 + hits'[o]
  <2> DEFINE S == Senders(o)  T == Senders(o)'
             a == IF d \in S THEN 1 ELSE 0
             b == IF d \in T THEN 1 ELSE 0
  <2>1. IsFiniteSet(S) /\ accepted[o] + Cardinality(S) + Waits(o) <= 1 + hits[o]
    BY DEF SendsArePaid
  <2>2. /\ IsFiniteSet(T) /\ Cardinality(S) \in Nat /\ Cardinality(T) \in Nat
        /\ Cardinality(T) + a = Cardinality(S) + b
    <3>1. S \ {d} = T \ {d} OBVIOUS
    <3> HIDE DEF S, T
    <3> QED BY <2>1, <3>1, OneElementMoves
  <2>3. a \in Nat /\ b \in Nat OBVIOUS
  <2>4. accepted'[o] + b + Waits(o)' + hits[o] <= accepted[o] + a + Waits(o) + hits'[o] OBVIOUS
  <2> HIDE DEF S, T, a, b
  <2>5. accepted'[o] + Cardinality(T) + Waits(o)' <= 1 + hits'[o]
    BY <1>1, <2>1, <2>2, <2>3, <2>4
  <2> QED BY <2>2, <2>5 DEF T
<1>3. ASSUME NEW q \in Msgs \ {o}
      PROVE  /\ IsFiniteSet(Senders(q)')
             /\ accepted'[q] + Cardinality(Senders(q)') + Waits(q)' <= 1 + hits'[q]
  BY DEF SendsArePaid, HitsMove
<1>4. \A q \in Msgs : /\ IsFiniteSet(Senders(q)')
                      /\ accepted'[q] + Cardinality(Senders(q)') + Waits(q)' <= 1 + hits'[q]
  BY <1>2, <1>3
<1> QED BY <1>4 DEF SendsArePaid

-----------------------------------------------------------------------------
(* Steps of a worker that has the message and leaves the queue alone.        *)

(* The rows change only by deciding the worker's queued message. *)
Decides(d) == \A o \in Msgs : \/ msg'[o] = msg[o]
                              \/ /\ o = disp[d].o /\ msg[o].st = "queued"
                                 /\ msg'[o].st \in {"sent", "failed"}

(* What the queue and the workers know of each other survives such a step. *)
LEMMA WorkerStepKeeps ==
  ASSUME IInv, NEW d \in Dispatchers, ~At(d, "idle"), NEW p \in PCs \ {"idle"}, WorkerMoves(d, p),
         p = "record_sent" => disp'[d].pid \in Pids,
         UNCHANGED queueVars, Decides(d), HitsMove(disp[d].o),
         p = "return" => msg'[disp[d].o].st \notin {"none", "queued"},
         p = "throw" => disp[d].attempt < MaxAttempts \/ hits'[disp[d].o] = hits[disp[d].o] + 1,
         \A q \in Msgs \ {disp[d].o} : accepted'[q] = accepted[q]
  PROVE  /\ NothingBeforeCommit' /\ JobsAreSound' /\ WorkersAreSound'
         /\ FaultFreeIsExclusive' /\ StuckNeedsFault'
<1> DEFINE o == disp[d].o
<1>i. /\ TypeOK /\ NothingBeforeCommit /\ JobsAreSound /\ WorkersAreSound
      /\ FaultFreeIsExclusive /\ StuckNeedsFault
  BY DEF IInv
<1>o. o \in Msgs BY <1>i, WorkerHasMessage
<1>n. msg[o].st # "none" BY <1>i, <1>o DEF NothingBeforeCommit
<1>d. /\ disp'[d].pc = p /\ disp'[d].o = o /\ disp'[d].attempt = disp[d].attempt
      /\ \A k \in Dispatchers \ {d} : disp'[k] = disp[k]
  BY DEF WorkerMoves
<1>s. \A k \in Dispatchers : disp'[k].o = disp[k].o /\ disp'[k].attempt = disp[k].attempt
  BY <1>d
<1>u. job' = job /\ sending' = sending BY DEF queueVars
<1>m. \A q \in Msgs : /\ msg'[q].st = "none" => msg[q].st = "none" /\ q # o
                      /\ msg'[q].st = "queued" => msg[q].st = "queued"
                      /\ msg[q].st \notin {"none", "queued"} => msg'[q].st \notin {"none", "queued"}
  BY <1>n DEF Decides
<1>h. \A q \in Msgs : hits'[q] = 0 => hits[q] = 0 /\ (q = o => hits'[o] # hits[o] + 1)
  <2>1. \A q \in Msgs : hits[q] \in Nat BY <1>i, BoundsAssumption DEF TypeOK
  <2> QED BY <2>1, <1>o DEF HitsMove
<1> HIDE DEF o
<1>1. NothingBeforeCommit'
  BY <1>i, <1>s, <1>u, <1>m DEF NothingBeforeCommit, o
<1>2. JobsAreSound'
  <2>1. \A q \in Msgs : job[q].owner \in Dispatchers \union {NoDispatcher}
    BY <1>i DEF TypeOK, Jobs
  <2> QED BY <2>1, <1>i, <1>s, <1>u DEF JobsAreSound
<1>3. WorkersAreSound'
  <2>1. /\ disp'[d].pc = "idle" <=> disp'[d].o = NoMsg
        /\ disp'[d].pc = "record_sent" => disp'[d].pid \in Pids
        /\ disp'[d].pc = "return" => msg'[disp'[d].o].st \notin {"none", "queued"}
    BY <1>d, <1>o, NoneAssumption DEF o
  <2>2. ASSUME NEW k \in Dispatchers \ {d}
        PROVE  /\ disp'[k].pc = "idle" <=> disp'[k].o = NoMsg
               /\ disp'[k].pc = "record_sent" => disp'[k].pid \in Pids
               /\ disp'[k].pc = "return" => msg'[disp'[k].o].st \notin {"none", "queued"}
    <3>1. disp[k].pc # "idle" => disp[k].o \in Msgs BY <1>i, WorkerHasMessage DEF At
    <3> QED BY <3>1, <1>i, <1>d, <1>m DEF WorkersAreSound
  <2> QED BY <2>1, <2>2 DEF WorkersAreSound
<1>4. FaultFreeIsExclusive'
  <2> SUFFICES ASSUME NEW q \in Msgs, hits'[q] = 0
               PROVE  /\ job'[q].st = "active" => job'[q].owner # NoDispatcher
                      /\ \A k \in Dispatchers : disp'[k].o = q =>
                           /\ job'[q].owner = k
                           /\ disp'[k].attempt = job'[q].tries + 1
                           /\ disp'[k].pc = "throw" => disp'[k].attempt < MaxAttempts
    BY DEF FaultFreeIsExclusive
  <2>1. hits[q] = 0 /\ (q = o => hits'[o] # hits[o] + 1) BY <1>h
  <2>2. \A k \in Dispatchers : disp[k].o = q =>
           /\ job[q].owner = k /\ disp[k].attempt = job[q].tries + 1
           /\ disp[k].pc = "throw" => disp[k].attempt < MaxAttempts
    BY <2>1, <1>i DEF FaultFreeIsExclusive
  <2>3. job[q].st = "active" => job[q].owner # NoDispatcher
    BY <2>1, <1>i DEF FaultFreeIsExclusive
  <2>4. disp'[d].o = q /\ disp'[d].pc = "throw" => disp'[d].attempt < MaxAttempts
    BY <2>1, <1>d DEF o
  <2> QED BY <2>2, <2>3, <2>4, <1>u, <1>s, <1>d
<1>5. StuckNeedsFault'
  BY <1>i, <1>s, <1>u, <1>m, <1>h DEF StuckNeedsFault, Carried
<1> QED BY <1>1, <1>2, <1>3, <1>4, <1>5

(* So does the budget, if the step pays for the calls it adds. *)
LEMMA WorkerStepPays ==
  ASSUME IInv, NEW d \in Dispatchers, ~At(d, "idle"), NEW p \in PCs \ {"idle"}, WorkerMoves(d, p),
         UNCHANGED queueVars, HitsMove(disp[d].o), accepted' \in [Msgs -> 0..MaxAccepts],
         \A q \in Msgs \ {disp[d].o} : accepted'[q] = accepted[q],
         accepted'[disp[d].o] + (IF p \in {"load", "check", "call", "throw"} THEN 1 ELSE 0) + hits[disp[d].o]
           <= accepted[disp[d].o] + (IF disp[d].pc \in {"load", "check", "call"} THEN 1 ELSE 0)
                + hits'[disp[d].o]
  PROVE  SendsArePaid'
<1>i. TypeOK /\ WorkersAreSound /\ SendsArePaid BY DEF IInv
<1>o. PICK o \in Msgs : o = disp[d].o BY <1>i, WorkerHasMessage
<1>d. /\ disp'[d].pc = p /\ disp'[d].o = o
      /\ \A k \in Dispatchers \ {d} : disp'[k] = disp[k]
  BY <1>o DEF WorkerMoves
<1>u. job' = job /\ sending' = sending BY DEF queueVars
<1>1. \A q \in Msgs : Waits(q)' = Waits(q) BY <1>u DEF Waits
<1>2. \A q \in Msgs \ {o} : Senders(q)' = Senders(q)
  BY <1>d, <1>u, <1>o DEF Senders
<1>3. Senders(o) \ {d} = Senders(o)' \ {d} BY <1>d, <1>u DEF Senders
<1>4. /\ d \in Senders(o)' => p \in {"load", "check", "call", "throw"}
      /\ disp[d].pc \in {"load", "check", "call"} => d \in Senders(o)
  BY <1>d, <1>o DEF Senders
<1>5. /\ accepted[o] \in Nat /\ hits[o] \in Nat /\ hits'[o] \in Nat /\ accepted'[o] \in Nat
      /\ Waits(o) \in Nat /\ accepted' \in [Msgs -> Nat]
  BY <1>i, <1>o, BoundsAssumption DEF TypeOK, HitsMove, Waits
<1>6. accepted'[o] + (IF d \in Senders(o)' THEN 1 ELSE 0) + Waits(o)' + hits[o]
        <= accepted[o] + (IF d \in Senders(o) THEN 1 ELSE 0) + Waits(o) + hits'[o]
  <2> DEFINE b == IF d \in Senders(o)' THEN 1 ELSE 0
             a == IF d \in Senders(o) THEN 1 ELSE 0
             y == IF p \in {"load", "check", "call", "throw"} THEN 1 ELSE 0
             x == IF disp[d].pc \in {"load", "check", "call"} THEN 1 ELSE 0
  <2>1. a \in Nat /\ b \in Nat /\ x \in Nat /\ y \in Nat OBVIOUS
  <2>2. b <= y /\ x <= a BY <1>4
  <2>3. accepted'[o] + y + hits[o] <= accepted[o] + x + hits'[o] BY <1>o
  <2>4. Waits(o)' = Waits(o) BY <1>1, <1>o
  <2> HIDE DEF a, b, x, y
  <2>5. accepted'[o] + b + Waits(o)' + hits[o] <= accepted[o] + a + Waits(o) + hits'[o]
    BY <2>1, <2>2, <2>3, <2>4, <1>5
  <2> QED BY <2>5 DEF a, b
<1>7. HitsMove(o) /\ \A q \in Msgs \ {o} : accepted'[q] = accepted[q] BY <1>o
<1> QED BY <1>i, <1>o, <1>1, <1>2, <1>3, <1>5, <1>6, <1>7, BudgetStep

(* A step that leaves the rows and the receipts keeps what is true of them. *)
LEMMA RowsKept ==
  ASSUME QueuedHasNoPid, ReceiptsStick, UNCHANGED <<msg, placeholder, applied>>
  PROVE  QueuedHasNoPid' /\ ReceiptsStick'
BY DEF QueuedHasNoPid, ReceiptsStick

(* A worker step that writes no row keeps IInv. *)
LEMMA QuietWorkerStep ==
  ASSUME IInv, NEW d \in Dispatchers, ~At(d, "idle"), NEW p \in PCs \ {"idle"}, WorkerMoves(d, p),
         p = "record_sent" => disp'[d].pid \in Pids,
         UNCHANGED <<rowVars, queueVars, applied, envVars>>, HitsMove(disp[d].o),
         p = "return" => msg[disp[d].o].st # "queued",
         p = "throw" => disp[d].attempt < MaxAttempts \/ hits'[disp[d].o] = hits[disp[d].o] + 1,
         accepted' \in [Msgs -> 0..MaxAccepts],
         \A q \in Msgs \ {disp[d].o} : accepted'[q] = accepted[q],
         accepted'[disp[d].o] + (IF p \in {"load", "check", "call", "throw"} THEN 1 ELSE 0) + hits[disp[d].o]
           <= accepted[disp[d].o] + (IF disp[d].pc \in {"load", "check", "call"} THEN 1 ELSE 0)
                + hits'[disp[d].o]
  PROVE  IInv'
<1>i. TypeOK /\ QueuedHasNoPid /\ NothingBeforeCommit /\ WorkersAreSound /\ ReceiptsStick BY DEF IInv
<1>u. UNCHANGED <<msg, placeholder, sending, job, applied, allowed, acts>>
  BY DEF rowVars, queueVars, envVars
<1>o. disp[d].o \in Msgs BY <1>i, WorkerHasMessage
<1>1. TypeOK' BY <1>i, <1>u DEF TypeOK, WorkerMoves, HitsMove
<1>2. QueuedHasNoPid' /\ ReceiptsStick' BY <1>i, <1>u, RowsKept
<1>3. Decides(d) BY <1>u DEF Decides
<1>4. p = "return" => msg'[disp[d].o].st \notin {"none", "queued"}
  BY <1>o, <1>u, <1>i DEF NothingBeforeCommit
<1>5. /\ NothingBeforeCommit' /\ JobsAreSound' /\ WorkersAreSound'
      /\ FaultFreeIsExclusive' /\ StuckNeedsFault'
  BY <1>3, <1>4, WorkerStepKeeps
<1>6. SendsArePaid' BY WorkerStepPays
<1> QED BY <1>1, <1>2, <1>5, <1>6 DEF IInv

(* Continuing without a fault from one place before the call to another, to  *)
(* a place after it, or to the end of the handler.                           *)
LEMMA QuietContinue ==
  ASSUME IInv, NEW d \in Dispatchers, ~At(d, "idle"), NEW p \in PCs \ {"idle", "record_sent"}, Goto(d, p),
         UNCHANGED <<rowVars, queueVars, metaVars, envVars, hits>>,
         p = "return" => msg[disp[d].o].st # "queued",
         p = "throw" => disp[d].attempt < MaxAttempts,
         p \in {"load", "check", "call", "throw"} => disp[d].pc \in {"load", "check", "call"}
  PROVE  IInv'
<1>i. TypeOK /\ WorkersAreSound BY DEF IInv
<1>o. disp[d].o \in Msgs BY <1>i, WorkerHasMessage
<1>1. WorkerMoves(d, p) BY <1>i, GotoMoves
<1>2. HitsMove(disp[d].o) BY <1>i, <1>o, HealthyHits
<1>3. accepted' = accepted /\ hits' = hits /\ applied' = applied BY DEF metaVars
<1>4. accepted[disp[d].o] \in Nat /\ hits[disp[d].o] \in Nat
  BY <1>i, <1>o, BoundsAssumption DEF TypeOK
<1>5. accepted' \in [Msgs -> 0..MaxAccepts] BY <1>3, <1>i DEF TypeOK
<1>6. accepted'[disp[d].o] + (IF p \in {"load", "check", "call", "throw"} THEN 1 ELSE 0) + hits[disp[d].o]
        <= accepted[disp[d].o] + (IF disp[d].pc \in {"load", "check", "call"} THEN 1 ELSE 0)
             + hits'[disp[d].o]
  BY <1>3, <1>4
<1> QED BY <1>1, <1>2, <1>3, <1>5, <1>6, QuietWorkerStep

(* A query that fails outside the try block is paid for by its fault. *)
LEMMA QueryFailsKeeps ==
  ASSUME IInv, NEW d \in Dispatchers, ~At(d, "idle"), QueryFails(d),
         UNCHANGED <<rowVars, queueVars, metaVars, envVars>>
  PROVE  IInv'
<1>i. TypeOK /\ WorkersAreSound BY DEF IInv
<1>o. disp[d].o \in Msgs BY <1>i, WorkerHasMessage
<1>p. "throw" \in PCs \ {"idle"} BY DEF PCs
<1>1. WorkerMoves(d, "throw") BY <1>i, <1>p, GotoMoves DEF QueryFails
<1>2. HitsMove(disp[d].o) /\ hits'[disp[d].o] = hits[disp[d].o] + 1
  BY <1>i, <1>o, FaultHits DEF QueryFails
<1>3. accepted' = accepted /\ applied' = applied BY DEF metaVars
<1>4. accepted[disp[d].o] \in Nat /\ hits[disp[d].o] \in Nat
  BY <1>i, <1>o, BoundsAssumption DEF TypeOK
<1>5. accepted' \in [Msgs -> 0..MaxAccepts] BY <1>3, <1>i DEF TypeOK
<1>6. accepted'[disp[d].o] + 1 + hits[disp[d].o]
        <= accepted[disp[d].o] + (IF disp[d].pc \in {"load", "check", "call"} THEN 1 ELSE 0)
             + hits'[disp[d].o]
  BY <1>2, <1>3, <1>4
<1> QED BY <1>p, <1>1, <1>2, <1>3, <1>5, <1>6, QuietWorkerStep

(* Meta's acceptance counts once, on the message of the worker. *)
LEMMA AcceptsCounts ==
  ASSUME TypeOK, NEW o \in Msgs, Accepts(o)
  PROVE  /\ accepted[o] \in Nat /\ accepted[o] + 1 \in 1..MaxAccepts
         /\ accepted' \in [Msgs -> 0..MaxAccepts] /\ accepted'[o] = accepted[o] + 1
         /\ \A q \in Msgs \ {o} : accepted'[q] = accepted[q]
<1>1. accepted \in [Msgs -> 0..MaxAccepts] /\ MaxAccepts \in Nat BY BoundsAssumption DEF TypeOK
<1>2. accepted[o] \in Nat /\ accepted[o] + 1 \in 1..MaxAccepts BY <1>1 DEF Accepts
<1> QED BY <1>1, <1>2 DEF Accepts

(* An error that may be retried goes back to the queue or is recorded. *)
LEMMA RetryOrFailPlace ==
  ASSUME NEW d \in Dispatchers, RetryOrFail(d)
  PROVE  \/ Goto(d, "throw") /\ disp[d].attempt < MaxAttempts
         \/ Goto(d, "record_failed")
BY DEF RetryOrFail, HasAttemptsLeft, Goto

(* Reading the row and the tenant, and the calls that Meta does not accept. *)
LEMMA BeforeTheCall ==
  ASSUME IInv, NEW d \in Dispatchers,
         Load(d) \/ StatusRefusingOutbound(d) \/ SendRejected(d) \/ SendUnavailable(d)
  PROVE  IInv'
<1>p. {"check", "return", "call", "record_failed", "throw"} \subseteq PCs \ {"idle", "record_sent"} BY DEF PCs
<1>1. ASSUME Load(d) PROVE IInv'
  <2>1. ~At(d, "idle") /\ disp[d].pc = "load" BY <1>1 DEF Load, At
  <2>2. CASE QueryFails(d) BY <1>1, <2>1, <2>2, QueryFailsKeeps DEF Load
  <2>3. CASE Continue(d, IF msg[disp[d].o].st = "queued" THEN "check" ELSE "return")
    <3>1. CASE msg[disp[d].o].st = "queued"
      BY <1>1, <1>p, <2>1, <2>3, <3>1, QuietContinue DEF Load, Continue, Healthy
    <3>2. CASE msg[disp[d].o].st # "queued"
      BY <1>1, <1>p, <2>1, <2>3, <3>2, QuietContinue DEF Load, Continue, Healthy
    <3> QED BY <3>1, <3>2
  <2> QED BY <1>1, <2>2, <2>3 DEF Load
<1>2. ASSUME StatusRefusingOutbound(d) PROVE IInv'
  <2>1. ~At(d, "idle") /\ disp[d].pc = "check" BY <1>2 DEF StatusRefusingOutbound, At
  <2>2. CASE QueryFails(d) BY <1>2, <2>1, <2>2, QueryFailsKeeps DEF StatusRefusingOutbound
  <2>3. CASE Continue(d, IF allowed THEN "call" ELSE "record_failed")
    <3>1. CASE allowed
      BY <1>2, <1>p, <2>1, <2>3, <3>1, QuietContinue DEF StatusRefusingOutbound, Continue, Healthy
    <3>2. CASE ~allowed
      BY <1>2, <1>p, <2>1, <2>3, <3>2, QuietContinue DEF StatusRefusingOutbound, Continue, Healthy
    <3> QED BY <3>1, <3>2
  <2> QED BY <1>2, <2>2, <2>3 DEF StatusRefusingOutbound
<1>3. ASSUME SendRejected(d) PROVE IInv'
  BY <1>3, <1>p, QuietContinue DEF SendRejected, FailTerminally, At
<1>4. ASSUME SendUnavailable(d) PROVE IInv'
  <2>1. ~At(d, "idle") /\ disp[d].pc = "call" BY <1>4 DEF SendUnavailable, At
  <2>2. CASE Goto(d, "throw") /\ disp[d].attempt < MaxAttempts
    BY <1>4, <1>p, <2>1, <2>2, QuietContinue DEF SendUnavailable
  <2>3. CASE Goto(d, "record_failed")
    BY <1>4, <1>p, <2>1, <2>3, QuietContinue DEF SendUnavailable
  <2> QED BY <1>4, <2>2, <2>3, RetryOrFailPlace DEF SendUnavailable
<1> QED BY <1>1, <1>2, <1>3, <1>4

(* Meta accepts: with its answer the worker makes no further call; without   *)
(* it the fault pays for the call that a retry may make.                     *)
LEMMA TheCallIsAccepted ==
  ASSUME IInv, NEW d \in Dispatchers, SendAccepted(d) \/ SendTimesOut(d)
  PROVE  IInv'
<1>i. TypeOK /\ WorkersAreSound BY DEF IInv
<1>c. ~At(d, "idle") /\ disp[d].pc = "call" BY DEF SendAccepted, SendTimesOut, At
<1>o. PICK o \in Msgs : o = disp[d].o BY <1>i, <1>c, WorkerHasMessage
<1>a. /\ accepted[o] \in Nat /\ accepted[o] + 1 \in 1..MaxAccepts
      /\ accepted' \in [Msgs -> 0..MaxAccepts] /\ accepted'[o] = accepted[o] + 1
      /\ \A q \in Msgs \ {o} : accepted'[q] = accepted[q]
  BY <1>i, <1>o, AcceptsCounts DEF SendAccepted, SendTimesOut
<1>h. hits[o] \in Nat BY <1>i, BoundsAssumption DEF TypeOK
<1>1. ASSUME SendAccepted(d) PROVE IInv'
  <2> DEFINE pid == <<o, accepted[o] + 1>>
  <2>1. pid \in Pids BY <1>a DEF Pids
  <2>2. SetDisp(d, [disp[d] EXCEPT !.pc = "record_sent", !.pid = pid])
    BY <1>1, <1>o DEF SendAccepted
  <2> HIDE DEF pid
  <2>3. \A x \in DispStates : LET y == [x EXCEPT !.pc = "record_sent", !.pid = pid]
                               IN  /\ y \in DispStates /\ y.pc = "record_sent" /\ y.o = x.o
                                   /\ y.attempt = x.attempt /\ y.pid = pid
    BY <2>1 DEF DispStates, PCs
  <2>4. disp \in [Dispatchers -> DispStates] /\ disp[d] \in DispStates BY <1>i DEF TypeOK
  <2>5. WorkerMoves(d, "record_sent") /\ disp'[d].pid \in Pids
    BY <2>1, <2>2, <2>3, <2>4 DEF WorkerMoves, SetDisp
  <2>6. HitsMove(o) /\ hits' = hits BY <1>1, <1>i, HealthyHits DEF SendAccepted
  <2>7. "record_sent" \in PCs \ {"idle"} BY DEF PCs
  <2>8. accepted'[o] + 0 + hits[o] <= accepted[o] + 1 + hits'[o] BY <1>a, <1>h, <2>6
  <2>9. UNCHANGED <<rowVars, queueVars, applied, envVars>> BY <1>1 DEF SendAccepted
  <2> QED BY <1>a, <1>c, <1>o, <2>5, <2>6, <2>7, <2>8, <2>9, QuietWorkerStep
<1>2. ASSUME SendTimesOut(d) PROVE IInv'
  <2>1. {"throw", "record_failed"} \subseteq PCs \ {"idle"} BY DEF PCs
  <2>2. Goto(d, "throw") \/ Goto(d, "record_failed") BY <1>2, RetryOrFailPlace DEF SendTimesOut
  <2>3. PICK p \in {"throw", "record_failed"} : WorkerMoves(d, p) BY <1>i, <2>1, <2>2, GotoMoves
  <2>4. HitsMove(o) /\ hits'[o] = hits[o] + 1 BY <1>2, <1>i, <1>o, FaultHits DEF SendTimesOut
  <2>5. accepted'[o] + (IF p \in {"load", "check", "call", "throw"} THEN 1 ELSE 0) + hits[o]
          <= accepted[o] + 1 + hits'[o]
    BY <1>a, <1>h, <2>4
  <2>6. UNCHANGED <<rowVars, queueVars, applied, envVars>> BY <1>2 DEF SendTimesOut
  <2> QED BY <1>a, <1>c, <1>o, <2>1, <2>3, <2>4, <2>5, <2>6, QuietWorkerStep
<1> QED BY <1>1, <1>2

(* Deciding a queued row loses no receipt: the provider id it takes, if any, *)
(* has no row of its own, so none was applied for it.                        *)
LEMMA DecisionKeeps ==
  ASSUME IInv, NEW d \in Dispatchers, disp[d].pc \in {"record_sent", "record_failed"},
         Continue(d, "return"), NEW x \in Rows, x.st \in {"sent", "failed"},
         msg[disp[d].o].st = "queued", msg' = [msg EXCEPT ![disp[d].o] = x],
         x.pid = NoPid \/ (x.pid \in Pids /\ placeholder[x.pid] = "none"),
         UNCHANGED <<placeholder, queueVars, metaVars, envVars>>
  PROVE  IInv'
<1>i. TypeOK /\ QueuedHasNoPid /\ WorkersAreSound /\ ReceiptsStick BY DEF IInv
<1>c. ~At(d, "idle") BY DEF At
<1>o. PICK o \in Msgs : o = disp[d].o BY <1>i, <1>c, WorkerHasMessage
<1>p. "return" \in PCs \ {"idle"} BY DEF PCs
<1>u. UNCHANGED <<placeholder, sending, job, accepted, applied, allowed, acts, hits>>
  BY DEF queueVars, metaVars, envVars, Continue, Healthy
<1>w. WorkerMoves(d, "return") BY <1>i, <1>p, GotoMoves DEF Continue
<1>h. HitsMove(o) BY <1>i, <1>u, HealthyHits
<1>m. msg'[o] = x /\ \A q \in Msgs \ {o} : msg'[q] = msg[q] BY <1>i, <1>o DEF TypeOK
<1>1. TypeOK'
  <2>1. msg' \in [Msgs -> Rows] BY <1>i DEF TypeOK
  <2> QED BY <2>1, <1>i, <1>u, <1>w DEF TypeOK, WorkerMoves
<1>2. QueuedHasNoPid' BY <1>i, <1>m DEF QueuedHasNoPid
<1>3. Decides(d) BY <1>m, <1>o DEF Decides
<1>4. /\ NothingBeforeCommit' /\ JobsAreSound' /\ WorkersAreSound'
      /\ FaultFreeIsExclusive' /\ StuckNeedsFault'
  BY <1>c, <1>h, <1>m, <1>o, <1>p, <1>u, <1>w, <1>3, WorkerStepKeeps
<1>5. SendsArePaid'
  <2>1. accepted[o] \in Nat /\ hits[o] \in Nat BY <1>i, BoundsAssumption DEF TypeOK
  <2>2. accepted'[o] + 0 + hits[o]
          <= accepted[o] + (IF disp[d].pc \in {"load", "check", "call"} THEN 1 ELSE 0) + hits'[o]
    BY <2>1, <1>u
  <2>3. accepted' \in [Msgs -> 0..MaxAccepts] BY <1>u, <1>i DEF TypeOK
  <2> QED BY <1>c, <1>h, <1>o, <1>p, <1>u, <1>w, <2>2, <2>3, WorkerStepPays
<1>6. ReceiptsStick'
  <2> SUFFICES ASSUME NEW r \in applied
               PROVE  LET at == IF msg'[r[1][1]].pid = r[1] THEN msg'[r[1][1]].st ELSE placeholder[r[1]]
                      IN  at \in Statuses /\ Rank[at] >= Rank[r[2]]
    BY <1>u DEF ReceiptsStick
  <2>1. r[1] \in Pids /\ r[1][1] \in Msgs BY <1>i DEF TypeOK, Pids
  <2>2. LET at == IF msg[r[1][1]].pid = r[1] THEN msg[r[1][1]].st ELSE placeholder[r[1]]
        IN  at \in Statuses /\ Rank[at] >= Rank[r[2]]
    BY <1>i DEF ReceiptsStick
  <2>3. CASE r[1][1] # o BY <2>1, <2>2, <2>3, <1>m
  <2>4. CASE r[1][1] = o
    <3>1. msg[o].pid = NoPid BY <1>i, <1>o DEF QueuedHasNoPid
    <3>2. placeholder[r[1]] \in Statuses /\ Rank[placeholder[r[1]]] >= Rank[r[2]]
      BY <2>1, <2>2, <2>4, <3>1, NoPidAssumption
    <3>3. x.pid # r[1] BY <3>2, <2>1, NoPidAssumption DEF Statuses
    <3> QED BY <3>2, <3>3, <2>4, <1>m
  <2> QED BY <2>3, <2>4
<1> QED BY <1>1, <1>2, <1>4, <1>5, <1>6 DEF IInv

(* recordSent and recordFailed. *)
LEMMA RecordingKeeps ==
  ASSUME IInv, NEW d \in Dispatchers, RecordSent(d) \/ RecordFailed(d)
  PROVE  IInv'
<1>i. TypeOK /\ QueuedHasNoPid /\ WorkersAreSound BY DEF IInv
<1>p. {"return", "record_failed"} \subseteq PCs \ {"idle", "record_sent"} BY DEF PCs
<1>c. ~At(d, "idle") BY DEF RecordSent, RecordFailed, At
<1>o. PICK o \in Msgs : o = disp[d].o BY <1>i, <1>c, WorkerHasMessage
<1>1. ASSUME RecordSent(d) PROVE IInv'
  <2>u. disp[d].pc = "record_sent" /\ UNCHANGED <<placeholder, queueVars, metaVars, envVars>>
    BY <1>1 DEF RecordSent, At
  <2>1. CASE ~StillQueued(o) /\ Continue(d, "return") /\ UNCHANGED msg
    BY <2>1, <2>u, <1>c, <1>o, <1>p, QuietContinue DEF StillQueued, Continue, Healthy, rowVars
  <2>2. CASE /\ StillQueued(o) /\ placeholder[disp[d].pid] = "none"
             /\ msg' = [msg EXCEPT ![o] = [st |-> "sent", pid |-> disp[d].pid]]
             /\ Continue(d, "return")
    <3> DEFINE x == [st |-> "sent", pid |-> disp[d].pid]
    <3>1. disp[d].pid \in Pids BY <2>u, <1>i DEF WorkersAreSound
    <3>2. x \in Rows /\ x.st = "sent" /\ x.pid = disp[d].pid BY <3>1 DEF Rows, Statuses
    <3>3. msg' = [msg EXCEPT ![disp[d].o] = x] BY <2>2, <1>o
    <3>4. msg[disp[d].o].st = "queued" /\ Continue(d, "return") BY <2>2, <1>o DEF StillQueued
    <3>5. x.pid \in Pids /\ placeholder[x.pid] = "none" BY <2>2, <3>1
    <3> HIDE DEF x
    <3> QED BY <2>u, <3>2, <3>3, <3>4, <3>5, DecisionKeeps
  <2>3. CASE FailTerminally(d) /\ Healthy /\ UNCHANGED msg
    BY <2>3, <2>u, <1>c, <1>p, QuietContinue DEF FailTerminally, Healthy, rowVars
  <2>4. CASE FailTerminally(d) /\ Fault(o) /\ UNCHANGED msg
    <3>1. WorkerMoves(d, "record_failed") BY <2>4, <1>i, <1>p, GotoMoves DEF FailTerminally
    <3>2. HitsMove(o) /\ hits'[o] = hits[o] + 1 BY <2>4, <1>i, FaultHits
    <3>3. accepted' = accepted /\ applied' = applied BY <2>u DEF metaVars
    <3>4. accepted' \in [Msgs -> 0..MaxAccepts] BY <3>3, <1>i DEF TypeOK
    <3>5. accepted[o] \in Nat /\ hits[o] \in Nat BY <1>i, BoundsAssumption DEF TypeOK
    <3>6. accepted'[o] + 0 + hits[o]
            <= accepted[o] + (IF disp[d].pc \in {"load", "check", "call"} THEN 1 ELSE 0) + hits'[o]
      BY <3>2, <3>3, <3>5
    <3>7. UNCHANGED <<rowVars, queueVars, applied, envVars>> BY <2>4, <2>u, <3>3 DEF rowVars
    <3> QED BY <1>c, <1>o, <1>p, <3>1, <3>2, <3>3, <3>4, <3>6, <3>7, QuietWorkerStep
  <2> QED BY <1>1, <1>o, <2>1, <2>2, <2>3, <2>4 DEF RecordSent
<1>2. ASSUME RecordFailed(d) PROVE IInv'
  <2>u. disp[d].pc = "record_failed" /\ UNCHANGED <<placeholder, queueVars, metaVars, envVars>>
    BY <1>2 DEF RecordFailed, At
  <2>1. CASE QueryFails(d) /\ UNCHANGED msg
    BY <2>1, <2>u, <1>c, QueryFailsKeeps DEF rowVars
  <2>2. CASE ~StillQueued(o) /\ Continue(d, "return") /\ UNCHANGED msg
    BY <2>2, <2>u, <1>c, <1>o, <1>p, QuietContinue DEF StillQueued, Continue, Healthy, rowVars
  <2>3. CASE /\ StillQueued(o) /\ msg' = [msg EXCEPT ![o] = [msg[o] EXCEPT !.st = "failed"]]
             /\ Continue(d, "return")
    <3> DEFINE x == [msg[o] EXCEPT !.st = "failed"]
    <3>1. msg[o] \in Rows BY <1>i DEF TypeOK
    <3>2. \A y \in Rows : /\ [y EXCEPT !.st = "failed"] \in Rows
                          /\ [y EXCEPT !.st = "failed"].st = "failed"
                          /\ [y EXCEPT !.st = "failed"].pid = y.pid
      BY DEF Rows, Statuses
    <3>3. x \in Rows /\ x.st = "failed" /\ x.pid = msg[o].pid BY <3>1, <3>2
    <3>4. msg[o].pid = NoPid BY <2>3, <1>i DEF StillQueued, QueuedHasNoPid
    <3>5. msg' = [msg EXCEPT ![disp[d].o] = x] BY <2>3, <1>o
    <3> HIDE DEF x
    <3> QED BY <2>3, <2>u, <3>3, <3>4, <3>5, <1>o, DecisionKeeps DEF StillQueued
  <2> QED BY <1>2, <1>o, <2>1, <2>2, <2>3 DEF RecordFailed
<1> QED BY <1>1, <1>2

-----------------------------------------------------------------------------
(* Steps of the queue.                                                       *)

(* The worker ends, and if it still holds the lock its job becomes j,        *)
(* unlocked.  Without a fault, only a worker that throws leaves work behind, *)
(* and a queued message goes on waiting.                                     *)
LEMMA WorkerLeavesKeeps ==
  ASSUME IInv, NEW d \in Dispatchers, ~At(d, "idle"), SetDisp(d, Idle),
         NEW j \in Jobs, MoveJob(d, j), j.owner = NoDispatcher, j.tries < MaxAttempts,
         UNCHANGED <<rowVars, sending, metaVars, envVars>>, HitsMove(disp[d].o),
         \/ hits'[disp[d].o] = hits[disp[d].o] + 1
         \/ /\ j.st # "active"
            /\ j.st = "waiting" => disp[d].pc = "throw"
            /\ hits[disp[d].o] = 0 /\ msg[disp[d].o].st = "queued" => j.st = "waiting"
  PROVE  IInv'
<1>i. /\ TypeOK /\ QueuedHasNoPid /\ NothingBeforeCommit /\ JobsAreSound /\ WorkersAreSound
      /\ FaultFreeIsExclusive /\ SendsArePaid /\ ReceiptsStick /\ StuckNeedsFault
  BY DEF IInv
<1>o. PICK o \in Msgs : o = disp[d].o BY <1>i, WorkerHasMessage
<1>u. UNCHANGED <<msg, placeholder, sending, accepted, applied, allowed, acts>>
  BY DEF rowVars, metaVars, envVars
<1>t. job \in [Msgs -> Jobs] /\ disp \in [Dispatchers -> DispStates] BY <1>i DEF TypeOK
<1>j. /\ job' \in [Msgs -> Jobs] /\ \A q \in Msgs \ {o} : job'[q] = job[q]
      /\ job[o].owner = d => job'[o] = j
      /\ job[o].owner # d => job'[o] = job[o]
  BY <1>t, <1>o DEF MoveJob, SetJob
<1>d. disp'[d] = Idle /\ \A k \in Dispatchers \ {d} : disp'[k] = disp[k] BY <1>t DEF SetDisp
<1>e. Idle.o = NoMsg /\ Idle.pc = "idle" /\ NoMsg \notin Msgs BY NoneAssumption DEF Idle
<1>h. /\ \A q \in Msgs : hits[q] \in Nat /\ hits'[q] \in Nat /\ (hits'[q] = 0 => hits[q] = 0)
      /\ hits'[o] \in {hits[o], hits[o] + 1}
  BY <1>i, <1>o, BoundsAssumption DEF TypeOK, HitsMove
<1>w. \A q \in Msgs : job[q].owner \in Dispatchers \union {NoDispatcher} BY <1>t DEF Jobs
<1>n. d # NoDispatcher BY NoneAssumption
<1>1. TypeOK'
  <2>1. Idle \in DispStates BY BoundsAssumption DEF Idle, DispStates, PCs
  <2>2. disp' \in [Dispatchers -> DispStates] BY <2>1, <1>t DEF SetDisp
  <2> QED BY <2>2, <1>i, <1>u, <1>j DEF TypeOK, HitsMove
<1>2. QueuedHasNoPid' /\ ReceiptsStick' BY <1>i, <1>u, RowsKept
<1>3. NothingBeforeCommit'
  <2>1. msg[o].st # "none" BY <1>i, <1>o DEF NothingBeforeCommit
  <2>2. o \in sending => job[o].owner # d BY <1>i, <1>n DEF NothingBeforeCommit, JobsAreSound
  <2> QED BY <2>1, <2>2, <1>i, <1>u, <1>j, <1>d, <1>e DEF NothingBeforeCommit
<1>4. JobsAreSound'
  <2>1. \A q \in Msgs \ {o} : job[q].owner # d BY <1>i, <1>o, <1>n DEF JobsAreSound
  <2> QED BY <2>1, <1>i, <1>j, <1>d, <1>w DEF JobsAreSound
<1>5. WorkersAreSound' BY <1>i, <1>u, <1>d, <1>e DEF WorkersAreSound
<1>6. hits'[o] = 0 => /\ job[o].owner = d /\ j.st # "active" /\ job'[o] = j
                      /\ msg[o].st = "queued" => j.st = "waiting"
  <2> SUFFICES ASSUME hits'[o] = 0
               PROVE  /\ job[o].owner = d /\ j.st # "active" /\ job'[o] = j
                      /\ msg[o].st = "queued" => j.st = "waiting"
    OBVIOUS
  <2>1. hits[o] = 0 /\ hits'[o] # hits[o] + 1 BY <1>h
  <2>2. job[o].owner = d BY <2>1, <1>i, <1>o DEF FaultFreeIsExclusive
  <2> QED BY <2>1, <2>2, <1>o, <1>j
<1>7. FaultFreeIsExclusive'
  <2> SUFFICES ASSUME NEW q \in Msgs, hits'[q] = 0
               PROVE  /\ job'[q].st = "active" => job'[q].owner # NoDispatcher
                      /\ \A k \in Dispatchers : disp'[k].o = q =>
                           /\ job'[q].owner = k
                           /\ disp'[k].attempt = job'[q].tries + 1
                           /\ disp'[k].pc = "throw" => disp'[k].attempt < MaxAttempts
    BY DEF FaultFreeIsExclusive
  <2>1. /\ job[q].st = "active" => job[q].owner # NoDispatcher
        /\ \A k \in Dispatchers : disp[k].o = q =>
             /\ job[q].owner = k /\ disp[k].attempt = job[q].tries + 1
             /\ disp[k].pc = "throw" => disp[k].attempt < MaxAttempts
    BY <1>h, <1>i DEF FaultFreeIsExclusive
  <2>2. CASE q = o BY <2>1, <2>2, <1>6, <1>d, <1>e
  <2>3. CASE q # o BY <2>1, <2>3, <1>j, <1>d, <1>e
  <2> QED BY <2>2, <2>3
<1>8. StuckNeedsFault'
  <2> SUFFICES ASSUME NEW q \in Msgs, msg[q].st = "queued", hits'[q] = 0 PROVE Carried(q)'
    BY <1>u DEF StuckNeedsFault
  <2>1. CASE q = o BY <2>1, <1>6 DEF Carried
  <2>2. CASE q # o
    <3>1. Carried(q) BY <1>i, <1>h DEF StuckNeedsFault
    <3> QED BY <3>1, <2>2, <1>o, <1>u, <1>j, <1>d DEF Carried
  <2> QED BY <2>1, <2>2
<1>9. SendsArePaid'
  <2>1. /\ \A q \in Msgs \ {o} : Senders(q)' = Senders(q) /\ Waits(q)' = Waits(q)
        /\ d \notin Senders(o)'
    <3>1. \A q \in Msgs \ {o} : Senders(q)' = Senders(q)
      BY <1>o, <1>j, <1>d, <1>e DEF Senders
    <3>2. \A q \in Msgs \ {o} : Waits(q)' = Waits(q) BY <1>j, <1>u DEF Waits
    <3>3. d \notin Senders(o)' BY <1>d, <1>e DEF Senders
    <3> QED BY <3>1, <3>2, <3>3
  <2>2. Senders(o) \ {d} = Senders(o)' \ {d}
    <3>1. \A k \in Dispatchers \ {d} : job'[o].owner = k <=> job[o].owner = k
      BY <1>j, NoneAssumption
    <3> QED BY <3>1, <1>d DEF Senders
  <2>3. accepted'[o] + 0 + Waits(o)' + hits[o]
          <= accepted[o] + (IF d \in Senders(o) THEN 1 ELSE 0) + Waits(o) + hits'[o]
    <3>1. accepted[o] \in Nat /\ accepted'[o] = accepted[o] /\ Waits(o) \in {0, 1} /\ Waits(o)' \in {0, 1}
      BY <1>i, <1>u, BoundsAssumption DEF TypeOK, Waits
    <3>2. CASE job[o].owner # d
      <4>1. Waits(o)' = Waits(o) BY <3>2, <1>j, <1>u DEF Waits
      <4> QED BY <4>1, <3>1, <1>h
    <3>3. CASE job[o].owner = d /\ hits'[o] = hits[o] + 1 BY <3>1, <3>3, <1>h
    <3>4. CASE job[o].owner = d /\ hits'[o] # hits[o] + 1
      <4>1. job'[o] = j /\ j.st # "active" /\ (j.st = "waiting" => disp[d].pc = "throw")
        BY <3>4, <1>j, <1>o
      <4>2. o \notin sending BY <3>4, <1>i, <1>n DEF NothingBeforeCommit, JobsAreSound
      <4>3. Waits(o)' = 1 => d \in Senders(o)
        BY <4>1, <4>2, <3>4, <1>o, <1>u DEF Waits, Senders
      <4> QED BY <4>3, <3>1, <1>h
    <3> QED BY <3>2, <3>3, <3>4
  <2>4. accepted' \in [Msgs -> Nat] BY <1>i, <1>u DEF TypeOK
  <2> QED BY <2>1, <2>2, <2>3, <2>4, <1>i, <1>o, <1>u, BudgetStep
<1> QED BY <1>1, <1>2, <1>3, <1>4, <1>5, <1>7, <1>8, <1>9 DEF IInv

(* The handler returns, throws or dies. *)
LEMMA WorkerEndsKeeps ==
  ASSUME IInv, NEW d \in Dispatchers, Return(d) \/ Throw(d) \/ Crash(d)
  PROVE  IInv'
<1>i. TypeOK /\ JobsAreSound /\ WorkersAreSound /\ FaultFreeIsExclusive BY DEF IInv
<1>c. ~At(d, "idle") BY DEF Return, Throw, Crash, At
<1>o. PICK o \in Msgs : o = disp[d].o BY <1>i, <1>c, WorkerHasMessage
<1>j. /\ job[o] \in Jobs /\ job[o].tries \in Nat /\ job[o].tries < MaxAttempts
      /\ MaxAttempts \in Nat \ {0}
  BY <1>i, BoundsAssumption DEF TypeOK, Jobs, JobsAreSound
<1>1. ASSUME Return(d) PROVE IInv'
  <2>1. NoJob \in Jobs /\ NoJob.owner = NoDispatcher /\ NoJob.tries = 0 /\ NoJob.st = "none"
    BY DEF NoJob, Jobs, JobStates
  <2>2. HitsMove(o) /\ hits' = hits BY <1>1, <1>i, HealthyHits DEF Return
  <2>3. msg[o].st # "queued" BY <1>1, <1>i, <1>o DEF Return, At, WorkersAreSound
  <2>4. NoJob.tries < MaxAttempts BY <2>1, <1>j
  <2>5. /\ MoveJob(d, NoJob) /\ SetDisp(d, Idle)
        /\ UNCHANGED <<rowVars, sending, metaVars, envVars>>
    BY <1>1 DEF Return
  <2> QED BY <1>c, <1>o, <2>1, <2>2, <2>3, <2>4, <2>5, WorkerLeavesKeeps
<1>2. ASSUME Throw(d) PROVE IInv'
  <2> DEFINE j == IF job[o].tries + 1 < MaxAttempts
                  THEN Retried(job[o]) ELSE [NoJob EXCEPT !.st = "failed"]
  <2>1. /\ MoveJob(d, j) /\ SetDisp(d, Idle) /\ disp[d].pc = "throw"
        /\ UNCHANGED <<rowVars, sending, metaVars, envVars, hits>>
    BY <1>2, <1>o DEF Throw, At
  <2>2. /\ j \in Jobs /\ j.owner = NoDispatcher /\ j.tries < MaxAttempts /\ j.st # "active"
        /\ job[o].tries + 1 < MaxAttempts => j.st = "waiting"
    <3>1. CASE job[o].tries + 1 < MaxAttempts
      <4>1. \A x \in Jobs, n \in Nat :
               LET y == [x EXCEPT !.st = "waiting", !.tries = n, !.owner = NoDispatcher]
               IN  y \in Jobs /\ y.owner = NoDispatcher /\ y.tries = n /\ y.st = "waiting"
        BY DEF Jobs, JobStates
      <4>2. j = [job[o] EXCEPT !.st = "waiting", !.tries = job[o].tries + 1, !.owner = NoDispatcher]
        BY <3>1 DEF Retried
      <4>3. job[o].tries + 1 \in Nat BY <1>j
      <4> HIDE DEF j
      <4> QED BY <4>1, <4>2, <4>3, <3>1, <1>j
    <3>2. CASE ~(job[o].tries + 1 < MaxAttempts)
      <4>1. j = [NoJob EXCEPT !.st = "failed"] BY <3>2
      <4>2. /\ [NoJob EXCEPT !.st = "failed"] \in Jobs
            /\ [NoJob EXCEPT !.st = "failed"].owner = NoDispatcher
            /\ [NoJob EXCEPT !.st = "failed"].tries = 0 /\ [NoJob EXCEPT !.st = "failed"].st = "failed"
        BY DEF NoJob, Jobs, JobStates
      <4> HIDE DEF j
      <4> QED BY <4>1, <4>2, <3>2, <1>j
    <3> QED BY <3>1, <3>2
  <2> HIDE DEF j
  <2>3. hits[o] = 0 => j.st = "waiting"
    BY <2>1, <2>2, <1>i, <1>o, <1>j DEF FaultFreeIsExclusive
  <2>4. HitsMove(o) BY <2>1, <1>i, HealthyHits
  <2> QED BY <1>c, <1>o, <2>1, <2>2, <2>3, <2>4, WorkerLeavesKeeps
<1>3. ASSUME Crash(d) PROVE IInv'
  <2> DEFINE j == [job[o] EXCEPT !.owner = NoDispatcher]
  <2>1. \A x \in Jobs : LET y == [x EXCEPT !.owner = NoDispatcher]
                         IN  y \in Jobs /\ y.owner = NoDispatcher /\ y.tries = x.tries
    BY DEF Jobs
  <2>2. j \in Jobs /\ j.owner = NoDispatcher /\ j.tries < MaxAttempts BY <2>1, <1>j
  <2>3. /\ MoveJob(d, j) /\ SetDisp(d, Idle)
        /\ UNCHANGED <<rowVars, sending, metaVars, envVars>>
    BY <1>3, <1>o DEF Crash
  <2> HIDE DEF j
  <2>4. HitsMove(o) /\ hits'[o] = hits[o] + 1 BY <1>3, <1>i, <1>o, FaultHits DEF Crash
  <2> QED BY <1>c, <1>o, <2>2, <2>3, <2>4, WorkerLeavesKeeps
<1> QED BY <1>1, <1>2, <1>3

(* The queue moves the job of a committed message, unlocked, while the       *)
(* workers go on: after a fault, or a job nobody held is handed on.          *)
LEMMA QueueMovesKeeps ==
  ASSUME IInv, NEW o \in Msgs, msg[o].st # "none", NEW j \in Jobs, SetJob(o, j),
         j.owner = NoDispatcher, j.tries < MaxAttempts, sending' = sending \ {o},
         UNCHANGED <<rowVars, disp, metaVars, envVars>>, HitsMove(o),
         \/ hits'[o] = hits[o] + 1
         \/ /\ Waits(o) = 1 /\ j.st # "active"
            /\ hits[o] = 0 => j.st = "waiting" /\ \A d \in Dispatchers : disp[d].o # o
  PROVE  IInv'
<1>i. /\ TypeOK /\ QueuedHasNoPid /\ NothingBeforeCommit /\ JobsAreSound /\ WorkersAreSound
      /\ FaultFreeIsExclusive /\ SendsArePaid /\ ReceiptsStick /\ StuckNeedsFault
  BY DEF IInv
<1>u. UNCHANGED <<msg, placeholder, disp, accepted, applied, allowed, acts>>
  BY DEF rowVars, metaVars, envVars
<1>t. job \in [Msgs -> Jobs] BY <1>i DEF TypeOK
<1>j. job' \in [Msgs -> Jobs] /\ job'[o] = j /\ \A q \in Msgs \ {o} : job'[q] = job[q]
  BY <1>t DEF SetJob
<1>h. /\ \A q \in Msgs : hits[q] \in Nat /\ hits'[q] \in Nat /\ (hits'[q] = 0 => hits[q] = 0)
      /\ hits'[o] \in {hits[o], hits[o] + 1}
  BY <1>i, BoundsAssumption DEF TypeOK, HitsMove
<1>1. TypeOK' BY <1>i, <1>u, <1>j DEF TypeOK, HitsMove
<1>2. QueuedHasNoPid' /\ ReceiptsStick' BY <1>i, <1>u, RowsKept
<1>3. NothingBeforeCommit' BY <1>i, <1>u, <1>j DEF NothingBeforeCommit
<1>4. JobsAreSound' BY <1>i, <1>u, <1>j DEF JobsAreSound
<1>5. WorkersAreSound' BY <1>i, <1>u DEF WorkersAreSound
<1>6. hits'[o] = 0 => j.st = "waiting" /\ \A d \in Dispatchers : disp[d].o # o BY <1>h
<1>7. FaultFreeIsExclusive'
  BY <1>i, <1>h, <1>6, <1>u, <1>j DEF FaultFreeIsExclusive
<1>8. StuckNeedsFault'
  <2> SUFFICES ASSUME NEW q \in Msgs, msg[q].st = "queued", hits'[q] = 0 PROVE Carried(q)'
    BY <1>u DEF StuckNeedsFault
  <2>1. CASE q = o BY <2>1, <1>6, <1>j DEF Carried
  <2>2. CASE q # o
    <3>1. Carried(q) BY <1>i, <1>h DEF StuckNeedsFault
    <3> QED BY <3>1, <2>2, <1>u, <1>j DEF Carried
  <2> QED BY <2>1, <2>2
<1>9. SendsArePaid'
  <2>k. PICK d : d = job[o].owner OBVIOUS
  <2>1. \A q \in Msgs \ {o} : Senders(q)' = Senders(q) /\ Waits(q)' = Waits(q)
    <3>1. \A q \in Msgs \ {o} : Senders(q)' = Senders(q) BY <1>j, <1>u DEF Senders
    <3>2. \A q \in Msgs \ {o} : Waits(q)' = Waits(q) BY <1>j DEF Waits
    <3> QED BY <3>1, <3>2
  <2>2. /\ Senders(o) \ {d} = Senders(o)' \ {d}
        /\ d \in Senders(o)' => d \in Senders(o)
    <3>1. \A k \in Dispatchers \ {d} : job'[o].owner # k /\ job[o].owner # k
      BY <1>j, <2>k, NoneAssumption
    <3>2. \A k \in Dispatchers : job'[o].owner # k BY <1>j, NoneAssumption
    <3> QED BY <3>1, <3>2, <1>u DEF Senders
  <2>3. accepted[o] \in Nat /\ accepted'[o] = accepted[o] /\ Waits(o) \in {0, 1} /\ Waits(o)' \in {0, 1}
    BY <1>i, <1>u, BoundsAssumption DEF TypeOK, Waits
  <2>4. accepted'[o] + (IF d \in Senders(o)' THEN 1 ELSE 0) + Waits(o)' + hits[o]
          <= accepted[o] + (IF d \in Senders(o) THEN 1 ELSE 0) + Waits(o) + hits'[o]
    <3> DEFINE b == IF d \in Senders(o)' THEN 1 ELSE 0
               a == IF d \in Senders(o) THEN 1 ELSE 0
    <3>1. a \in Nat /\ b \in Nat /\ b <= a BY <2>2
    <3> HIDE DEF a, b
    <3>2. accepted'[o] + b + Waits(o)' + hits[o] <= accepted[o] + a + Waits(o) + hits'[o]
      BY <3>1, <2>3, <1>h
    <3> QED BY <3>2 DEF a, b
  <2>5. accepted' \in [Msgs -> Nat] BY <1>i, <1>u DEF TypeOK
  <2> QED BY <2>1, <2>2, <2>4, <2>5, <1>i, <1>u, BudgetStep
<1> QED BY <1>1, <1>2, <1>3, <1>4, <1>5, <1>7, <1>8, <1>9 DEF IInv

(* The lock expires, the stalled check acts, Redis forgets, and the request  *)
(* hands its message over or dies.                                           *)
LEMMA QueueKeeps ==
  ASSUME IInv, NEW o \in Msgs,
         \/ StallCheck(o) \/ Forget(o) \/ QueueDelivery(o)
         \/ \E d \in Dispatchers : LockExpires(d) /\ disp[d].o = o
  PROVE  IInv'
<1>i. TypeOK /\ NothingBeforeCommit /\ JobsAreSound /\ WorkersAreSound /\ FaultFreeIsExclusive BY DEF IInv
<1>t. job \in [Msgs -> Jobs] BY <1>i DEF TypeOK
<1>j. job[o] \in Jobs /\ job[o].tries < MaxAttempts BY <1>i DEF TypeOK, JobsAreSound
<1>n. /\ NoJob \in Jobs /\ NoJob.owner = NoDispatcher /\ NoJob.tries < MaxAttempts
      /\ \A s \in {"failed", "waiting"} : LET y == [NoJob EXCEPT !.st = s]
                                         IN  /\ y \in Jobs /\ y.owner = NoDispatcher
                                             /\ y.tries < MaxAttempts /\ y.st = s
  BY BoundsAssumption DEF NoJob, Jobs, JobStates
<1>1. ASSUME StallCheck(o) PROVE IInv'
  <2> DEFINE j == IF job[o].stalls = 0 THEN [job[o] EXCEPT !.st = "waiting", !.stalls = 1]
                                       ELSE [NoJob EXCEPT !.st = "failed"]
  <2>1. job[o].st = "active" /\ job[o].owner = NoDispatcher /\ SetJob(o, j)
    BY <1>1 DEF StallCheck
  <2>2. j \in Jobs /\ j.owner = NoDispatcher /\ j.tries < MaxAttempts /\ j.st # "active"
    <3>1. CASE job[o].stalls = 0
      <4>1. \A x \in Jobs : LET y == [x EXCEPT !.st = "waiting", !.stalls = 1]
                             IN  y \in Jobs /\ y.owner = x.owner /\ y.tries = x.tries /\ y.st = "waiting"
        BY DEF Jobs, JobStates
      <4>2. j = [job[o] EXCEPT !.st = "waiting", !.stalls = 1] BY <3>1
      <4> HIDE DEF j
      <4> QED BY <4>1, <4>2, <1>j, <2>1
    <3>2. CASE job[o].stalls # 0 BY <3>2, <1>n
    <3> QED BY <3>1, <3>2
  <2> HIDE DEF j
  <2>3. Waits(o) = 1 BY <2>1 DEF Waits
  <2>4. hits[o] # 0 BY <2>1, <1>i DEF FaultFreeIsExclusive
  <2>5. msg[o].st # "none" /\ o \notin sending BY <2>1, <1>i DEF NothingBeforeCommit
  <2>6. UNCHANGED <<rowVars, sending, disp, metaVars, envVars, hits>> BY <1>1 DEF StallCheck
  <2>7. sending' = sending \ {o} BY <2>5, <2>6
  <2>8. HitsMove(o) BY <2>6, <1>i, HealthyHits
  <2> QED BY <2>1, <2>2, <2>3, <2>4, <2>5, <2>6, <2>7, <2>8, QueueMovesKeeps
<1>2. ASSUME Forget(o) PROVE IInv'
  <2>1. job[o].st = "waiting" /\ SetJob(o, NoJob) /\ UNCHANGED <<rowVars, sending, disp, metaVars, envVars>>
    BY <1>2 DEF Forget
  <2>2. msg[o].st # "none" /\ o \notin sending BY <2>1, <1>i DEF NothingBeforeCommit
  <2>3. sending' = sending \ {o} BY <2>1, <2>2
  <2>4. HitsMove(o) /\ hits'[o] = hits[o] + 1 BY <1>2, <1>i, FaultHits DEF Forget
  <2> QED BY <1>n, <2>1, <2>2, <2>3, <2>4, QueueMovesKeeps
<1>3. ASSUME QueueDelivery(o) PROVE IInv'
  <2>1. /\ o \in sending /\ sending' = sending \ {o}
        /\ UNCHANGED <<rowVars, disp, metaVars, envVars>>
    BY <1>3 DEF QueueDelivery
  <2>2. msg[o].st # "none" /\ job[o].st = "none" /\ job[o].owner = NoDispatcher /\ Waits(o) = 1
    BY <2>1, <1>i DEF NothingBeforeCommit, JobsAreSound, Waits
  <2>3. CASE job' = [job EXCEPT ![o] = [NoJob EXCEPT !.st = "waiting"]] /\ Healthy
    <3> DEFINE j == [NoJob EXCEPT !.st = "waiting"]
    <3>1. /\ j \in Jobs /\ j.owner = NoDispatcher /\ j.tries < MaxAttempts /\ j.st = "waiting"
      BY <1>n
    <3>2. SetJob(o, j) BY <2>3 DEF SetJob
    <3> HIDE DEF j
    <3>3. HitsMove(o) BY <2>3, <1>i, HealthyHits DEF Healthy
    <3>4. hits[o] = 0 => \A d \in Dispatchers : disp[d].o # o
      BY <2>2, <1>i, NoneAssumption DEF FaultFreeIsExclusive
    <3> QED BY <2>1, <2>2, <3>1, <3>2, <3>3, <3>4, QueueMovesKeeps
  <2>4. CASE Fault(o) /\ UNCHANGED job
    <3>1. SetJob(o, job[o]) BY <2>4, <1>t DEF SetJob
    <3>2. HitsMove(o) /\ hits'[o] = hits[o] + 1 BY <2>4, <1>i, FaultHits
    <3> QED BY <1>j, <2>1, <2>2, <3>1, <3>2, QueueMovesKeeps
  <2> QED BY <1>3, <2>3, <2>4 DEF QueueDelivery
<1>4. ASSUME NEW d \in Dispatchers, LockExpires(d), disp[d].o = o PROVE IInv'
  <2> DEFINE j == [job[o] EXCEPT !.owner = NoDispatcher]
  <2>1. \A x \in Jobs : LET y == [x EXCEPT !.owner = NoDispatcher]
                         IN  y \in Jobs /\ y.owner = NoDispatcher /\ y.tries = x.tries
    BY DEF Jobs
  <2>2. j \in Jobs /\ j.owner = NoDispatcher /\ j.tries < MaxAttempts BY <2>1, <1>j
  <2>3. /\ SetJob(o, j) /\ job[o].owner = d /\ UNCHANGED <<rowVars, sending, disp, metaVars, envVars>>
    BY <1>4 DEF LockExpires
  <2> HIDE DEF j
  <2>4. HitsMove(o) /\ hits'[o] = hits[o] + 1 BY <1>4, <1>i, FaultHits DEF LockExpires
  <2>5. msg[o].st # "none" /\ o \notin sending
    BY <1>4, <2>3, <1>i, NoneAssumption DEF NothingBeforeCommit, JobsAreSound
  <2>6. sending' = sending \ {o} BY <2>3, <2>5
  <2> QED BY <2>2, <2>3, <2>4, <2>5, <2>6, QueueMovesKeeps
<1> QED BY <1>1, <1>2, <1>3, <1>4

(* A worker takes a waiting job: it becomes the one that may call Meta. *)
LEMMA PickUpKeeps ==
  ASSUME IInv, NEW d \in Dispatchers, NEW o \in Msgs, PickUp(d, o)
  PROVE  IInv'
<1>i. /\ TypeOK /\ QueuedHasNoPid /\ NothingBeforeCommit /\ JobsAreSound /\ WorkersAreSound
      /\ FaultFreeIsExclusive /\ SendsArePaid /\ ReceiptsStick /\ StuckNeedsFault
  BY DEF IInv
<1> DEFINE j == [job[o] EXCEPT !.st = "active", !.owner = d]
           w == [pc |-> "load", o |-> o, attempt |-> job[o].tries + 1, pid |-> NoPid]
<1>g. /\ disp[d].pc = "idle" /\ job[o].st = "waiting" /\ SetJob(o, j) /\ SetDisp(d, w)
      /\ UNCHANGED <<msg, placeholder, sending, accepted, applied, allowed, acts, hits>>
  BY DEF PickUp, At, Attempt, rowVars, metaVars, envVars
<1>t. job \in [Msgs -> Jobs] /\ disp \in [Dispatchers -> DispStates] BY <1>i DEF TypeOK
<1>a. job[o].tries \in Nat /\ job[o].tries < MaxAttempts /\ MaxAttempts \in Nat
  BY <1>i, <1>t, BoundsAssumption DEF JobsAreSound, Jobs
<1>1. j \in Jobs /\ j.st = "active" /\ j.owner = d /\ j.tries = job[o].tries
  <2>1. \A x \in Jobs : LET y == [x EXCEPT !.st = "active", !.owner = d]
                         IN  y \in Jobs /\ y.st = "active" /\ y.owner = d /\ y.tries = x.tries
    BY DEF Jobs, JobStates
  <2> QED BY <2>1, <1>t
<1>2. /\ w \in DispStates /\ w.pc = "load" /\ w.o = o /\ w.attempt = job[o].tries + 1
  <2>1. job[o].tries + 1 \in 1..MaxAttempts BY <1>a
  <2> QED BY <2>1 DEF DispStates, PCs
<1> HIDE DEF j, w
<1>j. job' \in [Msgs -> Jobs] /\ job'[o] = j /\ \A q \in Msgs \ {o} : job'[q] = job[q]
  BY <1>t, <1>g, <1>1 DEF SetJob
<1>d. /\ disp' \in [Dispatchers -> DispStates] /\ disp'[d] = w
      /\ \A k \in Dispatchers \ {d} : disp'[k] = disp[k]
  BY <1>t, <1>g, <1>2 DEF SetDisp
<1>n. /\ msg[o].st # "none" /\ o \notin sending /\ job[o].owner = NoDispatcher
      /\ disp[d].o = NoMsg /\ NoMsg \notin Msgs /\ d # NoDispatcher
  BY <1>g, <1>i, NoneAssumption DEF NothingBeforeCommit, JobsAreSound, WorkersAreSound
<1>3. TypeOK' BY <1>i, <1>g, <1>j, <1>d DEF TypeOK
<1>4. QueuedHasNoPid' /\ ReceiptsStick' BY <1>i, <1>g, RowsKept
<1>5. NothingBeforeCommit'
  BY <1>i, <1>g, <1>j, <1>d, <1>n, <1>1, <1>2 DEF NothingBeforeCommit
<1>6. JobsAreSound'
  <2>1. /\ j.tries < MaxAttempts /\ disp'[j.owner].o = o /\ j.st = "active" BY <1>a, <1>1, <1>2, <1>d
  <2>2. ASSUME NEW q \in Msgs \ {o}
        PROVE  job[q].owner # NoDispatcher => disp'[job[q].owner].o = q
    <3>1. job[q].owner \in Dispatchers \union {NoDispatcher} BY <1>t DEF Jobs
    <3>2. job[q].owner # NoDispatcher => disp[job[q].owner].o = q BY <1>i DEF JobsAreSound
    <3>3. job[q].owner # d BY <3>2, <1>n
    <3> QED BY <3>1, <3>2, <3>3, <1>d
  <2> QED BY <2>1, <2>2, <1>i, <1>j DEF JobsAreSound
<1>7. WorkersAreSound'
  BY <1>i, <1>g, <1>d, <1>n, <1>2 DEF WorkersAreSound
<1>8. FaultFreeIsExclusive'
  <2> SUFFICES ASSUME NEW q \in Msgs, hits[q] = 0
               PROVE  /\ job'[q].st = "active" => job'[q].owner # NoDispatcher
                      /\ \A k \in Dispatchers : disp'[k].o = q =>
                           /\ job'[q].owner = k
                           /\ disp'[k].attempt = job'[q].tries + 1
                           /\ disp'[k].pc = "throw" => disp'[k].attempt < MaxAttempts
    BY <1>g DEF FaultFreeIsExclusive
  <2>1. /\ job[q].st = "active" => job[q].owner # NoDispatcher
        /\ \A k \in Dispatchers : disp[k].o = q =>
             /\ job[q].owner = k /\ disp[k].attempt = job[q].tries + 1
             /\ disp[k].pc = "throw" => disp[k].attempt < MaxAttempts
    BY <1>i DEF FaultFreeIsExclusive
  <2>2. CASE q = o
    <3>1. \A k \in Dispatchers : disp[k].o # o BY <2>1, <2>2, <1>n, NoneAssumption
    <3> QED BY <3>1, <2>2, <1>j, <1>d, <1>n, <1>1, <1>2
  <2>3. CASE q # o BY <2>1, <2>3, <1>j, <1>d, <1>2
  <2> QED BY <2>2, <2>3
<1>9. StuckNeedsFault'
  <2> SUFFICES ASSUME NEW q \in Msgs, Carried(q) PROVE Carried(q)'
    BY <1>i, <1>g DEF StuckNeedsFault
  <2>1. CASE q = o BY <2>1, <1>j, <1>1 DEF Carried
  <2>2. CASE q # o BY <2>2, <1>g, <1>j, <1>d, <1>n DEF Carried
  <2> QED BY <2>1, <2>2
<1>10. SendsArePaid'
  <2>1. \A q \in Msgs \ {o} : Senders(q)' = Senders(q) /\ Waits(q)' = Waits(q)
    <3>1. \A q \in Msgs \ {o} : Senders(q)' = Senders(q) BY <1>j, <1>d, <1>n, <1>2 DEF Senders
    <3>2. \A q \in Msgs \ {o} : Waits(q)' = Waits(q) BY <1>j, <1>g DEF Waits
    <3> QED BY <3>1, <3>2
  <2>2. Senders(o) \ {d} = Senders(o)' \ {d} BY <1>j, <1>d, <1>n, <1>1, NoneAssumption DEF Senders
  <2>3. Waits(o) = 1 /\ Waits(o)' = 0 /\ d \notin Senders(o)
    BY <1>g, <1>j, <1>n, <1>1 DEF Waits, Senders
  <2>4. accepted[o] \in Nat /\ hits[o] \in Nat /\ accepted' = accepted /\ hits' = hits
    BY <1>i, <1>g, BoundsAssumption DEF TypeOK
  <2>5. accepted'[o] + (IF d \in Senders(o)' THEN 1 ELSE 0) + Waits(o)' + hits[o]
          <= accepted[o] + (IF d \in Senders(o) THEN 1 ELSE 0) + Waits(o) + hits'[o]
    BY <2>3, <2>4
  <2>6. accepted' \in [Msgs -> Nat] BY <1>i, <2>4 DEF TypeOK
  <2>7. HitsMove(o) BY <1>i, <2>4, HealthyHits
  <2> QED BY <2>1, <2>2, <2>4, <2>5, <2>6, <2>7, <1>i, BudgetStep
<1> QED BY <1>3, <1>4, <1>5, <1>6, <1>7, <1>8, <1>9, <1>10 DEF IInv

-----------------------------------------------------------------------------
(* The producers, the receipts and the tenant.                               *)

(* A message is committed: its request carries it, and may send it once. *)
LEMMA CommitMessageKeeps ==
  ASSUME IInv, NEW o \in Msgs, CommitMessage(o)
  PROVE  IInv'
<1>i. /\ TypeOK /\ QueuedHasNoPid /\ NothingBeforeCommit /\ JobsAreSound /\ WorkersAreSound
      /\ FaultFreeIsExclusive /\ SendsArePaid /\ ReceiptsStick /\ StuckNeedsFault
  BY DEF IInv
<1> DEFINE x == [st |-> "queued", pid |-> NoPid]
<1>g. /\ msg[o].st = "none" /\ msg' = [msg EXCEPT ![o] = x] /\ sending' = sending \union {o}
      /\ UNCHANGED <<placeholder, job, disp, accepted, applied, allowed, acts, hits>>
  BY DEF CommitMessage, metaVars, envVars
<1>x. x \in Rows /\ x.st = "queued" /\ x.pid = NoPid BY DEF Rows, Statuses
<1> HIDE DEF x
<1>m. msg' \in [Msgs -> Rows] /\ msg'[o] = x /\ \A q \in Msgs \ {o} : msg'[q] = msg[q]
  BY <1>i, <1>g, <1>x DEF TypeOK
<1>n. /\ o \notin sending /\ job[o].st = "none" /\ accepted[o] = 0 /\ msg[o].pid = NoPid
      /\ \A d \in Dispatchers : disp[d].o # o
  BY <1>i, <1>g DEF NothingBeforeCommit, QueuedHasNoPid
<1>1. TypeOK' BY <1>i, <1>g, <1>m DEF TypeOK
<1>2. QueuedHasNoPid' BY <1>i, <1>m, <1>x DEF QueuedHasNoPid
<1>3. NothingBeforeCommit' BY <1>i, <1>g, <1>m, <1>n, <1>x DEF NothingBeforeCommit
<1>4. JobsAreSound' /\ FaultFreeIsExclusive' BY <1>i, <1>g DEF JobsAreSound, FaultFreeIsExclusive
<1>5. WorkersAreSound' BY <1>i, <1>g, <1>m, <1>n, WorkerHasMessage DEF WorkersAreSound, At
<1>6. StuckNeedsFault' BY <1>i, <1>g, <1>m DEF StuckNeedsFault, Carried
<1>7. SendsArePaid'
  <2>1. \A q \in Msgs : Senders(q)' = Senders(q) BY <1>g DEF Senders
  <2>2. Senders(o) = {} BY <1>n DEF Senders
  <2>3. \A q \in Msgs \ {o} : Waits(q)' = Waits(q) BY <1>g DEF Waits
  <2>4. Waits(o)' = 1 /\ hits[o] \in Nat BY <1>i, <1>g, BoundsAssumption DEF Waits, TypeOK
  <2>5. IsFiniteSet({}) /\ Cardinality({}) = 0 BY FS_EmptySet
  <2> QED BY <2>1, <2>2, <2>3, <2>4, <2>5, <1>i, <1>g, <1>n DEF SendsArePaid
<1>8. ReceiptsStick'
  <2> SUFFICES ASSUME NEW r \in applied
               PROVE  LET at == IF msg'[r[1][1]].pid = r[1] THEN msg'[r[1][1]].st ELSE placeholder[r[1]]
                      IN  at \in Statuses /\ Rank[at] >= Rank[r[2]]
    BY <1>g DEF ReceiptsStick
  <2>1. r[1] \in Pids /\ r[1][1] \in Msgs /\ r[1] # NoPid BY <1>i, NoPidAssumption DEF TypeOK, Pids
  <2>2. LET at == IF msg[r[1][1]].pid = r[1] THEN msg[r[1][1]].st ELSE placeholder[r[1]]
        IN  at \in Statuses /\ Rank[at] >= Rank[r[2]]
    BY <1>i DEF ReceiptsStick
  <2> QED BY <2>1, <2>2, <1>m, <1>n, <1>x
<1> QED BY <1>1, <1>2, <1>3, <1>4, <1>5, <1>6, <1>7, <1>8 DEF IInv

(* MESSAGE_STATUS_RANK: a report either advances a status above the reported *)
(* one, or finds it there already.                                           *)
LEMMA RankFacts ==
  /\ \A t \in Statuses : Rank[t] \in 0..99
  /\ Rank["queued"] = 0 /\ Rank["sent"] = 1 /\ Rank["failed"] = 99
  /\ Reported \subseteq Statuses /\ "none" \notin Statuses /\ "queued" \notin Reported
<1>1. /\ Rank["queued"] = 0 /\ Rank["sent"] = 1 /\ Rank["failed"] = 99
      /\ Rank["delivered"] = 2 /\ Rank["read"] = 3
  BY DEF Rank, Statuses
<1> QED BY <1>1 DEF Statuses, Reported

(* Reporting s for a row at status t leaves it at or past both. *)
LEMMA ReportAdvances ==
  ASSUME NEW t \in Statuses, NEW s \in Reported, NEW u,
         u = IF t \in AdvanceableFrom(s) THEN s ELSE t
  PROVE  u \in Statuses /\ Rank[u] >= Rank[s] /\ Rank[u] >= Rank[t]
<1>1. Rank[t] \in 0..99 /\ Rank[s] \in 0..99 /\ s \in Statuses /\ Rank["failed"] = 99 BY RankFacts
<1>2. CASE t \in AdvanceableFrom(s) BY <1>1, <1>2 DEF AdvanceableFrom
<1>3. CASE t \notin AdvanceableFrom(s)
  <2>1. t = "failed" \/ ~(Rank[s] > Rank[t]) BY <1>3 DEF AdvanceableFrom
  <2> QED BY <2>1, <1>1, <1>3
<1> QED BY <1>2, <1>3

(* A report moves the row that has its provider id, which is decided, or the *)
(* placeholder it opened.                                                    *)
LEMMA ApplyStatusKeeps ==
  ASSUME IInv, NEW p \in Pids, NEW s \in Reported, ApplyStatus(p, s)
  PROVE  IInv'
<1>i. /\ TypeOK /\ QueuedHasNoPid /\ NothingBeforeCommit /\ JobsAreSound /\ WorkersAreSound
      /\ FaultFreeIsExclusive /\ SendsArePaid /\ ReceiptsStick /\ StuckNeedsFault
  BY DEF IInv
<1>o. PICK o \in Msgs : o = p[1] BY DEF Pids
<1>g. /\ applied' = applied \union {<<p, s>>}
      /\ UNCHANGED <<sending, job, disp, accepted, allowed, acts, hits>>
  BY DEF ApplyStatus, queueVars, envVars
<1>t. /\ msg \in [Msgs -> Rows] /\ placeholder \in [Pids -> Reported \union {"none"}]
      /\ s \in Statuses
  BY <1>i, RankFacts DEF TypeOK
<1>m. /\ msg' \in [Msgs -> Rows]
      /\ \A q \in Msgs : msg'[q].pid = msg[q].pid
      /\ \A q \in Msgs \ {o} : msg'[q] = msg[q]
      /\ msg[o].pid = p => msg'[o].st = IF msg[o].st \in AdvanceableFrom(s) THEN s ELSE msg[o].st
      /\ msg[o].pid # p => msg'[o] = msg[o]
  <2>1. \A x \in Rows : /\ [x EXCEPT !.st = s] \in Rows /\ [x EXCEPT !.st = s].st = s
                        /\ [x EXCEPT !.st = s].pid = x.pid
    BY <1>t DEF Rows
  <2>2. CASE msg[o].pid = p /\ msg[o].st \in AdvanceableFrom(s)
    <3>1. msg' = [msg EXCEPT ![o] = [msg[o] EXCEPT !.st = s]] BY <2>2, <1>o DEF ApplyStatus
    <3>2. msg[o] \in Rows BY <1>t
    <3> QED BY <3>1, <3>2, <2>1, <2>2, <1>t
  <2>3. CASE msg[o].pid # p \/ msg[o].st \notin AdvanceableFrom(s)
    <3>1. msg' = msg BY <2>3, <1>o DEF ApplyStatus
    <3> QED BY <3>1, <2>3, <1>t
  <2> QED BY <2>2, <2>3
<1>q. /\ placeholder' \in [Pids -> Reported \union {"none"}]
      /\ \A q \in Pids \ {p} : placeholder'[q] = placeholder[q]
      /\ msg[o].pid # p /\ placeholder[p] = "none" => placeholder'[p] = s
      /\ msg[o].pid # p /\ placeholder[p] # "none" =>
           placeholder'[p] = IF placeholder[p] \in AdvanceableFrom(s) THEN s ELSE placeholder[p]
      /\ msg[o].pid = p => placeholder' = placeholder
  BY <1>t, <1>o DEF ApplyStatus
<1>r. \A q \in Msgs : msg'[q].st # msg[q].st =>
                       msg[q].st \notin {"none", "queued"} /\ msg'[q].st \notin {"none", "queued"}
  <2>1. msg[o].pid = p => msg[o].st \notin {"none", "queued"} BY <1>i, NoPidAssumption DEF QueuedHasNoPid
  <2> QED BY <2>1, <1>m, RankFacts
<1>1. TypeOK'
  <2>1. <<p, s>> \in Pids \X Reported OBVIOUS
  <2> QED BY <2>1, <1>i, <1>g, <1>m, <1>q DEF TypeOK
<1>2. QueuedHasNoPid' BY <1>i, <1>m, <1>r DEF QueuedHasNoPid
<1>3. NothingBeforeCommit' BY <1>i, <1>g, <1>r DEF NothingBeforeCommit
<1>4. JobsAreSound' /\ FaultFreeIsExclusive' BY <1>i, <1>g DEF JobsAreSound, FaultFreeIsExclusive
<1>5. WorkersAreSound' BY <1>i, <1>g, <1>r, WorkerHasMessage DEF WorkersAreSound, At
<1>6. StuckNeedsFault' BY <1>i, <1>g, <1>r DEF StuckNeedsFault, Carried
<1>7. SendsArePaid'
  <2>1. \A q \in Msgs : Senders(q)' = Senders(q) /\ Waits(q)' = Waits(q) BY <1>g DEF Senders, Waits
  <2> QED BY <2>1, <1>i, <1>g DEF SendsArePaid
<1>8. ReceiptsStick'
  <2> DEFINE old(x) == IF msg[x[1]].pid = x THEN msg[x[1]].st ELSE placeholder[x]
             new(x) == IF msg'[x[1]].pid = x THEN msg'[x[1]].st ELSE placeholder'[x]
  <2>1. \A x \in Pids \ {p} : x[1] \in Msgs /\ new(x) = old(x)
    <3>1. \A x \in Pids : x[1] \in Msgs BY DEF Pids
    <3> QED BY <3>1, <1>m, <1>q
  <2>2. new(p) \in Statuses /\ Rank[new(p)] >= Rank[s]
        /\ (old(p) \in Statuses => Rank[new(p)] >= Rank[old(p)])
    <3>1. CASE msg[o].pid = p
      <4>1. msg[o].st \in Statuses
        BY <3>1, <1>i, <1>t, NoPidAssumption DEF QueuedHasNoPid, Rows
      <4>2. old(p) = msg[o].st /\ new(p) = msg'[o].st BY <3>1, <1>o, <1>m
      <4> QED BY <4>1, <4>2, <3>1, <1>m, ReportAdvances
    <3>2. CASE msg[o].pid # p /\ placeholder[p] = "none"
      <4>1. old(p) = "none" /\ new(p) = s BY <3>2, <1>o, <1>m, <1>q
      <4> QED BY <4>1, <1>t, RankFacts
    <3>3. CASE msg[o].pid # p /\ placeholder[p] # "none"
      <4>1. placeholder[p] \in Statuses BY <3>3, <1>t, RankFacts
      <4>2. old(p) = placeholder[p] /\ new(p) = placeholder'[p] BY <3>3, <1>o, <1>m
      <4> QED BY <4>1, <4>2, <3>3, <1>q, ReportAdvances
    <3> QED BY <3>1, <3>2, <3>3
  <2> SUFFICES ASSUME NEW r \in applied' PROVE new(r[1]) \in Statuses /\ Rank[new(r[1])] >= Rank[r[2]]
    BY DEF ReceiptsStick
  <2>3. CASE r \in applied
    <3>1. r[1] \in Pids /\ r[2] \in Statuses BY <2>3, <1>i, RankFacts DEF TypeOK
    <3>2. old(r[1]) \in Statuses /\ Rank[old(r[1])] >= Rank[r[2]] BY <2>3, <1>i DEF ReceiptsStick
    <3> HIDE DEF old, new
    <3>3. CASE r[1] = p
      <4>1. Rank[old(p)] \in Int /\ Rank[new(p)] \in Int /\ Rank[r[2]] \in Int
        BY <2>2, <3>1, <3>2, <3>3, RankFacts
      <4> QED BY <4>1, <2>2, <3>2, <3>3
    <3>4. CASE r[1] # p BY <3>1, <3>2, <3>4, <2>1
    <3> QED BY <3>3, <3>4
  <2>4. CASE r = <<p, s>> BY <2>2, <2>4
  <2> QED BY <2>3, <2>4, <1>g
<1> QED BY <1>1, <1>2, <1>3, <1>4, <1>5, <1>6, <1>7, <1>8 DEF IInv

(* The tenant's status, and a step of another part of the system. *)
LEMMA OtherStepsKeep ==
  ASSUME IInv, ChangeTenantStatus \/ UNCHANGED vars
  PROVE  IInv'
<1>i. /\ TypeOK /\ QueuedHasNoPid /\ NothingBeforeCommit /\ JobsAreSound /\ WorkersAreSound
      /\ FaultFreeIsExclusive /\ SendsArePaid /\ ReceiptsStick /\ StuckNeedsFault
  BY DEF IInv
<1>u. UNCHANGED <<msg, placeholder, sending, job, disp, accepted, applied, hits>>
  BY DEF ChangeTenantStatus, rowVars, queueVars, metaVars, vars
<1>1. TypeOK'
  <2>1. acts' \in 0..MaxActs /\ allowed' \in BOOLEAN
    <3>1. acts \in 0..MaxActs /\ MaxActs \in Nat /\ allowed \in BOOLEAN BY <1>i, BoundsAssumption DEF TypeOK
    <3>2. acts' \in 0..MaxActs BY <3>1 DEF ChangeTenantStatus, vars
    <3>3. allowed' \in BOOLEAN BY <3>1, Zenon DEF ChangeTenantStatus, vars
    <3> QED BY <3>2, <3>3
  <2> QED BY <2>1, <1>i, <1>u DEF TypeOK
<1>2. QueuedHasNoPid' /\ ReceiptsStick' BY <1>i, <1>u, RowsKept
<1>3. NothingBeforeCommit' /\ JobsAreSound' /\ WorkersAreSound' /\ FaultFreeIsExclusive'
  BY <1>i, <1>u DEF NothingBeforeCommit, JobsAreSound, WorkersAreSound, FaultFreeIsExclusive
<1>4. SendsArePaid'
  <2>1. \A q \in Msgs : Senders(q)' = Senders(q) /\ Waits(q)' = Waits(q) BY <1>u DEF Senders, Waits
  <2> QED BY <2>1, <1>i, <1>u DEF SendsArePaid
<1>5. StuckNeedsFault' BY <1>i, <1>u DEF StuckNeedsFault, Carried
<1> QED BY <1>1, <1>2, <1>3, <1>4, <1>5 DEF IInv

-----------------------------------------------------------------------------
(* Initially nothing was committed. *)
LEMMA InitIInv == Init => IInv
<1> SUFFICES ASSUME Init PROVE IInv OBVIOUS
<1>n. NoJob.st = "none" /\ NoJob.owner = NoDispatcher /\ NoJob.tries = 0 /\ NoJob \in Jobs
  BY DEF NoJob, Jobs, JobStates
<1>d. Idle.pc = "idle" /\ Idle.o = NoMsg /\ Idle \in DispStates
  BY BoundsAssumption DEF Idle, DispStates, PCs
<1>s. /\ msg = [o \in Msgs |-> [st |-> "none", pid |-> NoPid]] /\ sending = {} /\ applied = {}
      /\ \A o \in Msgs : job[o] = NoJob /\ accepted[o] = 0 /\ hits[o] = 0 /\ msg[o].st = "none"
      /\ \A d \in Dispatchers : disp[d] = Idle
  BY DEF Init
<1>1. TypeOK
  <2>1. /\ msg \in [Msgs -> Rows] /\ placeholder \in [Pids -> Reported \union {"none"}]
        /\ job \in [Msgs -> Jobs] /\ disp \in [Dispatchers -> DispStates]
    BY <1>n, <1>d DEF Init, Rows
  <2>2. accepted \in [Msgs -> 0..MaxAccepts] /\ hits \in [Msgs -> 0..MaxHits] /\ acts \in 0..MaxActs
    BY BoundsAssumption DEF Init
  <2> QED BY <2>1, <2>2 DEF Init, TypeOK
<1>2. QueuedHasNoPid BY DEF Init, QueuedHasNoPid
<1>3. NothingBeforeCommit BY <1>s, <1>n, <1>d, NoneAssumption DEF NothingBeforeCommit
<1>4. JobsAreSound
  <2>1. 0 < MaxAttempts BY BoundsAssumption
  <2>2. \A o \in Msgs : job[o].tries = 0 /\ job[o].owner = NoDispatcher BY <1>s, <1>n
  <2> QED BY <2>1, <2>2 DEF JobsAreSound
<1>5. WorkersAreSound BY <1>s, <1>d DEF WorkersAreSound
<1>6. FaultFreeIsExclusive BY <1>s, <1>n, <1>d, NoneAssumption DEF FaultFreeIsExclusive
<1>7. SendsArePaid
  <2>1. \A o \in Msgs : Senders(o) = {} /\ Waits(o) = 0
    BY <1>s, <1>n, <1>d, NoneAssumption DEF Senders, Waits
  <2>2. IsFiniteSet({}) /\ Cardinality({}) = 0 BY FS_EmptySet
  <2>3. \A o \in Msgs : accepted[o] = 0 /\ hits[o] = 0 BY <1>s
  <2>4. \A o \in Msgs : Cardinality(Senders(o)) = 0 /\ IsFiniteSet(Senders(o)) BY <2>1, <2>2
  <2> SUFFICES ASSUME NEW o \in Msgs
               PROVE  /\ IsFiniteSet(Senders(o))
                      /\ accepted[o] + Cardinality(Senders(o)) + Waits(o) <= 1 + hits[o]
    BY DEF SendsArePaid
  <2>5. accepted[o] = 0 /\ hits[o] = 0 /\ Waits(o) = 0 /\ Cardinality(Senders(o)) = 0
    BY <2>1, <2>3, <2>4
  <2> QED BY <2>4, <2>5
<1>8. ReceiptsStick BY <1>s DEF ReceiptsStick
<1>9. StuckNeedsFault BY <1>s DEF StuckNeedsFault
<1> QED BY <1>1, <1>2, <1>3, <1>4, <1>5, <1>6, <1>7, <1>8, <1>9 DEF IInv

(* Every step keeps IInv. *)
LEMMA NextIInv == IInv /\ [Next]_vars => IInv'
<1> SUFFICES ASSUME IInv, [Next]_vars PROVE IInv' OBVIOUS
<1>1. ASSUME NEW d \in Dispatchers, Deliver(d) \/ Crash(d) PROVE IInv'
  BY <1>1, BeforeTheCall, TheCallIsAccepted, RecordingKeeps, WorkerEndsKeeps DEF Deliver
<1>2. ASSUME NEW d \in Dispatchers, LockExpires(d) PROVE IInv'
  <2>1. disp[d].o \in Msgs BY <1>2, WorkerHasMessage DEF IInv, LockExpires
  <2> QED BY <1>2, <2>1, QueueKeeps
<1>3. ASSUME NEW o \in Msgs, CommitMessage(o) \/ QueueDelivery(o) \/ StallCheck(o) \/ Forget(o) PROVE IInv'
  BY <1>3, CommitMessageKeeps, QueueKeeps
<1>4. ASSUME NEW d \in Dispatchers, NEW o \in Msgs, PickUp(d, o) PROVE IInv'
  BY <1>4, PickUpKeeps
<1>5. ASSUME NEW p \in Pids, NEW s \in Reported, ApplyStatus(p, s) PROVE IInv'
  BY <1>5, ApplyStatusKeeps
<1>6. CASE ChangeTenantStatus \/ UNCHANGED vars BY <1>6, OtherStepsKeep
<1> QED BY <1>1, <1>2, <1>3, <1>4, <1>5, <1>6 DEF Next

(* IInv holds in every behaviour of the specification. *)
THEOREM IInvInvariant == Spec => []IInv
<1> QED BY InitIInv, NextIInv, PTL DEF Spec

(* Rows, jobs, workers and counters keep their types.                        *)
THEOREM OutboundTypes == Spec => []TypeOK
<1>1. IInv => TypeOK BY DEF IInv
<1> QED BY IInvInvariant, <1>1, PTL

(* applyStatusUpdate and recordSent lose no receipt, in whatever order they  *)
(* come.                                                                     *)
THEOREM NoReceiptIsLost == Spec => []ReceiptsStick
<1>1. IInv => ReceiptsStick BY DEF IInv
<1> QED BY IInvInvariant, <1>1, PTL

(* Meta accepts a message once, and once more for each fault that hit it.    *)
THEOREM SecondSendsNeedFaults == Spec => []SecondSendNeedsFault
<1>1. IInv => SecondSendNeedsFault
  <2> SUFFICES ASSUME IInv, NEW o \in Msgs PROVE accepted[o] <= 1 + hits[o] BY DEF SecondSendNeedsFault
  <2>1. IsFiniteSet(Senders(o)) /\ accepted[o] + Cardinality(Senders(o)) + Waits(o) <= 1 + hits[o]
    BY DEF IInv, SendsArePaid
  <2>2. Cardinality(Senders(o)) \in Nat /\ Waits(o) \in Nat BY <2>1, FS_CardinalityType DEF Waits
  <2>3. accepted[o] \in Nat /\ hits[o] \in Nat BY BoundsAssumption DEF IInv, TypeOK
  <2> QED BY <2>1, <2>2, <2>3
<1> QED BY IInvInvariant, <1>1, PTL

(* A queued message that met no fault still has its request, job or worker.  *)
THEOREM StuckMessagesNeedFaults == Spec => []StuckNeedsFault
<1>1. IInv => StuckNeedsFault BY DEF IInv
<1> QED BY IInvInvariant, <1>1, PTL

(* No step moves a status backwards, reopens a failure or changes a recorded *)
(* provider id.                                                              *)
THEOREM StatusesMoveForward == Spec => StatusForward
<1>1. IInv /\ [Next]_vars => [\A o \in Msgs : Forward(msg[o], msg'[o])]_vars
  <2> SUFFICES ASSUME IInv, Next, NEW o \in Msgs PROVE Forward(msg[o], msg'[o]) OBVIOUS
  <2>i. TypeOK /\ QueuedHasNoPid /\ WorkersAreSound BY DEF IInv
  <2>1. CASE msg' = msg BY <2>1 DEF Forward
  <2>2. ASSUME NEW q \in Msgs, CommitMessage(q) PROVE Forward(msg[o], msg'[o])
    BY <2>2, <2>i DEF CommitMessage, Forward, TypeOK
  <2>3. ASSUME NEW d \in Dispatchers, RecordSent(d) \/ RecordFailed(d), msg' # msg
        PROVE  Forward(msg[o], msg'[o])
    <3>1. ~At(d, "idle") BY <2>3 DEF RecordSent, RecordFailed, At
    <3>2. PICK q \in Msgs : q = disp[d].o BY <3>1, <2>i, WorkerHasMessage
    <3>3. msg[q].st = "queued" /\ \A k \in Msgs \ {q} : msg'[k] = msg[k]
      BY <2>3, <2>i, <3>2 DEF RecordSent, RecordFailed, StillQueued, TypeOK
    <3>4. msg'[q].st \in {"sent", "failed"}
      <4>1. \A x \in Rows : [x EXCEPT !.st = "failed"].st = "failed" BY DEF Rows
      <4>2. msg \in [Msgs -> Rows] BY <2>i DEF TypeOK
      <4>3. CASE RecordSent(d)
        <5>1. msg' = [msg EXCEPT ![q] = [st |-> "sent", pid |-> disp[d].pid]]
          BY <4>3, <2>3, <3>2 DEF RecordSent
        <5> QED BY <5>1, <4>2
      <4>4. CASE RecordFailed(d)
        <5>1. msg' = [msg EXCEPT ![q] = [msg[q] EXCEPT !.st = "failed"]]
          BY <4>4, <2>3, <3>2 DEF RecordFailed
        <5>2. msg[q] \in Rows BY <4>2
        <5> QED BY <5>1, <5>2, <4>1, <4>2
      <4> QED BY <4>3, <4>4, <2>3
    <3>5. msg[q].pid = NoPid BY <3>3, <2>i DEF QueuedHasNoPid
    <3> QED BY <3>3, <3>4, <3>5, RankFacts DEF Forward
  <2>4. ASSUME NEW p \in Pids, NEW s \in Reported, ApplyStatus(p, s), msg' # msg
        PROVE  Forward(msg[o], msg'[o])
    <3>1. PICK q \in Msgs : q = p[1] BY DEF Pids
    <3>2. /\ msg[q].st \in AdvanceableFrom(s) /\ msg' = [msg EXCEPT ![q] = [msg[q] EXCEPT !.st = s]]
      BY <2>4, <3>1 DEF ApplyStatus
    <3>3. \A x \in Rows : [x EXCEPT !.st = s].st = s /\ [x EXCEPT !.st = s].pid = x.pid BY DEF Rows
    <3>4. msg \in [Msgs -> Rows] BY <2>i DEF TypeOK
    <3>5. /\ \A k \in Msgs \ {q} : msg'[k] = msg[k]
          /\ msg'[q].st = s /\ msg'[q].pid = msg[q].pid
      BY <3>2, <3>3, <3>4
    <3> QED BY <3>2, <3>5 DEF Forward, AdvanceableFrom
  <2>5. \/ msg' = msg
        \/ \E q \in Msgs : CommitMessage(q)
        \/ \E d \in Dispatchers : RecordSent(d) \/ RecordFailed(d)
        \/ \E p \in Pids, s \in Reported : ApplyStatus(p, s)
    BY DEF Next, Deliver, QueueDelivery, StallCheck, Forget, Load, StatusRefusingOutbound, SendAccepted,
           SendRejected, SendUnavailable, SendTimesOut, Return, Throw, Crash, LockExpires, PickUp,
           ChangeTenantStatus, rowVars
  <2> QED BY <2>1, <2>2, <2>3, <2>4, <2>5
<1> QED BY IInvInvariant, <1>1, PTL DEF Spec, StatusForward
================================================================================
