------------------------- MODULE IdempotencyKeysProofs -------------------------
(***************************************************************************)
(* Proofs for IdempotencyKeys: for any number of requests, bodies and      *)
(* passes of the claim's loop, IInv is inductive and implies that one      *)
(* request is at work, that replays are faithful and that work repeats     *)
(* only after a fault.                                                     *)
(***************************************************************************)
EXTENDS IdempotencyKeys, TLAPS

Rows == [pc : PCs, attempt : 1..ClaimAttempts, now : 0..MaxExpiries]
Replies == [kind : Answers, from : Requests \union {NoRequest}]

(* A jump moves the program counter of one request and nothing else. *)
LEMMA GotoFrame ==
  ASSUME NEW r \in Requests, NEW p \in PCs, req \in [Requests -> Rows], Goto(r, p)
  PROVE  /\ req' \in [Requests -> Rows]
         /\ req'[r].pc = p
         /\ \A s \in Requests \ {r} : req'[s] = req[s]
<1>1. \A x \in Rows : [x EXCEPT !.pc = p] \in Rows /\ [x EXCEPT !.pc = p].pc = p
  BY DEF Rows
<1>2. req[r] \in Rows
  OBVIOUS
<1> QED BY <1>1, <1>2 DEF Goto

(* An answer ends one request and leaves the others where they were. *)
LEMMA EndFrame ==
  ASSUME NEW r \in Requests, NEW k \in Answers, NEW f \in Requests \union {NoRequest},
         req \in [Requests -> Rows], answer \in [Requests -> Replies], End(r, k, f)
  PROVE  /\ req' \in [Requests -> Rows]
         /\ req'[r].pc = "end"
         /\ \A s \in Requests \ {r} : req'[s] = req[s]
         /\ answer' \in [Requests -> Replies]
         /\ answer'[r].kind = k /\ answer'[r].from = f
         /\ \A s \in Requests \ {r} : answer'[s] = answer[s]
<1>1. "end" \in PCs BY DEF PCs
<1>2. /\ [kind |-> k, from |-> f] \in Replies
      /\ [kind |-> k, from |-> f].kind = k /\ [kind |-> k, from |-> f].from = f
  BY DEF Replies
<1>3. Goto(r, "end") /\ answer' = [answer EXCEPT ![r] = [kind |-> k, from |-> f]]
  BY DEF End
<1>4. answer' \in [Requests -> Replies] /\ answer'[r].kind = k /\ answer'[r].from = f
  BY <1>2, <1>3
<1>5. \A s \in Requests \ {r} : answer'[s] = answer[s] BY <1>3
<1> QED BY <1>1, <1>3, <1>4, <1>5, GotoFrame

(* The next pass of claim's loop starts at the insert, or the claim ends. *)
LEMMA AgainFrame ==
  ASSUME NEW r \in Requests, req \in [Requests -> Rows], answer \in [Requests -> Replies],
         expiries \in 0..MaxExpiries, Again(r)
  PROVE  /\ req' \in [Requests -> Rows]
         /\ req'[r].pc \in {"insert", "end"}
         /\ \A s \in Requests \ {r} : req'[s] = req[s]
         /\ answer' \in [Requests -> Replies]
         /\ \A s \in Requests \ {r} : answer'[s] = answer[s]
         /\ answer'[r] = answer[r] \/ answer'[r].kind = "in_flight"
<1>1. CASE HasPass(r)
  <2> DEFINE row == [pc |-> "insert", attempt |-> req[r].attempt + 1, now |-> expiries]
  <2>1. req[r] \in Rows OBVIOUS
  <2>2. req[r].attempt + 1 \in 1..ClaimAttempts
    BY <1>1, <2>1, BoundsAssumption DEF HasPass, Rows
  <2>3. row \in Rows BY <2>2 DEF Rows, PCs
  <2>4. row.pc = "insert" OBVIOUS
  <2>5. req' = [req EXCEPT ![r] = row] /\ answer' = answer BY <1>1 DEF Again
  <2> HIDE DEF row
  <2> QED BY <2>3, <2>4, <2>5
<1>2. CASE ~HasPass(r)
  <2>1. End(r, "in_flight", NoRequest) BY <1>2 DEF Again
  <2>2. "in_flight" \in Answers BY DEF Answers
  <2> QED BY <2>1, <2>2, EndFrame
<1> QED BY <1>1, <1>2

(* Initially no request has started and the key is free. *)
LEMMA InitIInv == Init => IInv
BY BoundsAssumption
DEF Init, IInv, TypeOK, Keys, NoKey, KeyStates, PCs, Answers, HolderIsAtWork, Working,
    OwnerIsKnown, DoneHoldsKey, ReplayIsFaithful

(* The parts of IInv about the answers follow from what one answer adds. *)
LEMMA ReplayFrame ==
  ASSUME IInv, NEW r \in Requests, done \subseteq done',
         \A s \in Requests \ {r} : answer'[s] = answer[s],
         \/ answer'[r] = answer[r]
         \/ answer'[r].kind # "replayed"
         \/ answer'[r].from \in done' /\ HashOf[answer'[r].from] = HashOf[r]
  PROVE  ReplayIsFaithful'
BY DEF IInv, ReplayIsFaithful

LEMMA NextIInv == IInv /\ [Next]_vars => IInv'
<1> SUFFICES ASSUME IInv, [Next]_vars PROVE IInv'
  OBVIOUS
<1> USE BoundsAssumption, NoRequestAssumption
<1>t. /\ key \in Keys /\ req \in [Requests -> Rows] /\ answer \in [Requests -> Replies]
      /\ done \subseteq Requests /\ lifetime \subseteq done /\ late \in Nat
      /\ faults \in 0..MaxFaults /\ expiries \in 0..MaxExpiries
  BY DEF IInv, TypeOK, Rows, Replies
<1>k. /\ key.st \in KeyStates /\ key.by \in Requests \union {NoRequest} /\ key.expired \in BOOLEAN
      /\ key = [st |-> key.st, by |-> key.by, expired |-> key.expired]
  BY <1>t DEF Keys
<1>h. HolderIsAtWork /\ OwnerIsKnown /\ DoneHoldsKey /\ ReplayIsFaithful
  BY DEF IInv
<1>p. {"new", "insert", "look", "delete", "work", "complete", "release", "end"} = PCs
  BY DEF PCs
<1>q. Answers = {"none", "executed", "replayed", "reused", "in_flight", "error"}
  BY DEF Answers
<1>1. ASSUME NEW r \in Requests, Arrive(r) PROVE IInv'
  <2> DEFINE row == [pc |-> "insert", attempt |-> 1, now |-> expiries]
  <2>1. row \in Rows BY <1>t DEF Rows, PCs
  <2>2. row.pc = "insert" OBVIOUS
  <2>3. /\ req' = [req EXCEPT ![r] = row] /\ UNCHANGED <<key, answer, done, lifetime, late, faults, expiries>>
        /\ req[r].pc = "new"
    BY <1>1 DEF Arrive, At, ghostVars, boundVars
  <2> HIDE DEF row
  <2>4. TypeOK' BY <2>1, <2>3, <1>t DEF TypeOK, Rows, Replies
  <2>5. HolderIsAtWork' BY <2>1, <2>2, <2>3, <1>t, <1>h DEF HolderIsAtWork, Working
  <2>6. OwnerIsKnown' /\ ReplayIsFaithful' BY <2>2, <2>3, <1>t, <1>h DEF OwnerIsKnown, ReplayIsFaithful
  <2>7. DoneHoldsKey' BY <2>2, <2>3, <1>t, <1>h DEF DoneHoldsKey, OwnerIsKnown
  <2> QED BY <2>4, <2>5, <2>6, <2>7 DEF IInv
<1>2. ASSUME NEW r \in Requests, ClaimInsert(r) PROVE IInv'
  <2>1. UNCHANGED <<answer, done, lifetime, late, faults, expiries>> /\ req[r].pc = "insert"
    BY <1>2 DEF ClaimInsert, At, ghostVars, boundVars
  <2>2. CASE /\ key.st = "none" /\ Goto(r, "work")
             /\ key' = [st |-> "in_progress", by |-> r, expired |-> FALSE]
    <3>1. /\ req' \in [Requests -> Rows] /\ req'[r].pc = "work"
          /\ \A s \in Requests \ {r} : req'[s] = req[s]
      BY <2>2, <1>t, <1>p, GotoFrame
    <3>2. TypeOK' BY <2>1, <2>2, <3>1, <1>t DEF TypeOK, Rows, Replies, Keys, KeyStates
    <3>3. HolderIsAtWork'
      <4>1. Working = {} BY <2>2, <1>h DEF HolderIsAtWork
      <4>2. Working' = {r} BY <4>1, <3>1 DEF Working
      <4> QED BY <4>2, <2>2 DEF HolderIsAtWork
    <3>4. OwnerIsKnown' BY <2>1, <2>2, <3>1, <1>h DEF OwnerIsKnown
    <3>5. ReplayIsFaithful' BY <2>1, <1>h DEF ReplayIsFaithful
    <3>6. DoneHoldsKey' BY <2>1, <2>2, <1>h DEF DoneHoldsKey
    <3> QED BY <3>2, <3>3, <3>4, <3>5, <3>6 DEF IInv
  <2>3. CASE key.st # "none" /\ Goto(r, "look") /\ UNCHANGED key
    <3>1. /\ req' \in [Requests -> Rows] /\ req'[r].pc = "look"
          /\ \A s \in Requests \ {r} : req'[s] = req[s]
      BY <2>3, <1>t, <1>p, GotoFrame
    <3>2. TypeOK' BY <2>1, <2>3, <3>1, <1>t DEF TypeOK, Rows, Replies
    <3>3. HolderIsAtWork' BY <2>3, <3>1, <1>h DEF HolderIsAtWork, Working
    <3>4. OwnerIsKnown' /\ ReplayIsFaithful' BY <2>1, <2>3, <3>1, <1>h DEF OwnerIsKnown, ReplayIsFaithful
    <3>5. DoneHoldsKey' BY <2>1, <2>3, <3>1, <1>h DEF DoneHoldsKey, OwnerIsKnown
    <3> QED BY <3>2, <3>3, <3>4, <3>5 DEF IInv
  <2> QED BY <1>2, <2>2, <2>3 DEF ClaimInsert
<1>3. ASSUME NEW r \in Requests, ClaimLook(r) PROVE IInv'
  <2>1. UNCHANGED <<key, done, lifetime, late, faults, expiries>> /\ req[r].pc = "look"
    BY <1>3 DEF ClaimLook, At, ghostVars, boundVars
  <2>2. /\ req' \in [Requests -> Rows] /\ req'[r].pc \in {"insert", "delete", "end"}
        /\ \A s \in Requests \ {r} : req'[s] = req[s]
        /\ answer' \in [Requests -> Replies]
        /\ \A s \in Requests \ {r} : answer'[s] = answer[s]
        /\ \/ answer'[r] = answer[r]
           \/ answer'[r].kind # "replayed"
           \/ answer'[r].from \in done' /\ HashOf[answer'[r].from] = HashOf[r]
    <3>1. CASE Again(r) BY <3>1, <1>t, AgainFrame
    <3>2. CASE Goto(r, "delete") /\ UNCHANGED answer BY <3>2, <1>t, <1>p, GotoFrame
    <3>3. CASE End(r, "reused", NoRequest) BY <3>3, <1>t, <1>q, EndFrame
    <3>4. CASE End(r, "in_flight", NoRequest) BY <3>4, <1>t, <1>q, EndFrame
    <3>5. CASE key.st = "completed" /\ SameRequest(r) /\ End(r, "replayed", key.by)
      <4>1. key.by \in done /\ HashOf[key.by] = HashOf[r]
        BY <3>5, <1>h DEF SameRequest, Held, OwnerIsKnown
      <4>2. /\ req' \in [Requests -> Rows] /\ req'[r].pc = "end"
            /\ \A s \in Requests \ {r} : req'[s] = req[s]
            /\ answer' \in [Requests -> Replies] /\ answer'[r].from = key.by
            /\ \A s \in Requests \ {r} : answer'[s] = answer[s]
        BY <3>5, <1>t, <1>k, <1>q, EndFrame
      <4> QED BY <4>1, <4>2, <2>1
    <3> QED BY <1>3, <3>1, <3>2, <3>3, <3>4, <3>5 DEF ClaimLook
  <2>3. TypeOK' BY <2>1, <2>2, <1>t DEF TypeOK, Rows, Replies
  <2>4. HolderIsAtWork' BY <2>1, <2>2, <1>h DEF HolderIsAtWork, Working
  <2>5. OwnerIsKnown' BY <2>1, <2>2, <1>h DEF OwnerIsKnown
  <2>6. DoneHoldsKey' BY <2>1, <2>2, <1>h DEF DoneHoldsKey, OwnerIsKnown
  <2>7. ReplayIsFaithful' BY <2>1, <2>2, ReplayFrame
  <2> QED BY <2>3, <2>4, <2>5, <2>6, <2>7 DEF IInv
<1>4. ASSUME NEW r \in Requests, ClaimDelete(r) PROVE IInv'
  <2>1. /\ UNCHANGED <<done, lifetime, late, faults, expiries>> /\ req[r].pc = "delete"
        /\ Again(r) /\ key' = IF DeletesExpired(r) THEN NoKey ELSE key
    BY <1>4 DEF ClaimDelete, At, ghostVars, boundVars
  <2>2. /\ req' \in [Requests -> Rows] /\ req'[r].pc \in {"insert", "end"}
        /\ \A s \in Requests \ {r} : req'[s] = req[s]
        /\ answer' \in [Requests -> Replies]
        /\ \A s \in Requests \ {r} : answer'[s] = answer[s]
        /\ answer'[r] = answer[r] \/ answer'[r].kind = "in_flight"
    BY <2>1, <1>t, AgainFrame
  <2>3. key' = key \/ (key.expired /\ key' = NoKey) BY <2>1 DEF DeletesExpired, PastFor
  <2>4. NoKey \in Keys /\ NoKey.st = "none" BY DEF NoKey, Keys, KeyStates
  <2>5. TypeOK' BY <2>1, <2>2, <2>3, <2>4, <1>t DEF TypeOK, Rows, Replies
  <2>6. HolderIsAtWork'
    <3>1. \A s \in Working' : s \in Working /\ ~key.expired
      BY <2>2, <1>h DEF HolderIsAtWork, Working
    <3> QED BY <3>1, <2>3, <1>h DEF HolderIsAtWork
  <2>7. OwnerIsKnown' BY <2>1, <2>2, <2>3, <2>4, <1>h DEF OwnerIsKnown
  <2>8. DoneHoldsKey' BY <2>1, <2>2, <2>3, <1>h DEF DoneHoldsKey, OwnerIsKnown
  <2>9. ReplayIsFaithful' BY <2>1, <2>2, ReplayFrame
  <2> QED BY <2>5, <2>6, <2>7, <2>8, <2>9 DEF IInv
<1>5. ASSUME NEW r \in Requests, Work(r) PROVE IInv'
  <2>1. UNCHANGED <<key, answer, expiries>> /\ req[r].pc = "work" /\ r \in Working
    BY <1>5 DEF Work, At, Working
  <2>2. key = [st |-> "in_progress", by |-> r, expired |-> FALSE]
    BY <2>1, <1>h DEF HolderIsAtWork
  <2>3. lifetime = {} \/ late # 0
    BY <2>1, <2>2, <1>h DEF DoneHoldsKey
  <2>4. PICK p \in {"complete", "release"} : Goto(r, p)
    BY <1>5 DEF Work
  <2>5. /\ req' \in [Requests -> Rows] /\ req'[r].pc = p
        /\ \A s \in Requests \ {r} : req'[s] = req[s]
    BY <2>4, <1>t, <1>p, GotoFrame
  <2>6. /\ done \subseteq done' /\ done' \subseteq Requests /\ lifetime' \subseteq done'
        /\ late' \in Nat /\ faults' \in 0..MaxFaults
    BY <1>5, <1>t DEF Work, Fault, ghostVars
  <2>7. TypeOK' BY <2>1, <2>5, <2>6, <1>t DEF TypeOK, Rows, Replies
  <2>8. HolderIsAtWork' BY <2>1, <2>5, <1>h DEF HolderIsAtWork, Working
  <2>9. OwnerIsKnown'
    <3>1. p = "complete" => r \in done'
      BY <1>5, <2>4, <1>t, <1>p, <2>5, GotoFrame DEF Work
    <3> QED BY <3>1, <2>1, <2>2, <2>5, <2>6, <1>h DEF OwnerIsKnown
  <2>10. ReplayIsFaithful' BY <2>1, <2>6, ReplayFrame
  <2>11. \/ lifetime' = lifetime \union {r} /\ late' = late /\ Goto(r, "complete")
         \/ lifetime' = lifetime /\ late' = late
         \/ late' = late + 1
    BY <1>5 DEF Work, ghostVars
  <2>12. DoneHoldsKey'
    <3>1. CASE lifetime' = lifetime \union {r} /\ late' = late /\ Goto(r, "complete")
      <4>1. req'[r].pc = "complete" BY <3>1, <1>t, <1>p, GotoFrame
      <4>2. key' = key /\ key.st # "none" /\ ~key.expired /\ key.by = r BY <2>1, <2>2
      <4> QED BY <4>1, <4>2, <2>3, <3>1 DEF DoneHoldsKey
    <3>2. CASE lifetime' = lifetime /\ late' = late BY <3>2, <2>3 DEF DoneHoldsKey
    <3>3. CASE late' = late + 1 BY <3>3, <1>t DEF DoneHoldsKey
    <3> QED BY <2>11, <3>1, <3>2, <3>3
  <2> QED BY <2>7, <2>8, <2>9, <2>10, <2>12 DEF IInv
<1>6. ASSUME NEW r \in Requests, Complete(r) PROVE IInv'
  <2>1. UNCHANGED <<done, lifetime, expiries>> /\ req[r].pc = "complete" /\ r \in Working
    BY <1>6 DEF Complete, At, Working
  <2>2. key = [st |-> "in_progress", by |-> r, expired |-> FALSE] /\ Mine(r)
    BY <2>1, <1>h DEF HolderIsAtWork, Mine, Held
  <2>3. CASE /\ key' = IF Mine(r) THEN Completed ELSE key
             /\ End(r, "executed", r) /\ UNCHANGED <<late, faults>>
    <3>1. /\ req' \in [Requests -> Rows] /\ req'[r].pc = "end"
          /\ \A s \in Requests \ {r} : req'[s] = req[s]
          /\ answer' \in [Requests -> Replies] /\ answer'[r].kind = "executed"
          /\ \A s \in Requests \ {r} : answer'[s] = answer[s]
      BY <2>3, <1>t, <1>q, EndFrame
    <3>2. key' = [st |-> "completed", by |-> r, expired |-> FALSE]
      BY <2>2, <2>3 DEF Completed
    <3>3. TypeOK'
      <4>1. key' \in Keys BY <3>2 DEF Keys, KeyStates
      <4> QED BY <2>1, <2>3, <3>1, <4>1, <1>t DEF TypeOK, Rows, Replies
    <3>4. HolderIsAtWork'
      <4>1. \A s \in Working' : s \in Working /\ s # r BY <3>1 DEF Working
      <4> QED BY <4>1, <2>2, <1>h DEF HolderIsAtWork
    <3>5. OwnerIsKnown'
      BY <2>1, <3>1, <3>2, <1>h DEF OwnerIsKnown
    <3>6. DoneHoldsKey'
      BY <2>1, <2>2, <2>3, <3>2, <1>h DEF DoneHoldsKey
    <3>7. ReplayIsFaithful' BY <2>1, <3>1, ReplayFrame
    <3> QED BY <3>3, <3>4, <3>5, <3>6, <3>7 DEF IInv
  <2>4. CASE Goto(r, "release") /\ Fault /\ late' = late + 1 /\ UNCHANGED <<key, answer>>
    <3>1. /\ req' \in [Requests -> Rows] /\ req'[r].pc = "release"
          /\ \A s \in Requests \ {r} : req'[s] = req[s]
      BY <2>4, <1>t, <1>p, GotoFrame
    <3>2. TypeOK' BY <2>1, <2>4, <3>1, <1>t DEF TypeOK, Rows, Replies, Fault
    <3>3. HolderIsAtWork' BY <2>1, <2>4, <3>1, <1>h DEF HolderIsAtWork, Working
    <3>4. OwnerIsKnown' BY <2>1, <2>4, <3>1, <1>h DEF OwnerIsKnown
    <3>5. DoneHoldsKey' BY <2>4, <1>t DEF DoneHoldsKey
    <3>6. ReplayIsFaithful' BY <2>1, <2>4, <1>h DEF ReplayIsFaithful
    <3> QED BY <3>2, <3>3, <3>4, <3>5, <3>6 DEF IInv
  <2> QED BY <1>6, <2>3, <2>4 DEF Complete
<1>7. ASSUME NEW r \in Requests, Release(r) PROVE IInv'
  <2>1. /\ UNCHANGED <<done, lifetime, late, expiries>> /\ req[r].pc = "release" /\ r \in Working
        /\ End(r, "error", NoRequest)
    BY <1>7 DEF Release, At, Working, ghostVars
  <2>2. key = [st |-> "in_progress", by |-> r, expired |-> FALSE]
    BY <2>1, <1>h DEF HolderIsAtWork
  <2>3. /\ req' \in [Requests -> Rows] /\ req'[r].pc = "end"
        /\ \A s \in Requests \ {r} : req'[s] = req[s]
        /\ answer' \in [Requests -> Replies] /\ answer'[r].kind = "error"
        /\ \A s \in Requests \ {r} : answer'[s] = answer[s]
    BY <2>1, <1>t, <1>q, EndFrame
  <2>4. (key' = key \/ key' = NoKey) /\ faults' \in 0..MaxFaults
    BY <1>7, <1>t DEF Release, Fault
  <2>5. NoKey \in Keys /\ NoKey.st = "none" BY DEF NoKey, Keys, KeyStates
  <2>6. TypeOK' BY <2>1, <2>3, <2>4, <2>5, <1>t DEF TypeOK, Rows, Replies
  <2>7. HolderIsAtWork'
    <3>1. \A s \in Working' : s \in Working /\ s # r BY <2>3 DEF Working
    <3> QED BY <3>1, <2>2, <1>h DEF HolderIsAtWork
  <2>8. OwnerIsKnown' BY <2>1, <2>3, <2>4, <2>5, <1>h DEF OwnerIsKnown
  <2>9. DoneHoldsKey' BY <2>1, <2>2, <1>h DEF DoneHoldsKey
  <2>10. ReplayIsFaithful' BY <2>1, <2>3, ReplayFrame
  <2> QED BY <2>6, <2>7, <2>8, <2>9, <2>10 DEF IInv
<1>8. ASSUME NEW r \in Requests, Crash(r) PROVE IInv'
  <2>1. /\ UNCHANGED <<key, done, lifetime, late, expiries>> /\ faults' \in 0..MaxFaults
        /\ End(r, "error", NoRequest)
    BY <1>8, <1>t DEF Crash, Fault, ghostVars
  <2>2. /\ req' \in [Requests -> Rows] /\ req'[r].pc = "end"
        /\ \A s \in Requests \ {r} : req'[s] = req[s]
        /\ answer' \in [Requests -> Replies] /\ answer'[r].kind = "error"
        /\ \A s \in Requests \ {r} : answer'[s] = answer[s]
    BY <2>1, <1>t, <1>q, EndFrame
  <2>3. TypeOK' BY <2>1, <2>2, <1>t DEF TypeOK, Rows, Replies
  <2>4. HolderIsAtWork' BY <2>1, <2>2, <1>h DEF HolderIsAtWork, Working
  <2>5. OwnerIsKnown' BY <2>1, <2>2, <1>h DEF OwnerIsKnown
  <2>6. DoneHoldsKey' BY <2>1, <2>2, <1>h DEF DoneHoldsKey, OwnerIsKnown
  <2>7. ReplayIsFaithful' BY <2>1, <2>2, ReplayFrame
  <2> QED BY <2>3, <2>4, <2>5, <2>6, <2>7 DEF IInv
<1>9. ASSUME Expire PROVE IInv'
  <2>1. /\ UNCHANGED <<req, answer, done, faults>> /\ lifetime' = {} /\ late' = 0
        /\ key' = [key EXCEPT !.expired = TRUE] /\ expiries' \in 0..MaxExpiries
        /\ Working = {}
    BY <1>9, <1>t DEF Expire, Working
  <2>2. key' \in Keys /\ key'.st = key.st /\ key'.by = key.by
    BY <2>1, <1>t DEF Keys
  <2>3. TypeOK' BY <2>1, <2>2, <1>t DEF TypeOK, Rows, Replies
  <2>4. HolderIsAtWork' BY <2>1 DEF HolderIsAtWork, Working
  <2>5. OwnerIsKnown' /\ DoneHoldsKey' /\ ReplayIsFaithful'
    BY <2>1, <2>2, <1>h DEF OwnerIsKnown, DoneHoldsKey, ReplayIsFaithful
  <2> QED BY <2>3, <2>4, <2>5 DEF IInv
<1>10. CASE UNCHANGED vars
  BY <1>10 DEF vars, IInv, TypeOK, HolderIsAtWork, Working, OwnerIsKnown, DoneHoldsKey,
               ReplayIsFaithful
<1> QED
  BY <1>1, <1>2, <1>3, <1>4, <1>5, <1>6, <1>7, <1>8, <1>9, <1>10 DEF Next

(* IInv holds in every reachable state. *)
THEOREM IInvInvariant == Spec => []IInv
<1>1. IInv /\ [Next]_vars => IInv' BY NextIInv
<1> QED BY InitIInv, <1>1, PTL DEF Spec

(* execute and claim keep every variable in its type. *)
THEOREM TypeCorrect == Spec => []TypeOK
<1>1. IInv => TypeOK BY DEF IInv
<1> QED BY IInvInvariant, <1>1, PTL

(* However many requests find the key free or expired at once, one of them   *)
(* runs the work at a time: the row names whoever is at work.                *)
THEOREM WorkIsExclusive == Spec => []OneAtWork
<1>1. ASSUME IInv PROVE OneAtWork
  <2> SUFFICES ASSUME NEW r \in Working, NEW s \in Working PROVE r = s
    BY DEF OneAtWork
  <2>1. /\ key = [st |-> "in_progress", by |-> r, expired |-> FALSE]
        /\ key = [st |-> "in_progress", by |-> s, expired |-> FALSE]
    BY <1>1 DEF IInv, HolderIsAtWork
  <2>2. key.by = r /\ key.by = s BY <2>1
  <2> QED BY <2>2
<1> QED BY IInvInvariant, <1>1, PTL

(* claim answers a replay with the response of work done for the same body. *)
THEOREM ReplaysAreFaithful == Spec => []ReplayIsFaithful
<1>1. IInv => ReplayIsFaithful BY DEF IInv
<1> QED BY IInvInvariant, <1>1, PTL

(* Work repeats in a key's lifetime only after a fault that followed its     *)
(* commit: release after such a fault is the one way to free a used key.     *)
THEOREM RepeatsNeedFaults == Spec => []RepeatNeedsFault
<1>1. ASSUME IInv PROVE RepeatNeedsFault
  <2> SUFFICES ASSUME NEW r \in lifetime, NEW s \in lifetime, ~(late > 0) PROVE r = s
    BY DEF RepeatNeedsFault
  <2>1. late = 0 BY <1>1 DEF IInv, TypeOK
  <2> QED BY <1>1, <2>1 DEF IInv, DoneHoldsKey
<1> QED BY IInvInvariant, <1>1, PTL
=============================================================================
