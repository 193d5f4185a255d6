---------------------------- MODULE IdempotencyKeys ----------------------------
(***************************************************************************)
(* IdempotencyService: the requests that carry one Idempotency-Key of one  *)
(* tenant.  The key is a row taken before the work runs; a request that    *)
(* finds the row answers from it, reports a conflict, or replaces it when  *)
(* its 24 hours are over.  Each database call is a step of its own.        *)
(***************************************************************************)
EXTENDS Integers

CONSTANTS Requests,       \* HTTP requests that carry the key
          Bodies,         \* request hashes
          HashOf,         \* HashOf[r]: the hash of the body r was sent with
          NoRequest,
          ClaimAttempts,  \* CLAIM_ATTEMPTS
          MaxFaults,      \* bound: failed database calls and crashes
          MaxExpiries     \* bound: times the key's lifetime ends

ASSUME HashAssumption == HashOf \in [Requests -> Bodies]
ASSUME NoRequestAssumption == NoRequest \notin Requests
ASSUME BoundsAssumption == /\ ClaimAttempts \in Nat \ {0}
                           /\ MaxFaults \in Nat
                           /\ MaxExpiries \in Nat

VARIABLES
  key,       \* the idempotency_keys row; by is who inserted it
  req,       \* where each request is, its pass through claim's loop, and the
             \* time that pass read, as the number of expiries before it
  answer,    \* what each request was answered with
  done,      \* requests whose work committed
  lifetime,  \* those of them since the key last expired
  late,      \* faults after work committed, since the key last expired
  faults, expiries

vars == <<key, req, answer, done, lifetime, late, faults, expiries>>
ghostVars == <<done, lifetime, late>>

KeyStates == {"none", "in_progress", "completed"}
PCs == {"new", "insert", "look", "delete", "work", "complete", "release", "end"}
Answers == {"none", "executed", "replayed", "reused", "in_flight", "error"}
Keys == [st : KeyStates, by : Requests \union {NoRequest}, expired : BOOLEAN]
NoKey == [st |-> "none", by |-> NoRequest, expired |-> FALSE]

Init ==
  /\ key = NoKey
  /\ req = [r \in Requests |-> [pc |-> "new", attempt |-> 1, now |-> 0]]
  /\ answer = [r \in Requests |-> [kind |-> "none", from |-> NoRequest]]
  /\ done = {} /\ lifetime = {} /\ late = 0
  /\ faults = 0 /\ expiries = 0

At(r, pc) == req[r].pc = pc
Goto(r, pc) == req' = [req EXCEPT ![r] = [req[r] EXCEPT !.pc = pc]]
End(r, kind, from) == /\ Goto(r, "end")
                      /\ answer' = [answer EXCEPT ![r] = [kind |-> kind, from |-> from]]
Fault == faults < MaxFaults /\ faults' = faults + 1
boundVars == <<faults, expiries>>

(* The hash of the request that holds the row. *)
Held == HashOf[key.by]

Arrive(r) ==
  /\ At(r, "new")
  /\ req' = [req EXCEPT ![r] = [pc |-> "insert", attempt |-> 1, now |-> expiries]]
  /\ UNCHANGED <<key, answer, ghostVars, boundVars>>

-----------------------------------------------------------------------------
(* claim.                                                                    *)

(* create: the unique (tenant_id, key) decides who owns the key. *)
ClaimInsert(r) ==
  /\ At(r, "insert")
  /\ \/ /\ key.st = "none"
        /\ key' = [st |-> "in_progress", by |-> r, expired |-> FALSE]
        /\ Goto(r, "work")
     \/ /\ key.st # "none" /\ Goto(r, "look") /\ UNCHANGED key
  /\ UNCHANGED <<answer, ghostVars, boundVars>>

(* Is there another pass of the loop?                                       *)
HasPass(r) == req[r].attempt < ClaimAttempts

(* The next pass, which reads the time again, or in-flight when the passes   *)
(* are used up.                                                              *)
Again(r) ==
  IF HasPass(r)
  THEN /\ req' = [req EXCEPT ![r] = [pc |-> "insert", attempt |-> req[r].attempt + 1,
                                     now |-> expiries]]
       /\ UNCHANGED answer
  ELSE End(r, "in_flight", NoRequest)

(* expires_at <= now, for the time this pass read before its insert.  The    *)
(* row in the table is the last one to have expired, if it has.              *)
PastFor(r) == key.expired /\ req[r].now = expiries

(* Does the held row belong to the same request?                             *)
(* Faulty variant: the hash is not compared.                                 *)
SameRequestAlways(r) == TRUE
SameRequest(r) == Held = HashOf[r]

(* findUnique, and what the row found says. *)
ClaimLook(r) ==
  /\ At(r, "look")
  /\ \/ key.st = "none" /\ Again(r)
     \/ /\ key.st # "none" /\ PastFor(r)
        /\ Goto(r, "delete") /\ UNCHANGED answer
     \/ /\ key.st # "none" /\ ~PastFor(r) /\ ~SameRequest(r)
        /\ End(r, "reused", NoRequest)
     \/ /\ key.st = "in_progress" /\ ~PastFor(r) /\ SameRequest(r)
        /\ End(r, "in_flight", NoRequest)
     \/ /\ key.st = "completed" /\ ~PastFor(r) /\ SameRequest(r)
        /\ End(r, "replayed", key.by)
  /\ UNCHANGED <<key, ghostVars, boundVars>>

(* deleteMany WHERE expires_at <= now.  Faulty variant: by key alone.        *)
DeletesAny(r) == key.st # "none"
DeletesExpired(r) == key.st # "none" /\ PastFor(r)
ClaimDelete(r) ==
  /\ At(r, "delete")
  /\ key' = IF DeletesExpired(r) THEN NoKey ELSE key
  /\ Again(r)
  /\ UNCHANGED <<ghostVars, boundVars>>

-----------------------------------------------------------------------------
(* execute.                                                                  *)

(* The work commits, or fails before it committed anything. *)
Work(r) ==
  /\ At(r, "work")
  /\ \/ /\ Goto(r, "complete")
        /\ done' = done \union {r} /\ lifetime' = lifetime \union {r}
        /\ UNCHANGED <<late, faults>>
     \/ Goto(r, "release") /\ UNCHANGED <<ghostVars, faults>>
     \* it commits, and then throws on a query it makes afterwards
     \/ /\ Goto(r, "release") /\ Fault
        /\ done' = done \union {r} /\ lifetime' = lifetime \union {r}
        /\ late' = late + 1
  /\ UNCHANGED <<key, answer, expiries>>

(* The row this caller may still write: its own hash, still in_progress. *)
Mine(r) == key.st = "in_progress" /\ Held = HashOf[r]

(* The row a completed execution leaves.                                     *)
(* Faulty variant: the key is freed instead of keeping the response.         *)
CompletedForgotten == NoKey
Completed == [key EXCEPT !.st = "completed"]

(* The updateMany that stores the response; its failure releases the key.    *)
Complete(r) ==
  /\ At(r, "complete")
  /\ \/ /\ key' = IF Mine(r) THEN Completed ELSE key
        /\ End(r, "executed", r) /\ UNCHANGED <<late, faults>>
     \/ Goto(r, "release") /\ Fault /\ late' = late + 1 /\ UNCHANGED <<key, answer>>
  /\ UNCHANGED <<done, lifetime, expiries>>

(* release, and the error goes to the client; a release that fails leaves    *)
(* the row to its expiry.                                                    *)
Release(r) ==
  /\ At(r, "release")
  /\ \/ key' = (IF Mine(r) THEN NoKey ELSE key) /\ UNCHANGED faults
     \/ Fault /\ UNCHANGED key
  /\ End(r, "error", NoRequest)
  /\ UNCHANGED <<ghostVars, expiries>>

(* The process dies, or a query of the claim fails; the row stays as it is.  *)
Crash(r) ==
  /\ req[r].pc \notin {"new", "end"} /\ Fault
  /\ End(r, "error", NoRequest)
  /\ UNCHANGED <<key, ghostVars, expiries>>

(* 24 hours after the claim.  No request runs that long, so nobody is still  *)
(* at work under the key when it expires.                                    *)
Expire ==
  /\ key.st # "none" /\ ~key.expired
  /\ \A r \in Requests : req[r].pc \notin {"work", "complete", "release"}
  /\ expiries < MaxExpiries /\ expiries' = expiries + 1
  /\ key' = [key EXCEPT !.expired = TRUE]
  /\ lifetime' = {} /\ late' = 0
  /\ UNCHANGED <<req, answer, done, faults>>

-----------------------------------------------------------------------------
Next == \/ Expire
        \/ \E r \in Requests : \/ Arrive(r)
                               \/ ClaimInsert(r) \/ ClaimLook(r) \/ ClaimDelete(r)
                               \/ Work(r) \/ Complete(r) \/ Release(r) \/ Crash(r)

Spec == Init /\ [][Next]_vars

-----------------------------------------------------------------------------
TypeOK ==
  /\ key \in Keys
  /\ req \in [Requests -> [pc : PCs, attempt : 1..ClaimAttempts,
                          now : 0..MaxExpiries]]
  /\ answer \in [Requests -> [kind : Answers, from : Requests \union {NoRequest}]]
  /\ done \subseteq Requests /\ lifetime \subseteq done
  /\ late \in Nat
  /\ faults \in 0..MaxFaults /\ expiries \in 0..MaxExpiries

Working == {r \in Requests : req[r].pc \in {"work", "complete", "release"}}

(* Two requests never do the work under the key at the same time, also when  *)
(* several of them find the key expired at once.                             *)
OneAtWork == \A r, s \in Working : r = s

(* A replayed answer is the answer of work that was done for the very same   *)
(* request body, never another request's.                                    *)
ReplayIsFaithful ==
  \A r \in Requests : answer[r].kind = "replayed" =>
    answer[r].from \in done /\ HashOf[answer[r].from] = HashOf[r]

(* While the key lives, work commits a second time only if a fault struck    *)
(* after it had committed: never because requests race or are refused.       *)
RepeatNeedsFault == \A r, s \in lifetime : r = s \/ late > 0

-----------------------------------------------------------------------------
(* What the safety properties rest on.                                       *)

(* The key is taken by whoever is at work, for the request it was sent with. *)
HolderIsAtWork == \A r \in Working : key = [st |-> "in_progress", by |-> r, expired |-> FALSE]

(* A row has an owner, and a completed row an owner whose work was done. *)
OwnerIsKnown == /\ key.st # "none" => key.by \in Requests
                /\ key.st = "completed" => key.by \in done
                /\ \A r \in Requests : req[r].pc = "complete" => r \in done

(* Unless a fault struck, work done in the key's lifetime holds the key. *)
DoneHoldsKey ==
  lifetime # {} /\ late = 0 =>
    /\ key.st # "none" /\ ~key.expired /\ lifetime = {key.by}
    /\ key.st = "in_progress" => req[key.by].pc \in {"complete", "end"}

IInv == TypeOK /\ HolderIsAtWork /\ OwnerIsKnown /\ DoneHoldsKey /\ ReplayIsFaithful
=============================================================================
