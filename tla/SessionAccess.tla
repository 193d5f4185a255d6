------------------------------ MODULE SessionAccess ------------------------------
(***************************************************************************)
(* The sessions of one user and who still honours them: requests that      *)
(* resolve a cookie through the Redis cache (SessionService.resolve,       *)
(* SessionCacheService), sockets that were admitted by a session row       *)
(* (RealtimeHandshakeService), and the revocations that have to reach both *)
(* (logout, logout everywhere, password change, dropping one device).      *)
(* Every step is one statement, one Redis command or one pipeline.         *)
(***************************************************************************)
EXTENDS Integers, FiniteSets

CONSTANTS Sessions, Requests, Revokers, Sockets,
          NoSession,
          MaxRevocations, \* bound: revocations
          MaxFaults       \* bound: failed Redis commands, errors and crashes

ASSUME NoneAssumption == NoSession \notin Sessions
ASSUME BoundsAssumption == MaxRevocations \in Nat /\ MaxFaults \in Nat

VARIABLES
  row,     \* sessions, in Postgres
  cache,   \* sessions whose principal is cached (sess:{tokenHash})
  index,   \* the user's token hashes (tenant:{t}:user:{u}:sessions)
  request, \* what each request is doing
  revoker, \* what each revocation is doing
  socket,  \* the state of each socket and its session
  raced,   \* sessions of which a request, and
  joined,  \* sessions of which a handshake was overtaken by a revocation
  slips,   \* faults that struck a revocation
  revocations, faults

vars == <<row, cache, index, request, revoker, socket, raced, joined, slips, revocations, faults>>
redisVars == <<cache, index>>
ghostVars == <<raced, joined, slips>>
boundVars == <<revocations, faults>>

(* The sessions a revocation is about: all of the user's, all but the one    *)
(* that asks, or one.                                                        *)
Targets(kind, s) ==
  CASE kind = "all" -> Sessions
    [] kind = "others" -> Sessions \ {s}
    [] OTHER -> {s}
Kinds == {"all", "others", "one", "own"}
NoRequest == [pc |-> "idle", s |-> NoSession]
NoRevoker == [pc |-> "idle", own |-> FALSE, targets |-> {}, again |-> FALSE, found |-> {}]
NoSocket == [pc |-> "closed", s |-> NoSession]

Init ==
  /\ row = [s \in Sessions |-> "none"]
  /\ cache = {} /\ index = {}
  /\ request = [r \in Requests |-> NoRequest]
  /\ revoker = [v \in Revokers |-> NoRevoker]
  /\ socket = [k \in Sockets |-> NoSocket]
  /\ raced = {} /\ joined = {} /\ slips = 0
  /\ revocations = 0 /\ faults = 0

Live == {s \in Sessions : row[s] = "live"}
Revoked == {s \in Sessions : row[s] = "revoked"}
SetRequest(r, x) == request' = [request EXCEPT ![r] = x]
SetRevoker(v, x) == revoker' = [revoker EXCEPT ![v] = x]
Healthy == UNCHANGED faults
Fault == faults < MaxFaults /\ faults' = faults + 1

-----------------------------------------------------------------------------
(* Requests. *)

(* issue commits the row; publish caches it as resolve does.                 *)
Login(r, s) ==
  /\ request[r].pc = "idle" /\ row[s] = "none"
  /\ row' = [row EXCEPT ![s] = "live"]
  /\ SetRequest(r, [pc |-> "track", s |-> s])
  /\ UNCHANGED <<redisVars, revoker, socket, ghostVars, boundVars>>

(* resolve: a hit answers at once; a miss, or a Redis that does not answer,  *)
(* asks the row.                                                             *)
ReadCache(r, s) ==
  /\ request[r].pc = "idle" /\ row[s] # "none"
  /\ \/ s \in cache /\ Healthy /\ UNCHANGED request
     \/ s \notin cache /\ Healthy /\ SetRequest(r, [pc |-> "row", s |-> s])
     \/ s \in cache /\ Fault /\ SetRequest(r, [pc |-> "row", s |-> s])
  /\ UNCHANGED <<row, redisVars, revoker, socket, ghostVars, revocations>>

(* Faulty variant: the row is looked up whether it is revoked or not.        *)
HonouredEver(s) == row[s] # "none"
Honoured(s) == row[s] = "live"
(* The row and, within its throttle, the slide of its deadline.              *)
ReadRow(r) ==
  /\ request[r].pc = "row"
  /\ SetRequest(r, IF Honoured(request[r].s) THEN [request[r] EXCEPT !.pc = "track"] ELSE NoRequest)
  /\ UNCHANGED <<row, redisVars, revoker, socket, ghostVars, boundVars>>

(* Faulty variant: an entry is written although it could not be indexed.     *)
AfterLostTrackWriting(r) == [request[r] EXCEPT !.pc = "write"]
AfterLostTrack(r) == NoRequest
(* cacheIfIndexed: track, then write.  A command that timed out may have     *)
(* been applied.                                                             *)
Track(r) ==
  /\ request[r].pc = "track"
  /\ \/ /\ index' = index \cup {request[r].s}
        /\ SetRequest(r, [request[r] EXCEPT !.pc = "write"]) /\ Healthy
     \/ /\ index' \in {index, index \cup {request[r].s}}
        /\ SetRequest(r, AfterLostTrack(r)) /\ Fault
  /\ UNCHANGED <<row, cache, revoker, socket, ghostVars, revocations>>

(* A SET that times out and is applied later is the first case, taken late:  *)
(* the request holds nothing else meanwhile.                                 *)
Write(r) ==
  /\ request[r].pc = "write"
  /\ \/ cache' = cache \cup {request[r].s} /\ Healthy
     \/ Fault /\ UNCHANGED cache
  /\ SetRequest(r, NoRequest)
  /\ UNCHANGED <<row, index, revoker, socket, ghostVars, revocations>>

(* PX: every entry ends by itself.                                           *)
Lapse(s) ==
  /\ s \in cache
  /\ cache' = cache \ {s}
  /\ UNCHANGED <<row, index, request, revoker, socket, ghostVars, boundVars>>

-----------------------------------------------------------------------------
(* Sockets. *)

(* authenticate: the ticket names a session, whose row is read.              *)
Handshake(k, s) ==
  /\ socket[k].pc = "closed" /\ row[s] = "live"
  /\ socket' = [socket EXCEPT ![k] = [pc |-> "joining", s |-> s]]
  /\ UNCHANGED <<row, redisVars, request, revoker, ghostVars, boundVars>>

(* handleConnection: the socket enters the room of its user.                 *)
HandleConnection(k) ==
  /\ socket[k].pc = "joining"
  /\ socket' = [socket EXCEPT ![k].pc = "open"]
  /\ UNCHANGED <<row, redisVars, request, revoker, ghostVars, boundVars>>

Disconnect(k) ==
  /\ socket[k].pc = "open"
  /\ socket' = [socket EXCEPT ![k] = NoSocket]
  /\ UNCHANGED <<row, redisVars, request, revoker, ghostVars, boundVars>>

-----------------------------------------------------------------------------
(* Revocations. *)

(* logout everywhere, suspension, role and team changes: all.  A password    *)
(* change: all others.  logout: one.  DELETE /auth/sessions/{id}: own.       *)
Revoke(v, kind, s) ==
  /\ revoker[v].pc = "idle" /\ row[s] # "none"
  /\ revocations < MaxRevocations /\ revocations' = revocations + 1
  /\ SetRevoker(v, [NoRevoker EXCEPT !.own = kind = "own", !.targets = Targets(kind, s),
                                     !.pc = IF kind \in {"all", "others"} THEN "find" ELSE "commit"])
  /\ UNCHANGED <<row, redisVars, request, socket, ghostVars, faults>>

(* purgeUsers: before the commit, and again after it.                        *)
AfterPurge(v) == [revoker[v] EXCEPT !.pc = IF revoker[v].again THEN "announce" ELSE "commit",
                                    !.found = {}]
FindEntries(v) ==
  /\ revoker[v].pc = "find"
  /\ SetRevoker(v, [revoker[v] EXCEPT !.pc = "evict", !.found = index])
  /\ UNCHANGED <<row, redisVars, request, socket, ghostVars, boundVars>>

(* The second purge drops the index, which by then names the session of a    *)
(* request that is about to write, or one that was tracked since the read.   *)
Evict(v) ==
  /\ revoker[v].pc = "evict"
  /\ cache' = cache \ revoker[v].found
  /\ index' = IF revoker[v].again THEN {} ELSE index
  /\ raced' = IF revoker[v].again
              THEN raced \cup {s \in index : \/ s \notin revoker[v].found
                                             \/ \E r \in Requests : request[r] = [pc |-> "write", s |-> s]}
              ELSE raced
  /\ SetRevoker(v, AfterPurge(v))
  /\ UNCHANGED <<row, request, socket, joined, slips, boundVars>>

Doomed(v) == Live \cap revoker[v].targets

(* The device that is no longer there is not found.                          *)
AfterCommit(v) ==
  IF ~revoker[v].own THEN [revoker[v] EXCEPT !.pc = "find", !.again = TRUE, !.targets = {}]
  ELSE IF Doomed(v) = {} THEN NoRevoker ELSE [revoker[v] EXCEPT !.pc = "forget"]
Commit(v) ==
  /\ revoker[v].pc = "commit"
  /\ row' = [s \in Sessions |-> IF s \in Doomed(v) THEN "revoked" ELSE row[s]]
  /\ raced' = raced \cup {s \in Doomed(v) : \E r \in Requests : request[r].s = s
                                               /\ request[r].pc \in {"track", "write"}}
  /\ joined' = joined \cup {s \in Doomed(v) : \E k \in Sockets : socket[k] = [pc |-> "joining", s |-> s]}
  /\ SetRevoker(v, AfterCommit(v))
  /\ UNCHANGED <<redisVars, request, socket, slips, boundVars>>

(* forget: DEL, then SREM.                                                   *)
ForgetEntry(v) ==
  /\ revoker[v].pc = "forget"
  /\ cache' = cache \ revoker[v].targets
  /\ SetRevoker(v, [revoker[v] EXCEPT !.pc = "unlist"])
  /\ UNCHANGED <<row, index, request, socket, ghostVars, boundVars>>
Unlist(v) ==
  /\ revoker[v].pc = "unlist"
  /\ index' = index \ revoker[v].targets
  /\ SetRevoker(v, [revoker[v] EXCEPT !.pc = "announce", !.targets = {}])
  /\ UNCHANGED <<row, cache, request, socket, ghostVars, boundVars>>

(* Faulty variant: nobody listens.                                           *)
DroppedNone == {}
(* The sockets in the user's room whose session is gone.                     *)
Dropped == {k \in Sockets : socket[k].pc = "open" /\ row[socket[k].s] # "live"}
(* announceRevocation and onSessionsRevoked: every socket in the user's room *)
(* is judged by its own session.  The rows are read after the sockets, one   *)
(* by one, which can only find more of them gone.                            *)
OnSessionsRevoked(v) ==
  /\ revoker[v].pc = "announce"
  /\ socket' = [k \in Sockets |-> IF k \in Dropped THEN NoSocket ELSE socket[k]]
  /\ SetRevoker(v, NoRevoker)
  /\ UNCHANGED <<row, redisVars, request, ghostVars, boundVars>>

(* A Redis command of a purge fails, and with it the rest of the purge.      *)
PurgeFails(v) ==
  /\ revoker[v].pc \in {"find", "evict", "forget", "unlist"} /\ Fault
  /\ slips' = slips + 1
  /\ SetRevoker(v, IF revoker[v].own THEN [revoker[v] EXCEPT !.pc = "announce"]
                   ELSE AfterPurge(v))
  /\ UNCHANGED <<row, redisVars, request, socket, raced, joined, revocations>>

(* The process dies, or the sockets cannot be read.                          *)
Crash(v) ==
  /\ revoker[v].pc # "idle" /\ Fault
  /\ slips' = slips + 1
  /\ SetRevoker(v, NoRevoker)
  /\ UNCHANGED <<row, redisVars, request, socket, raced, joined, revocations>>

-----------------------------------------------------------------------------
RequestStep(r) == ReadRow(r) \/ Track(r) \/ Write(r)
RevokerStep(v) == \/ FindEntries(v) \/ Evict(v) \/ Commit(v)
                  \/ ForgetEntry(v) \/ Unlist(v) \/ OnSessionsRevoked(v)

Next ==
  \/ \E r \in Requests : RequestStep(r) \/ (\E s \in Sessions : Login(r, s) \/ ReadCache(r, s))
  \/ \E s \in Sessions : Lapse(s)
  \/ \E k \in Sockets : HandleConnection(k) \/ Disconnect(k) \/ (\E s \in Sessions : Handshake(k, s))
  \/ \E v \in Revokers : \/ RevokerStep(v) \/ PurgeFails(v) \/ Crash(v)
                         \/ \E kind \in Kinds, s \in Sessions : Revoke(v, kind, s)

Spec == Init /\ [][Next]_vars

-----------------------------------------------------------------------------
Settled == \A v \in Revokers : revoker[v].pc = "idle"

(* Types of the rows, the cache and the actors.                              *)
TypeOK ==
  /\ row \in [Sessions -> {"none", "live", "revoked"}]
  /\ cache \subseteq Sessions /\ index \subseteq Sessions
  /\ raced \subseteq Sessions /\ joined \subseteq Sessions
  /\ request \in [Requests -> [pc : {"idle"}, s : {NoSession}]
                               \cup [pc : {"row", "track", "write"}, s : Live \cup Revoked]]
  /\ socket \in [Sockets -> [pc : {"closed"}, s : {NoSession}]
                             \cup [pc : {"joining", "open"}, s : Live \cup Revoked]]
  /\ revoker \in [Revokers -> [pc : {"idle", "find", "evict", "commit", "forget", "unlist", "announce"},
                                own : BOOLEAN, targets : SUBSET Sessions, again : BOOLEAN,
                                found : SUBSET Sessions]]
  /\ cache \cup index \subseteq Live \cup Revoked
  /\ slips \in 0..faults /\ faults \in 0..MaxFaults /\ revocations \in 0..MaxRevocations

(* Once a revocation is through, the cache answers for a revoked session     *)
(* only if a request that had read its row, or had put it into the index,    *)
(* was overtaken by a revocation, or if a purge failed: the two purges       *)
(* around the commit catch everything else that requests cache meanwhile,    *)
(* because nothing is cached that the index does not name.                   *)
StaleNeedsOvertaking == Settled /\ slips = 0 => cache \cap Revoked \subseteq raced

(* An open socket of a revoked session had read its row before the           *)
(* revocation and joined its room after onSessionsRevoked looked into it,    *)
(* or a fault kept the revocation from looking.                              *)
OrphanNeedsOvertaking ==
  Settled /\ slips = 0 =>
    \A k \in Sockets : socket[k].pc = "open" => socket[k].s \in Live \cup joined

(* No entry of a revoked session is written anew, except by a request that   *)
(* had read its row before the revocation committed: what a fault or a race  *)
(* leaves in the cache ends with its own lifetime, and no later request      *)
(* prolongs it.                                                              *)
RenewalNeedsOvertaking ==
  [][\A s \in Revoked : s \in cache' => s \in cache \cup raced]_vars
================================================================================
