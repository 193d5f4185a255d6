-------------------------- MODULE SessionAccessProofs --------------------------
(***************************************************************************)
(* Proofs for SessionAccess: for any number of sessions, requests, sockets *)
(* and revocations, IInv is inductive, and with it the cache and the open  *)
(* sockets outlive a finished revocation only where a request, a handshake *)
(* or a fault overtook it.                                                 *)
(***************************************************************************)
EXTENDS SessionAccess, TLAPS

Known == Live \cup Revoked
RequestRows(K) == [pc : {"idle"}, s : {NoSession}] \cup [pc : {"row", "track", "write"}, s : K]
SocketRows(K) == [pc : {"closed"}, s : {NoSession}] \cup [pc : {"joining", "open"}, s : K]
RevokerPCs == {"idle", "find", "evict", "commit", "forget", "unlist", "announce"}
RevokerRows == [pc : RevokerPCs, own : BOOLEAN, targets : SUBSET Sessions, again : BOOLEAN,
                found : SUBSET Sessions]

-----------------------------------------------------------------------------
(* The inductive invariant, part by part.                                    *)

(* A request that is past its read of the row, of a session that was revoked *)
(* since, was overtaken: cacheIfIndexed does not look at the row again.      *)
RequestsOvertaken ==
  \A r \in Requests : request[r].pc \in {"track", "write"} /\ request[r].s \in Revoked
                        => request[r].s \in raced

(* Nothing is cached, or about to be, that the index does not name.          *)
CachedIsIndexed ==
  /\ cache \subseteq index \cup raced
  /\ \A r \in Requests : request[r].pc = "write" => request[r].s \in index \cup raced

(* DELETE /auth/sessions/{id} names one session and purges nothing else; the *)
(* session is forgotten once it is revoked, and by the time it is unlisted     *)
(* only an overtaken request can have cached it again.                       *)
DeviceIsForgotten ==
  \A v \in Revokers :
    /\ revoker[v].pc \in {"find", "evict"} => ~revoker[v].own
    /\ revoker[v].pc = "commit" /\ revoker[v].own => \E s \in Sessions : revoker[v].targets = {s}
    /\ revoker[v].pc \in {"forget", "unlist"} => revoker[v].targets \subseteq Revoked
    /\ revoker[v].pc = "unlist" => revoker[v].targets \cap cache \subseteq raced

(* Revocation v is still to remove the entry of session s.                   *)
WillEvict(v, s) == \/ revoker[v].pc = "find" /\ revoker[v].again
                   \/ revoker[v].pc = "evict" /\ revoker[v].again /\ s \in revoker[v].found
                   \/ revoker[v].pc = "forget" /\ s \in revoker[v].targets
PurgeUnderWay ==
  slips = 0 => \A s \in (cache \cap Revoked) \ raced : \E v \in Revokers : WillEvict(v, s)

(* A handshake whose session was revoked before it joined was overtaken.     *)
HandshakesOvertaken ==
  \A k \in Sockets : socket[k].pc = "joining" /\ socket[k].s \in Revoked => socket[k].s \in joined

(* Revocation v is past its commit and still to announce itself.             *)
WillAnnounce(v) == \/ revoker[v].pc \in {"find", "evict"} /\ revoker[v].again
                   \/ revoker[v].pc \in {"forget", "unlist", "announce"}
AnnouncementUnderWay ==
  slips = 0 => \A k \in Sockets : socket[k].pc = "open" /\ socket[k].s \notin Live \cup joined
                                    => \E v \in Revokers : WillAnnounce(v)

IInv == /\ TypeOK
        /\ RequestsOvertaken
        /\ CachedIsIndexed
        /\ DeviceIsForgotten
        /\ PurgeUnderWay
        /\ HandshakesOvertaken
        /\ AnnouncementUnderWay

-----------------------------------------------------------------------------
(* The type invariant, with the row types named above. *)
Types ==
  /\ row \in [Sessions -> {"none", "live", "revoked"}]
  /\ cache \subseteq Known /\ index \subseteq Known
  /\ raced \subseteq Sessions /\ joined \subseteq Sessions
  /\ request \in [Requests -> RequestRows(Known)]
  /\ socket \in [Sockets -> SocketRows(Known)]
  /\ revoker \in [Revokers -> RevokerRows]
  /\ slips \in 0..faults /\ faults \in 0..MaxFaults /\ revocations \in 0..MaxRevocations

(* The two statements of the types agree. *)
LEMMA TypeParts == TypeOK <=> Types
<1>1. Known \subseteq Sessions BY DEF Known, Live, Revoked
<1>2. cache \cup index \subseteq Known <=> cache \subseteq Known /\ index \subseteq Known OBVIOUS
<1> QED BY <1>1, <1>2 DEF TypeOK, Types, Known, RequestRows, SocketRows, RevokerRows, RevokerPCs

(* ... and after a step. *)
LEMMA TypePartsNext == TypeOK' <=> Types'
BY TypeParts, PTL

(* A larger set of known sessions types more requests and sockets. *)
LEMMA RowsGrow ==
  ASSUME NEW K, NEW L, K \subseteq L
  PROVE  RequestRows(K) \subseteq RequestRows(L) /\ SocketRows(K) \subseteq SocketRows(L)
BY DEF RequestRows, SocketRows

(* Fields of a request and of a socket at work. *)
LEMMA RowFields ==
  ASSUME NEW K
  PROVE  /\ \A x \in RequestRows(K) : x.pc # "idle" => x.s \in K
         /\ \A x \in SocketRows(K) : x.pc # "closed" => x.s \in K
BY DEF RequestRows, SocketRows

(* A step on the side of the requests and the cache keeps IInv if no row is  *)
(* revoked, requests stay honest about what overtook them, and what is newly *)
(* cached is indexed, and not of a revoked session unless overtaken.         *)
LEMMA RequestSideKeeps ==
  ASSUME IInv, UNCHANGED <<revoker, socket, ghostVars, revocations>>,
         row' \in [Sessions -> {"none", "live", "revoked"}], Live \subseteq Live', Revoked' = Revoked,
         faults' \in 0..MaxFaults, faults <= faults',
         index \subseteq index', index' \subseteq Known',
         \A c \in cache' : \/ c \in cache
                           \/ c \in Known /\ c \in index \cup raced /\ (c \in Revoked => c \in raced),
         request' \in [Requests -> RequestRows(Known')],
         \A r \in Requests :
           \/ request'[r] = request[r]
           \/ /\ request'[r].pc \in {"track", "write"} /\ request'[r].s \in Revoked => request'[r].s \in raced
              /\ request'[r].pc = "write" => request'[r].s \in index'
  PROVE  IInv'
<1>i. /\ TypeOK /\ RequestsOvertaken /\ CachedIsIndexed /\ DeviceIsForgotten /\ PurgeUnderWay
      /\ HandshakesOvertaken /\ AnnouncementUnderWay
  BY DEF IInv
<1>u. UNCHANGED <<revoker, socket, raced, joined, slips, revocations>> BY DEF ghostVars
<1>k. Known \subseteq Known' BY DEF Known
<1>1. TypeOK'
  <2>1. Types BY <1>i, TypeParts
  <2>2. cache' \subseteq Known' BY <2>1, <1>k DEF Types
  <2>3. socket' \in [Sockets -> SocketRows(Known')] BY <2>1, <1>u, <1>k, RowsGrow DEF Types
  <2>4. slips' \in 0..faults' BY <2>1, <1>u, BoundsAssumption DEF Types
  <2>5. Types' BY <2>1, <2>2, <2>3, <2>4, <1>u DEF Types
  <2> QED BY <2>5, TypePartsNext
<1>2. RequestsOvertaken' BY <1>i, <1>u DEF RequestsOvertaken
<1>3. CachedIsIndexed' BY <1>i, <1>u DEF CachedIsIndexed
<1>4. DeviceIsForgotten' BY <1>i, <1>u DEF DeviceIsForgotten
<1>5. PurgeUnderWay' BY <1>i, <1>u DEF PurgeUnderWay, WillEvict
<1>6. HandshakesOvertaken' BY <1>i, <1>u DEF HandshakesOvertaken
<1>7. AnnouncementUnderWay' BY <1>i, <1>u DEF AnnouncementUnderWay, WillAnnounce
<1> QED BY <1>1, <1>2, <1>3, <1>4, <1>5, <1>6, <1>7 DEF IInv

(* No fault, or one more. *)
LEMMA FaultsMove ==
  ASSUME TypeOK, Healthy \/ Fault
  PROVE  faults' \in 0..MaxFaults /\ faults <= faults' /\ (Fault => faults' = faults + 1)
<1>1. faults \in 0..MaxFaults /\ MaxFaults \in Nat BY BoundsAssumption DEF TypeOK
<1> QED BY <1>1 DEF Healthy, Fault

(* Login, resolve and the lifetime of an entry. *)
LEMMA RequestsKeep ==
  ASSUME IInv, \/ \E r \in Requests : RequestStep(r) \/ (\E s \in Sessions : Login(r, s) \/ ReadCache(r, s))
               \/ \E s \in Sessions : Lapse(s)
  PROVE  IInv'
<1>i. TypeOK /\ RequestsOvertaken /\ CachedIsIndexed BY DEF IInv
<1>t. Types BY <1>i, TypeParts
<1>f. faults \in 0..MaxFaults /\ faults <= faults BY <1>t, BoundsAssumption DEF Types
<1>0. NoRequest \in RequestRows(Known) /\ NoRequest.pc = "idle" BY DEF NoRequest, RequestRows
<1>r. row \in [Sessions -> {"none", "live", "revoked"}] BY <1>t DEF Types
<1>q. request \in [Requests -> RequestRows(Known)] BY <1>t DEF Types
<1>x. \A s \in Known, p \in {"row", "track", "write"} :
        LET x == [pc |-> p, s |-> s] IN x \in RequestRows(Known) /\ x.pc = p /\ x.s = s
  BY DEF RequestRows
<1>e. ASSUME NEW r \in Requests, NEW p \in {"track", "write"}, request[r].pc # "idle"
      PROVE  /\ [request[r] EXCEPT !.pc = p] \in RequestRows(Known)
             /\ [request[r] EXCEPT !.pc = p].pc = p /\ [request[r] EXCEPT !.pc = p].s = request[r].s
             /\ request[r].s \in Known
  <2>1. request[r] \in [pc : {"row", "track", "write"}, s : Known] BY <1>q, <1>e DEF RequestRows
  <2> QED BY <2>1 DEF RequestRows
<1>1. ASSUME NEW r \in Requests, NEW s \in Sessions, Login(r, s) PROVE IInv'
  <2> DEFINE x == [pc |-> "track", s |-> s]
  <2>1. /\ row[s] = "none" /\ row' = [row EXCEPT ![s] = "live"] /\ SetRequest(r, x)
        /\ UNCHANGED <<cache, index, revoker, socket, ghostVars, revocations, faults>>
    BY <1>1 DEF Login, redisVars, boundVars
  <2>2. /\ row' \in [Sessions -> {"none", "live", "revoked"}] /\ Live \subseteq Live' /\ Revoked' = Revoked
        /\ s \in Live' /\ s \notin Revoked
    BY <2>1, <1>r DEF Live, Revoked
  <2>3. Known \subseteq Known' /\ s \in Known' BY <2>2 DEF Known
  <2>4. x \in RequestRows(Known') /\ x.pc = "track" /\ x.s = s BY <2>3 DEF RequestRows
  <2> HIDE DEF x
  <2>5. request' \in [Requests -> RequestRows(Known')] BY <2>1, <2>3, <2>4, <1>q, RowsGrow DEF SetRequest
  <2>6. request'[r] = x /\ \A k \in Requests \ {r} : request'[k] = request[k]
    BY <2>1, <1>q DEF SetRequest
  <2>7. index' \subseteq Known' BY <2>1, <2>3, <1>t DEF Types
  <2> QED BY <2>1, <2>2, <2>4, <2>5, <2>6, <2>7, <1>f, RequestSideKeeps
<1>2. ASSUME NEW x \in RequestRows(Known), NEW r \in Requests, SetRequest(r, x),
             UNCHANGED <<row, cache, index, revoker, socket, ghostVars, revocations>>,
             Healthy \/ Fault,
             x.pc = "track" => x.s \in Live, x.pc # "write"
      PROVE  IInv'
  <2>1. Live' = Live /\ Revoked' = Revoked /\ Known' = Known BY <1>2 DEF Live, Revoked, Known
  <2>2. request' \in [Requests -> RequestRows(Known')] /\ request'[r] = x
        /\ \A k \in Requests \ {r} : request'[k] = request[k]
    BY <2>1, <1>2, <1>q DEF SetRequest
  <2>3. x.pc = "track" => x.s \notin Revoked BY <1>2 DEF Live, Revoked
  <2>4. index' \subseteq Known' BY <2>1, <1>2, <1>t DEF Types
  <2>5. faults' \in 0..MaxFaults /\ faults <= faults' BY <1>2, <1>i, FaultsMove
  <2> QED BY <1>2, <1>r, <2>1, <2>2, <2>3, <2>4, <2>5, RequestSideKeeps
<1>3. ASSUME NEW r \in Requests, NEW s \in Sessions, ReadCache(r, s) PROVE IInv'
  <2>1. s \in Known BY <1>3, <1>r DEF ReadCache, Known, Live, Revoked
  <2>2. CASE SetRequest(r, [pc |-> "row", s |-> s]) /\ (Healthy \/ Fault)
    <3> DEFINE x == [pc |-> "row", s |-> s]
    <3>1. x \in RequestRows(Known) /\ x.pc = "row" BY <2>1, <1>x
    <3>2. SetRequest(r, x) BY <2>2
    <3> HIDE DEF x
    <3> QED BY <1>3, <2>2, <3>1, <3>2, <1>2 DEF ReadCache, redisVars
  <2>3. CASE UNCHANGED request /\ Healthy
    <3>1. request[r] \in RequestRows(Known) /\ request[r].pc = "idle" BY <1>3, <1>q DEF ReadCache
    <3>2. SetRequest(r, request[r]) BY <2>3, <1>q DEF SetRequest
    <3> QED BY <1>3, <2>3, <3>1, <3>2, <1>2 DEF ReadCache, redisVars
  <2> QED BY <1>3, <2>2, <2>3 DEF ReadCache
<1>4. ASSUME NEW r \in Requests, ReadRow(r) PROVE IInv'
  <2>1. /\ request[r].pc = "row" /\ Healthy
        /\ UNCHANGED <<row, cache, index, revoker, socket, ghostVars, revocations>>
    BY <1>4 DEF ReadRow, redisVars, boundVars, Healthy
  <2>2. CASE Honoured(request[r].s)
    <3> DEFINE x == [request[r] EXCEPT !.pc = "track"]
    <3>1. x \in RequestRows(Known) /\ x.pc = "track" /\ x.s = request[r].s /\ x.s \in Known
      BY <2>1, <1>e
    <3>2. SetRequest(r, x) BY <1>4, <2>2 DEF ReadRow
    <3> HIDE DEF x
    <3>3. x.s \in Live BY <2>2, <3>1 DEF Honoured, Live, Known, Revoked
    <3> QED BY <2>1, <3>1, <3>2, <3>3, <1>2
  <2>3. CASE ~Honoured(request[r].s)
    <3>1. SetRequest(r, NoRequest) BY <1>4, <2>3 DEF ReadRow
    <3> QED BY <2>1, <3>1, <1>0, <1>2
  <2> QED BY <2>2, <2>3
<1>5. ASSUME NEW r \in Requests, Track(r) PROVE IInv'
  <2>1. /\ request[r].pc = "track"
        /\ UNCHANGED <<row, cache, revoker, socket, ghostVars, revocations>>
        /\ Healthy \/ Fault
    BY <1>5 DEF Track
  <2>2. Live' = Live /\ Revoked' = Revoked /\ Known' = Known BY <2>1 DEF Live, Revoked, Known
  <2> DEFINE x == [request[r] EXCEPT !.pc = "write"]
  <2>3. /\ x \in RequestRows(Known) /\ x.pc = "write" /\ x.s = request[r].s /\ request[r].s \in Known
    BY <2>1, <1>e
  <2>4. \/ SetRequest(r, x) /\ index' = index \cup {request[r].s}
        \/ SetRequest(r, NoRequest) /\ index' \in {index, index \cup {request[r].s}}
    BY <1>5 DEF Track, AfterLostTrack
  <2> HIDE DEF x
  <2>5. index \subseteq index' /\ index' \subseteq Known' BY <2>2, <2>3, <2>4, <1>t DEF Types
  <2>6. request[r].s \in Revoked => request[r].s \in raced BY <2>1, <1>i DEF RequestsOvertaken
  <2>7. request' \in [Requests -> RequestRows(Known')]
        /\ \A k \in Requests \ {r} : request'[k] = request[k]
    BY <2>2, <2>3, <2>4, <1>0, <1>q DEF SetRequest
  <2>8. /\ request'[r].pc \in {"track", "write"} /\ request'[r].s \in Revoked => request'[r].s \in raced
        /\ request'[r].pc = "write" => request'[r].s \in index'
    BY <2>3, <2>4, <2>6, <1>0, <1>q DEF SetRequest
  <2>9. faults' \in 0..MaxFaults /\ faults <= faults' BY <2>1, <1>i, FaultsMove
  <2> QED BY <1>r, <2>1, <2>2, <2>5, <2>7, <2>8, <2>9, RequestSideKeeps
<1>6. ASSUME NEW r \in Requests, Write(r) PROVE IInv'
  <2>1. /\ request[r].pc = "write" /\ SetRequest(r, NoRequest)
        /\ cache' \subseteq cache \cup {request[r].s}
        /\ UNCHANGED <<row, index, revoker, socket, ghostVars, revocations>>
        /\ Healthy \/ Fault
    BY <1>6 DEF Write
  <2>2. Live' = Live /\ Revoked' = Revoked /\ Known' = Known BY <2>1 DEF Live, Revoked, Known
  <2>3. request[r].s \in Known BY <2>1, <1>q, RowFields
  <2>4. /\ request[r].s \in Revoked => request[r].s \in raced
        /\ request[r].s \in index \cup raced
    BY <2>1, <1>i DEF RequestsOvertaken, CachedIsIndexed
  <2>5. /\ request' \in [Requests -> RequestRows(Known')] /\ request'[r] = NoRequest
        /\ \A k \in Requests \ {r} : request'[k] = request[k]
    BY <2>1, <2>2, <1>0, <1>q DEF SetRequest
  <2>6. faults' \in 0..MaxFaults /\ faults <= faults' BY <2>1, <1>i, FaultsMove
  <2>7. index' \subseteq Known' BY <2>1, <2>2, <1>t DEF Types
  <2>8. \A c \in cache' : \/ c \in cache
                          \/ c \in Known /\ c \in index \cup raced /\ (c \in Revoked => c \in raced)
    BY <2>1, <2>3, <2>4
  <2> QED BY <1>r, <1>0, <2>1, <2>2, <2>5, <2>6, <2>7, <2>8, RequestSideKeeps
<1>7. ASSUME NEW s \in Sessions, Lapse(s) PROVE IInv'
  <2>1. /\ cache' \subseteq cache
        /\ UNCHANGED <<row, index, request, revoker, socket, ghostVars, revocations, faults>>
    BY <1>7 DEF Lapse, boundVars
  <2>2. Live' = Live /\ Revoked' = Revoked /\ Known' = Known BY <2>1 DEF Live, Revoked, Known
  <2>3. index' \subseteq Known' BY <2>1, <2>2, <1>t DEF Types
  <2> QED BY <1>f, <1>r, <1>q, <2>1, <2>2, <2>3, RequestSideKeeps
<1> QED BY <1>1, <1>3, <1>4, <1>5, <1>6, <1>7 DEF RequestStep

(* A handshake, a join and a disconnect. *)
LEMMA SocketsKeep ==
  ASSUME IInv, NEW k \in Sockets,
         HandleConnection(k) \/ Disconnect(k) \/ (\E s \in Sessions : Handshake(k, s))
  PROVE  IInv'
<1>i. /\ TypeOK /\ RequestsOvertaken /\ CachedIsIndexed /\ DeviceIsForgotten /\ PurgeUnderWay
      /\ HandshakesOvertaken /\ AnnouncementUnderWay
  BY DEF IInv
<1>t. Types BY <1>i, TypeParts
<1>u. UNCHANGED <<row, cache, index, request, revoker, raced, joined, slips, revocations, faults>>
  BY DEF HandleConnection, Disconnect, Handshake, redisVars, ghostVars, boundVars
<1>2. Live' = Live /\ Revoked' = Revoked /\ Known' = Known BY <1>u DEF Live, Revoked, Known
<1>q. socket \in [Sockets -> SocketRows(Known)] BY <1>t DEF Types
<1>s. /\ socket' \in [Sockets -> SocketRows(Known)]
      /\ \A j \in Sockets \ {k} : socket'[j] = socket[j]
      /\ socket'[k].pc = "joining" => socket'[k].s \in Live
      /\ socket'[k].pc = "open" => socket[k].pc = "joining" /\ socket'[k].s = socket[k].s
  <2>1. ASSUME NEW s \in Sessions, Handshake(k, s)
        PROVE  \E x \in SocketRows(Known) : /\ socket' = [socket EXCEPT ![k] = x]
                                            /\ x.pc = "joining" /\ x.s \in Live
    <3> DEFINE x == [pc |-> "joining", s |-> s]
    <3>1. s \in Live /\ s \in Known BY <2>1 DEF Handshake, Live, Known
    <3>2. x \in SocketRows(Known) /\ x.pc = "joining" /\ x.s = s BY <3>1 DEF SocketRows
    <3>3. socket' = [socket EXCEPT ![k] = x] BY <2>1 DEF Handshake
    <3> HIDE DEF x
    <3> QED BY <3>1, <3>2, <3>3
  <2>2. ASSUME HandleConnection(k)
        PROVE  \E x \in SocketRows(Known) : /\ socket' = [socket EXCEPT ![k] = x]
                                            /\ x.pc = "open" /\ x.s = socket[k].s /\ socket[k].pc = "joining"
    <3> DEFINE x == [socket[k] EXCEPT !.pc = "open"]
    <3>1. socket[k] \in [pc : {"joining", "open"}, s : Known] /\ socket[k].pc = "joining"
      BY <2>2, <1>q DEF HandleConnection, SocketRows
    <3>2. x \in SocketRows(Known) /\ x.pc = "open" /\ x.s = socket[k].s BY <3>1 DEF SocketRows
    <3>3. socket' = [socket EXCEPT ![k] = x] BY <2>2, <1>q DEF HandleConnection
    <3> HIDE DEF x
    <3> QED BY <3>1, <3>2, <3>3
  <2>3. ASSUME Disconnect(k)
        PROVE  \E x \in SocketRows(Known) : socket' = [socket EXCEPT ![k] = x] /\ x.pc = "closed"
    <3>1. NoSocket \in SocketRows(Known) /\ NoSocket.pc = "closed" BY DEF NoSocket, SocketRows
    <3> QED BY <3>1, <2>3 DEF Disconnect
  <2> QED BY <2>1, <2>2, <2>3, <1>q
<1>3. TypeOK' BY <1>t, <1>u, <1>2, <1>s, TypePartsNext DEF Types
<1>4. RequestsOvertaken' /\ CachedIsIndexed' /\ DeviceIsForgotten'
  BY <1>i, <1>u, <1>2 DEF RequestsOvertaken, CachedIsIndexed, DeviceIsForgotten
<1>5. PurgeUnderWay' BY <1>i, <1>u, <1>2 DEF PurgeUnderWay, WillEvict
<1>6. HandshakesOvertaken'
  <2>1. Live \cap Revoked = {} BY DEF Live, Revoked
  <2> QED BY <2>1, <1>i, <1>u, <1>2, <1>s DEF HandshakesOvertaken
<1>7. AnnouncementUnderWay'
  <2>1. socket'[k].pc = "open" => socket'[k].s \in Live \cup joined
    <3>1. socket[k].pc = "joining" => socket[k].s \in Known BY <1>q, RowFields
    <3> QED BY <3>1, <1>i, <1>s DEF HandshakesOvertaken, Known
  <2> QED BY <2>1, <1>i, <1>u, <1>2, <1>s DEF AnnouncementUnderWay, WillAnnounce
<1> QED BY <1>3, <1>4, <1>5, <1>6, <1>7 DEF IInv

-----------------------------------------------------------------------------
(* Revocations.                                                              *)

(* What the steps of a revocation write into its row. *)
LEMMA RevokerUpdates ==
  ASSUME NEW x \in RevokerRows, NEW p \in RevokerPCs
  PROVE  /\ LET y == [x EXCEPT !.pc = p]
            IN  /\ y \in RevokerRows /\ y.pc = p /\ y.own = x.own /\ y.targets = x.targets
                /\ y.again = x.again /\ y.found = x.found
         /\ LET y == [x EXCEPT !.pc = p, !.targets = {}]
            IN  y \in RevokerRows /\ y.pc = p
         /\ LET y == [x EXCEPT !.pc = p, !.again = TRUE, !.targets = {}]
            IN  y \in RevokerRows /\ y.pc = p /\ y.own = x.own /\ y.again = TRUE
BY DEF RevokerRows

(* A revocation that is over. *)
LEMMA NoRevokerRow ==
  NoRevoker \in RevokerRows /\ NoRevoker.pc = "idle" /\ NoRevoker.again = FALSE
BY DEF NoRevoker, RevokerRows, RevokerPCs

(* The other revocations keep their rows. *)
LEMMA RevokerFrame ==
  ASSUME TypeOK, NEW v \in Revokers, NEW x \in RevokerRows, SetRevoker(v, x)
  PROVE  /\ revoker' \in [Revokers -> RevokerRows] /\ revoker'[v] = x
         /\ \A w \in Revokers \ {v} : revoker'[w] = revoker[w]
<1>1. revoker \in [Revokers -> RevokerRows] BY TypeParts DEF Types
<1> QED BY <1>1 DEF SetRevoker

(* After a purge the revocation commits or announces itself. *)
LEMMA AfterPurgeRow ==
  ASSUME TypeOK, NEW v \in Revokers
  PROVE  /\ AfterPurge(v) \in RevokerRows /\ AfterPurge(v).own = revoker[v].own
         /\ revoker[v].again => AfterPurge(v).pc = "announce"
         /\ ~revoker[v].again => AfterPurge(v).pc = "commit"
<1>1. revoker[v] \in RevokerRows BY TypeParts DEF Types
<1>2. {"announce", "commit"} \subseteq RevokerPCs /\ {} \in SUBSET Sessions BY DEF RevokerPCs
<1>3. CASE revoker[v].again
  <2>1. AfterPurge(v) = [revoker[v] EXCEPT !.pc = "announce", !.found = {}] BY <1>3 DEF AfterPurge
  <2> QED BY <1>1, <1>2, <1>3, <2>1 DEF RevokerRows
<1>4. CASE ~revoker[v].again
  <2>1. AfterPurge(v) = [revoker[v] EXCEPT !.pc = "commit", !.found = {}] BY <1>4 DEF AfterPurge
  <2> QED BY <1>1, <1>2, <1>4, <2>1 DEF RevokerRows
<1> QED BY <1>3, <1>4

(* A step of revocation v alone: it begins, reads the index, or is struck by *)
(* a fault.                                                                  *)
LEMMA RevokerAloneKeeps ==
  ASSUME IInv, NEW v \in Revokers, NEW x \in RevokerRows, SetRevoker(v, x),
         UNCHANGED <<row, redisVars, request, socket, raced, joined>>,
         revocations' \in 0..MaxRevocations, faults' \in 0..MaxFaults, slips' \in 0..faults',
         x.pc \in {"find", "evict"} => ~x.own,
         x.pc = "commit" /\ x.own => \E s \in Sessions : x.targets = {s},
         x.pc \notin {"forget", "unlist"},
         slips' = 0 => /\ slips = 0
                       /\ \A s \in Sessions : s \in index /\ WillEvict(v, s) =>
                             x.pc = "evict" /\ x.again /\ s \in x.found
                       /\ WillAnnounce(v) => x.pc = "evict" /\ x.again
  PROVE  IInv'
<1>i. /\ TypeOK /\ RequestsOvertaken /\ CachedIsIndexed /\ DeviceIsForgotten /\ PurgeUnderWay
      /\ HandshakesOvertaken /\ AnnouncementUnderWay
  BY DEF IInv
<1>t. Types BY <1>i, TypeParts
<1>u. UNCHANGED <<row, cache, index, request, socket, raced, joined>> BY DEF redisVars
<1>2. Live' = Live /\ Revoked' = Revoked /\ Known' = Known BY <1>u DEF Live, Revoked, Known
<1>v. /\ revoker' \in [Revokers -> RevokerRows] /\ revoker'[v] = x
      /\ \A w \in Revokers \ {v} : revoker'[w] = revoker[w]
  BY <1>i, RevokerFrame
<1>3. TypeOK' BY <1>t, <1>u, <1>2, <1>v, TypePartsNext DEF Types
<1>4. RequestsOvertaken' /\ CachedIsIndexed' /\ HandshakesOvertaken'
  BY <1>i, <1>u, <1>2 DEF RequestsOvertaken, CachedIsIndexed, HandshakesOvertaken
<1>5. DeviceIsForgotten' BY <1>i, <1>u, <1>2, <1>v DEF DeviceIsForgotten
<1>6. PurgeUnderWay'
  <2> SUFFICES ASSUME slips' = 0, NEW s \in (cache \cap Revoked) \ raced
               PROVE  \E w \in Revokers : WillEvict(w, s)'
    BY <1>u, <1>2 DEF PurgeUnderWay
  <2>1. s \in Sessions /\ s \in index BY <1>i DEF CachedIsIndexed, Revoked
  <2>2. PICK w \in Revokers : WillEvict(w, s) BY <1>i DEF PurgeUnderWay
  <2>3. CASE w = v
    <3>1. x.pc = "evict" /\ x.again /\ s \in x.found BY <2>1, <2>2, <2>3
    <3> QED BY <3>1, <1>v DEF WillEvict
  <2>4. CASE w # v BY <2>2, <2>4, <1>v DEF WillEvict
  <2> QED BY <2>3, <2>4
<1>7. AnnouncementUnderWay'
  <2> SUFFICES ASSUME slips' = 0, NEW k \in Sockets, socket[k].pc = "open", socket[k].s \notin Live \cup joined
               PROVE  \E w \in Revokers : WillAnnounce(w)'
    BY <1>u, <1>2 DEF AnnouncementUnderWay
  <2>1. PICK w \in Revokers : WillAnnounce(w) BY <1>i DEF AnnouncementUnderWay
  <2>2. CASE w = v
    <3>1. x.pc = "evict" /\ x.again BY <2>1, <2>2
    <3> QED BY <3>1, <1>v DEF WillAnnounce
  <2>3. CASE w # v BY <2>1, <2>3, <1>v DEF WillAnnounce
  <2> QED BY <2>2, <2>3
<1> QED BY <1>3, <1>4, <1>5, <1>6, <1>7 DEF IInv

(* A revocation begins, reads the index, or is struck. *)
LEMMA RevokersAloneKeep ==
  ASSUME IInv, NEW v \in Revokers,
         \/ FindEntries(v) \/ PurgeFails(v) \/ Crash(v)
         \/ \E kind \in Kinds, s \in Sessions : Revoke(v, kind, s)
  PROVE  IInv'
<1>i. TypeOK /\ DeviceIsForgotten BY DEF IInv
<1>t. Types BY <1>i, TypeParts
<1>r. revoker[v] \in RevokerRows BY <1>t DEF Types
<1>c. /\ slips \in 0..faults /\ slips \in Nat /\ faults \in 0..MaxFaults /\ faults \in Nat
      /\ revocations \in 0..MaxRevocations /\ MaxFaults \in Nat /\ MaxRevocations \in Nat
  BY <1>t, BoundsAssumption DEF Types
<1>1. ASSUME NEW kind \in Kinds, NEW s \in Sessions, Revoke(v, kind, s) PROVE IInv'
  <2> DEFINE own == kind = "own"
             p == IF kind \in {"all", "others"} THEN "find" ELSE "commit"
             x == [NoRevoker EXCEPT !.own = own, !.targets = Targets(kind, s), !.pc = p]
  <2>1. /\ revoker[v].pc = "idle" /\ SetRevoker(v, x)
        /\ revocations < MaxRevocations /\ revocations' = revocations + 1
        /\ UNCHANGED <<row, redisVars, request, socket, raced, joined, slips, faults>>
    BY <1>1 DEF Revoke, ghostVars
  <2>2. own \in BOOLEAN /\ p \in RevokerPCs BY DEF RevokerPCs
  <2>3. Targets(kind, s) \in SUBSET Sessions BY DEF Targets, Kinds
  <2>4. kind = "own" => Targets(kind, s) = {s} BY DEF Targets
  <2>5. (own => p = "commit" /\ Targets(kind, s) = {s}) /\ p \in {"find", "commit"} BY <2>4
  <2> HIDE DEF own, p
  <2>6. /\ x \in RevokerRows /\ x.pc = p /\ x.own = own /\ x.targets = Targets(kind, s)
    BY <2>2, <2>3 DEF NoRevoker, RevokerRows, RevokerPCs
  <2> HIDE DEF x
  <2>7. ~WillAnnounce(v) /\ \A c \in Sessions : ~WillEvict(v, c) BY <2>1 DEF WillAnnounce, WillEvict
  <2>8. revocations' \in 0..MaxRevocations /\ faults' \in 0..MaxFaults /\ slips' \in 0..faults' /\ slips' = slips
    BY <2>1, <1>c
  <2>9. /\ x.pc \in {"find", "evict"} => ~x.own
        /\ x.pc = "commit" /\ x.own => x.targets = {s}
        /\ x.pc \notin {"forget", "unlist"}
    BY <2>5, <2>6
  <2> QED BY <2>1, <2>6, <2>7, <2>8, <2>9, RevokerAloneKeeps
<1>2. ASSUME FindEntries(v) PROVE IInv'
  <2> DEFINE x == [revoker[v] EXCEPT !.pc = "evict", !.found = index]
  <2>1. /\ revoker[v].pc = "find" /\ SetRevoker(v, x)
        /\ UNCHANGED <<row, redisVars, request, socket, raced, joined, slips, revocations, faults>>
    BY <1>2 DEF FindEntries, ghostVars, boundVars
  <2>2. "evict" \in RevokerPCs /\ index \in SUBSET Sessions
    BY <1>t DEF RevokerPCs, Types, Known, Live, Revoked
  <2>3. /\ x \in RevokerRows /\ x.pc = "evict" /\ x.own = revoker[v].own /\ x.again = revoker[v].again
        /\ x.found = index
    BY <2>2, <1>r DEF RevokerRows
  <2> HIDE DEF x
  <2>4. ~x.own BY <2>1, <2>3, <1>i DEF DeviceIsForgotten
  <2>5. /\ WillAnnounce(v) => x.again
        /\ \A s \in Sessions : WillEvict(v, s) => x.again
    BY <2>1, <2>3 DEF WillAnnounce, WillEvict
  <2>6. revocations' \in 0..MaxRevocations /\ faults' \in 0..MaxFaults /\ slips' \in 0..faults' /\ slips' = slips
    BY <2>1, <1>c
  <2> QED BY <2>1, <2>3, <2>4, <2>5, <2>6, RevokerAloneKeeps
<1>3. ASSUME NEW x \in RevokerRows, SetRevoker(v, x), Fault, slips' = slips + 1,
             UNCHANGED <<row, redisVars, request, socket, raced, joined, revocations>>,
             x.pc \in {"idle", "announce"} \/ (x.pc = "commit" /\ ~x.own)
      PROVE  IInv'
  <2>1. faults' \in 0..MaxFaults /\ slips' \in 0..faults' /\ slips' # 0 /\ revocations' \in 0..MaxRevocations
    BY <1>3, <1>c DEF Fault
  <2> QED BY <1>3, <2>1, RevokerAloneKeeps
<1>4. ASSUME PurgeFails(v) PROVE IInv'
  <2>1. /\ revoker[v].pc \in {"find", "evict", "forget", "unlist"} /\ Fault /\ slips' = slips + 1
        /\ UNCHANGED <<row, redisVars, request, socket, raced, joined, revocations>>
    BY <1>4 DEF PurgeFails
  <2>2. CASE revoker[v].own
    <3> DEFINE x == [revoker[v] EXCEPT !.pc = "announce"]
    <3>1. SetRevoker(v, x) BY <1>4, <2>2 DEF PurgeFails
    <3>2. "announce" \in RevokerPCs BY DEF RevokerPCs
    <3>3. x \in RevokerRows /\ x.pc = "announce" BY <3>2, <1>r, RevokerUpdates
    <3> HIDE DEF x
    <3> QED BY <2>1, <3>1, <3>3, <1>3
  <2>3. CASE ~revoker[v].own
    <3>1. SetRevoker(v, AfterPurge(v)) BY <1>4, <2>3 DEF PurgeFails
    <3>2. /\ AfterPurge(v) \in RevokerRows /\ AfterPurge(v).own = revoker[v].own
          /\ AfterPurge(v).pc \in {"announce", "commit"}
      BY <1>i, AfterPurgeRow
    <3> QED BY <2>1, <2>3, <3>1, <3>2, <1>3
  <2> QED BY <2>2, <2>3
<1>5. ASSUME Crash(v) PROVE IInv'
  BY <1>5, <1>3, NoRevokerRow DEF Crash
<1> QED BY <1>1, <1>2, <1>4, <1>5

(* A request at its write, and a socket at its join, as the revocation sees them. *)
LEMMA RowsAtWork ==
  ASSUME NEW K
  PROVE  /\ \A x \in RequestRows(K) : x.pc = "write" => x = [pc |-> "write", s |-> x.s]
         /\ \A x \in SocketRows(K) : x.pc = "joining" => x = [pc |-> "joining", s |-> x.s]
BY DEF RequestRows, SocketRows

(* Evict removes what the index named when it was read; what the index names *)
(* since, and what a request is about to write, is counted as raced.         *)
LEMMA EvictKeeps ==
  ASSUME IInv, NEW v \in Revokers, Evict(v)
  PROVE  IInv'
<1>i. /\ TypeOK /\ RequestsOvertaken /\ CachedIsIndexed /\ DeviceIsForgotten /\ PurgeUnderWay
      /\ HandshakesOvertaken /\ AnnouncementUnderWay
  BY DEF IInv
<1>t. Types BY <1>i, TypeParts
<1>r. revoker[v] \in RevokerRows BY <1>t DEF Types
<1> DEFINE x == AfterPurge(v)
<1>g. /\ revoker[v].pc = "evict" /\ SetRevoker(v, x)
      /\ cache' = cache \ revoker[v].found
      /\ index' \subseteq index /\ (~revoker[v].again => index' = index)
      /\ raced \subseteq raced' /\ raced' \subseteq raced \cup index
      /\ revoker[v].again =>
           /\ \A s \in index : s \notin revoker[v].found => s \in raced'
           /\ \A s \in index : (\E r \in Requests : request[r] = [pc |-> "write", s |-> s]) => s \in raced'
      /\ UNCHANGED <<row, request, socket, joined, slips, revocations, faults>>
  BY DEF Evict, boundVars
<1>x. /\ x \in RevokerRows /\ x.own = revoker[v].own
      /\ revoker[v].again => x.pc = "announce"
      /\ ~revoker[v].again => x.pc = "commit"
  BY <1>i, AfterPurgeRow
<1> HIDE DEF x
<1>v. /\ revoker' \in [Revokers -> RevokerRows] /\ revoker'[v] = x
      /\ \A w \in Revokers \ {v} : revoker'[w] = revoker[w]
  BY <1>i, <1>g, <1>x, RevokerFrame
<1>2. Live' = Live /\ Revoked' = Revoked /\ Known' = Known BY <1>g DEF Live, Revoked, Known
<1>o. ~x.own BY <1>g, <1>i, <1>x DEF DeviceIsForgotten
<1>3. TypeOK'
  <2>1. Known \subseteq Sessions BY DEF Known, Live, Revoked
  <2>2. raced' \subseteq Sessions BY <2>1, <1>t, <1>g DEF Types
  <2>3. cache' \subseteq Known /\ index' \subseteq Known BY <1>t, <1>g DEF Types
  <2>4. Types' BY <2>2, <2>3, <1>t, <1>g, <1>v, <1>2 DEF Types
  <2> QED BY <2>4, TypePartsNext
<1>4. RequestsOvertaken' BY <1>i, <1>g, <1>2 DEF RequestsOvertaken
<1>5. CachedIsIndexed'
  <2>1. CASE ~revoker[v].again BY <2>1, <1>i, <1>g DEF CachedIsIndexed
  <2>2. CASE revoker[v].again
    <3>1. cache' \subseteq raced' BY <2>2, <1>i, <1>g DEF CachedIsIndexed
    <3>2. ASSUME NEW r \in Requests, request[r].pc = "write" PROVE request[r].s \in raced'
      <4>1. request[r] = [pc |-> "write", s |-> request[r].s]
        BY <3>2, <1>t, RowsAtWork DEF Types
      <4>2. request[r].s \in index \cup raced BY <3>2, <1>i DEF CachedIsIndexed
      <4> QED BY <4>1, <4>2, <2>2, <1>g
    <3> QED BY <3>1, <3>2, <1>g DEF CachedIsIndexed
  <2> QED BY <2>1, <2>2
<1>6. DeviceIsForgotten'
  <2>1. x.pc \in {"announce", "commit"} BY <1>x
  <2> QED BY <2>1, <1>i, <1>g, <1>2, <1>v, <1>o DEF DeviceIsForgotten
<1>7. PurgeUnderWay'
  <2> SUFFICES ASSUME slips = 0, NEW s \in (cache' \cap Revoked) \ raced'
               PROVE  \E w \in Revokers : WillEvict(w, s)'
    BY <1>g, <1>2 DEF PurgeUnderWay
  <2>1. s \in (cache \cap Revoked) \ raced /\ s \notin revoker[v].found BY <1>g
  <2>2. PICK w \in Revokers : WillEvict(w, s) BY <2>1, <1>i DEF PurgeUnderWay
  <2>3. w # v BY <2>1, <2>2, <1>g DEF WillEvict
  <2> QED BY <2>2, <2>3, <1>v DEF WillEvict
<1>8. HandshakesOvertaken' BY <1>i, <1>g, <1>2 DEF HandshakesOvertaken
<1>9. AnnouncementUnderWay'
  <2> SUFFICES ASSUME slips = 0, NEW k \in Sockets, socket[k].pc = "open", socket[k].s \notin Live \cup joined
               PROVE  \E w \in Revokers : WillAnnounce(w)'
    BY <1>g, <1>2 DEF AnnouncementUnderWay
  <2>1. PICK w \in Revokers : WillAnnounce(w) BY <1>i DEF AnnouncementUnderWay
  <2>2. CASE w = v
    <3>1. x.pc = "announce" BY <2>1, <2>2, <1>g, <1>x DEF WillAnnounce
    <3> QED BY <3>1, <1>v DEF WillAnnounce
  <2>3. CASE w # v BY <2>1, <2>3, <1>v DEF WillAnnounce
  <2> QED BY <2>2, <2>3
<1> QED BY <1>3, <1>4, <1>5, <1>6, <1>7, <1>8, <1>9 DEF IInv

(* The row changes: requests and handshakes past their read are counted as   *)
(* overtaken, and the revocation goes on to purge and to announce.           *)
LEMMA CommitKeeps ==
  ASSUME IInv, NEW v \in Revokers, Commit(v)
  PROVE  IInv'
<1>i. /\ TypeOK /\ RequestsOvertaken /\ CachedIsIndexed /\ DeviceIsForgotten /\ PurgeUnderWay
      /\ HandshakesOvertaken /\ AnnouncementUnderWay
  BY DEF IInv
<1>t. Types BY <1>i, TypeParts
<1>r. revoker[v] \in RevokerRows BY <1>t DEF Types
<1> DEFINE x == AfterCommit(v)
<1>g. /\ revoker[v].pc = "commit" /\ SetRevoker(v, x)
      /\ row' = [s \in Sessions |-> IF s \in Doomed(v) THEN "revoked" ELSE row[s]]
      /\ raced' = raced \cup {s \in Doomed(v) : \E r \in Requests : request[r].s = s
                                                  /\ request[r].pc \in {"track", "write"}}
      /\ joined' = joined \cup {s \in Doomed(v) : \E k \in Sockets : socket[k] = [pc |-> "joining", s |-> s]}
      /\ UNCHANGED <<cache, index, request, socket, slips, revocations, faults>>
  BY DEF Commit, redisVars, boundVars
<1>d. Doomed(v) \subseteq Live /\ Doomed(v) \subseteq revoker[v].targets /\ Doomed(v) \subseteq Sessions
  BY DEF Doomed, Live
<1>x. /\ x \in RevokerRows
      /\ ~revoker[v].own => x.pc = "find" /\ x.again /\ ~x.own
      /\ revoker[v].own /\ Doomed(v) = {} => x.pc = "idle"
      /\ revoker[v].own /\ Doomed(v) # {} => x.pc = "forget" /\ x.targets = revoker[v].targets
  <2>1. {"find", "forget"} \subseteq RevokerPCs BY DEF RevokerPCs
  <2>2. CASE ~revoker[v].own
    <3>1. x = [revoker[v] EXCEPT !.pc = "find", !.again = TRUE, !.targets = {}] BY <2>2 DEF AfterCommit
    <3> QED BY <3>1, <2>1, <2>2, <1>r DEF RevokerRows
  <2>3. CASE revoker[v].own /\ Doomed(v) = {}
    <3>1. x = NoRevoker BY <2>3 DEF AfterCommit
    <3> QED BY <3>1, <2>3, NoRevokerRow
  <2>4. CASE revoker[v].own /\ Doomed(v) # {}
    <3>1. x = [revoker[v] EXCEPT !.pc = "forget"] BY <2>4 DEF AfterCommit
    <3> QED BY <3>1, <2>1, <2>4, <1>r DEF RevokerRows
  <2> QED BY <2>2, <2>3, <2>4
<1> HIDE DEF x
<1>v. /\ revoker' \in [Revokers -> RevokerRows] /\ revoker'[v] = x
      /\ \A w \in Revokers \ {v} : revoker'[w] = revoker[w]
  BY <1>i, <1>g, <1>x, RevokerFrame
<1>2. /\ row' \in [Sessions -> {"none", "live", "revoked"}]
      /\ Live' = Live \ Doomed(v) /\ Revoked' = Revoked \cup Doomed(v) /\ Known' = Known
  <2>1. row \in [Sessions -> {"none", "live", "revoked"}] BY <1>t DEF Types
  <2>2. row' \in [Sessions -> {"none", "live", "revoked"}] BY <2>1, <1>g
  <2>3. \A s \in Sessions : row'[s] = IF s \in Doomed(v) THEN "revoked" ELSE row[s] BY <1>g
  <2>4. Live' = {s \in Sessions : row'[s] = "live"} /\ Revoked' = {s \in Sessions : row'[s] = "revoked"}
    BY DEF Live, Revoked
  <2>5. Live' = Live \ Doomed(v) BY <2>3, <2>4, <1>d DEF Live
  <2>6. Revoked' = Revoked \cup Doomed(v) BY <2>3, <2>4, <1>d DEF Revoked
  <2> QED BY <2>2, <2>5, <2>6, <1>d DEF Known
<1>3. TypeOK'
  <2>1. raced' \subseteq Sessions /\ joined' \subseteq Sessions BY <1>t, <1>g, <1>d DEF Types
  <2>2. Types' BY <2>1, <1>t, <1>g, <1>v, <1>2 DEF Types
  <2> QED BY <2>2, TypePartsNext
<1>4. RequestsOvertaken' BY <1>i, <1>g, <1>2 DEF RequestsOvertaken
<1>5. CachedIsIndexed' BY <1>i, <1>g DEF CachedIsIndexed
<1>6. DeviceIsForgotten'
  <2>1. x.pc \in {"find", "idle", "forget"} /\ (x.pc = "find" => ~x.own) BY <1>x
  <2>2. x.pc = "forget" => x.targets \subseteq Revoked'
    <3> SUFFICES ASSUME x.pc = "forget" PROVE x.targets \subseteq Revoked' OBVIOUS
    <3>1. revoker[v].own /\ Doomed(v) # {} /\ x.targets = revoker[v].targets BY <1>x
    <3>2. PICK s \in Sessions : revoker[v].targets = {s} BY <3>1, <1>g, <1>i DEF DeviceIsForgotten
    <3> QED BY <3>1, <3>2, <1>d, <1>2
  <2>3. \A w \in Revokers \ {v} :
          /\ revoker[w].pc \in {"find", "evict"} => ~revoker[w].own
          /\ revoker[w].pc = "commit" /\ revoker[w].own => \E s \in Sessions : revoker[w].targets = {s}
          /\ revoker[w].pc \in {"forget", "unlist"} => revoker[w].targets \subseteq Revoked'
          /\ revoker[w].pc = "unlist" => revoker[w].targets \cap cache' \subseteq raced'
    BY <1>i, <1>g, <1>2 DEF DeviceIsForgotten
  <2> QED BY <2>1, <2>2, <2>3, <1>v DEF DeviceIsForgotten
<1>7. PurgeUnderWay'
  <2> SUFFICES ASSUME slips = 0, NEW s \in (cache \cap Revoked') \ raced'
               PROVE  \E w \in Revokers : WillEvict(w, s)'
    BY <1>g DEF PurgeUnderWay
  <2>1. CASE s \in Revoked
    <3>1. PICK w \in Revokers : WillEvict(w, s) BY <2>1, <1>i, <1>g DEF PurgeUnderWay
    <3>2. w # v BY <3>1, <1>g DEF WillEvict
    <3> QED BY <3>1, <3>2, <1>v DEF WillEvict
  <2>2. CASE s \in Doomed(v)
    <3>1. (x.pc = "find" /\ x.again) \/ (x.pc = "forget" /\ s \in x.targets) BY <2>2, <1>x, <1>d
    <3> QED BY <3>1, <1>v DEF WillEvict
  <2> QED BY <2>1, <2>2, <1>2
<1>8. HandshakesOvertaken'
  <2> SUFFICES ASSUME NEW k \in Sockets, socket[k].pc = "joining", socket[k].s \in Revoked'
               PROVE  socket[k].s \in joined'
    BY <1>g DEF HandshakesOvertaken
  <2>1. socket[k] = [pc |-> "joining", s |-> socket[k].s] BY <1>t, RowsAtWork DEF Types
  <2> QED BY <2>1, <1>i, <1>g, <1>2 DEF HandshakesOvertaken
<1>9. AnnouncementUnderWay'
  <2> SUFFICES ASSUME slips = 0, NEW k \in Sockets, socket[k].pc = "open", socket[k].s \notin Live' \cup joined'
               PROVE  \E w \in Revokers : WillAnnounce(w)'
    BY <1>g DEF AnnouncementUnderWay
  <2>1. CASE socket[k].s \notin Live
    <3>1. PICK w \in Revokers : WillAnnounce(w) BY <2>1, <1>i, <1>g DEF AnnouncementUnderWay
    <3>2. w # v BY <3>1, <1>g DEF WillAnnounce
    <3> QED BY <3>1, <3>2, <1>v DEF WillAnnounce
  <2>2. CASE socket[k].s \in Doomed(v)
    <3>1. (x.pc = "find" /\ x.again) \/ x.pc = "forget" BY <2>2, <1>x
    <3> QED BY <3>1, <1>v DEF WillAnnounce
  <2> QED BY <2>1, <2>2, <1>2
<1> QED BY <1>3, <1>4, <1>5, <1>6, <1>7, <1>8, <1>9 DEF IInv

(* forget: the entry, then its name in the index. *)
LEMMA ForgetKeeps ==
  ASSUME IInv, NEW v \in Revokers, ForgetEntry(v) \/ Unlist(v)
  PROVE  IInv'
<1>i. /\ TypeOK /\ RequestsOvertaken /\ CachedIsIndexed /\ DeviceIsForgotten /\ PurgeUnderWay
      /\ HandshakesOvertaken /\ AnnouncementUnderWay
  BY DEF IInv
<1>t. Types BY <1>i, TypeParts
<1>r. revoker[v] \in RevokerRows BY <1>t DEF Types
<1>g. PICK y \in RevokerRows :
        /\ SetRevoker(v, y)
        /\ \/ /\ revoker[v].pc = "forget" /\ y.pc = "unlist" /\ y.targets = revoker[v].targets
              /\ cache' = cache \ revoker[v].targets /\ index' = index
           \/ /\ revoker[v].pc = "unlist" /\ y.pc = "announce"
              /\ cache' = cache /\ index' = index \ revoker[v].targets
        /\ UNCHANGED <<row, request, socket, raced, joined, slips, revocations, faults>>
  <2>1. {"unlist", "announce"} \subseteq RevokerPCs BY DEF RevokerPCs
  <2>2. CASE ForgetEntry(v)
    <3> DEFINE y == [revoker[v] EXCEPT !.pc = "unlist"]
    <3>1. y \in RevokerRows /\ y.pc = "unlist" /\ y.targets = revoker[v].targets
      BY <2>1, <1>r DEF RevokerRows
    <3>2. SetRevoker(v, y) BY <2>2 DEF ForgetEntry
    <3> HIDE DEF y
    <3> QED BY <2>2, <3>1, <3>2 DEF ForgetEntry, ghostVars, boundVars
  <2>3. CASE Unlist(v)
    <3> DEFINE y == [revoker[v] EXCEPT !.pc = "announce", !.targets = {}]
    <3>1. y \in RevokerRows /\ y.pc = "announce" BY <2>1, <1>r DEF RevokerRows
    <3>2. SetRevoker(v, y) BY <2>3 DEF Unlist
    <3> HIDE DEF y
    <3> QED BY <2>3, <3>1, <3>2 DEF Unlist, ghostVars, boundVars
  <2> QED BY <2>2, <2>3
<1>v. /\ revoker' \in [Revokers -> RevokerRows] /\ revoker'[v] = y
      /\ \A w \in Revokers \ {v} : revoker'[w] = revoker[w]
  BY <1>i, <1>g, RevokerFrame
<1>2. Live' = Live /\ Revoked' = Revoked /\ Known' = Known BY <1>g DEF Live, Revoked, Known
<1>c. cache' \subseteq cache /\ index' \subseteq index BY <1>g
<1>3. TypeOK'
  <2>1. Types' BY <1>t, <1>g, <1>c, <1>v, <1>2 DEF Types
  <2> QED BY <2>1, TypePartsNext
<1>4. RequestsOvertaken' BY <1>i, <1>g, <1>2 DEF RequestsOvertaken
<1>5. CachedIsIndexed'
  <2>1. CASE revoker[v].pc = "forget" BY <2>1, <1>i, <1>g DEF CachedIsIndexed
  <2>2. CASE revoker[v].pc = "unlist"
    <3>1. /\ cache' = cache /\ index' = index \ revoker[v].targets
          /\ revoker[v].targets \cap cache \subseteq raced /\ revoker[v].targets \subseteq Revoked
      BY <2>2, <1>i, <1>g DEF DeviceIsForgotten
    <3>2. \A r \in Requests : request[r].pc = "write" => request[r].s \in index' \cup raced
      BY <3>1, <1>i DEF RequestsOvertaken, CachedIsIndexed
    <3>3. cache' \subseteq index' \cup raced BY <3>1, <1>i DEF CachedIsIndexed
    <3> QED BY <3>2, <3>3, <1>g DEF CachedIsIndexed
  <2> QED BY <2>1, <2>2, <1>g
<1>6. DeviceIsForgotten'
  <2>1. y.pc \in {"unlist", "announce"} BY <1>g
  <2>2. y.pc = "unlist" => y.targets \subseteq Revoked /\ y.targets \cap cache' = {}
    BY <1>i, <1>g DEF DeviceIsForgotten
  <2>3. \A w \in Revokers \ {v} :
          /\ revoker[w].pc \in {"find", "evict"} => ~revoker[w].own
          /\ revoker[w].pc = "commit" /\ revoker[w].own => \E s \in Sessions : revoker[w].targets = {s}
          /\ revoker[w].pc \in {"forget", "unlist"} => revoker[w].targets \subseteq Revoked
          /\ revoker[w].pc = "unlist" => revoker[w].targets \cap cache' \subseteq raced
    BY <1>i, <1>c DEF DeviceIsForgotten
  <2> QED BY <2>1, <2>2, <2>3, <1>g, <1>v, <1>2 DEF DeviceIsForgotten
<1>7. PurgeUnderWay'
  <2> SUFFICES ASSUME slips = 0, NEW s \in (cache' \cap Revoked) \ raced
               PROVE  \E w \in Revokers : WillEvict(w, s)'
    BY <1>g, <1>2 DEF PurgeUnderWay
  <2>1. PICK w \in Revokers : WillEvict(w, s) BY <1>i, <1>c DEF PurgeUnderWay
  <2>2. w # v BY <2>1, <1>g DEF WillEvict
  <2> QED BY <2>1, <2>2, <1>v DEF WillEvict
<1>8. HandshakesOvertaken' BY <1>i, <1>g, <1>2 DEF HandshakesOvertaken
<1>9. AnnouncementUnderWay'
  <2>1. WillAnnounce(v)' BY <1>g, <1>v DEF WillAnnounce
  <2> QED BY <2>1 DEF AnnouncementUnderWay
<1> QED BY <1>3, <1>4, <1>5, <1>6, <1>7, <1>8, <1>9 DEF IInv

(* Every socket in the room whose session is gone is dropped. *)
LEMMA OnSessionsRevokedKeeps ==
  ASSUME IInv, NEW v \in Revokers, OnSessionsRevoked(v)
  PROVE  IInv'
<1>i. /\ TypeOK /\ RequestsOvertaken /\ CachedIsIndexed /\ DeviceIsForgotten /\ PurgeUnderWay
      /\ HandshakesOvertaken /\ AnnouncementUnderWay
  BY DEF IInv
<1>t. Types BY <1>i, TypeParts
<1>r. revoker[v] \in RevokerRows BY <1>t DEF Types
<1> DEFINE x == NoRevoker
<1>g. /\ revoker[v].pc = "announce" /\ SetRevoker(v, x)
      /\ socket' = [k \in Sockets |-> IF k \in Dropped THEN NoSocket ELSE socket[k]]
      /\ UNCHANGED <<row, cache, index, request, raced, joined, slips, revocations, faults>>
  BY DEF OnSessionsRevoked, redisVars, ghostVars, boundVars
<1>x. x \in RevokerRows /\ x.pc = "idle" BY NoRevokerRow
<1> HIDE DEF x
<1>v. /\ revoker' \in [Revokers -> RevokerRows] /\ revoker'[v] = x
      /\ \A w \in Revokers \ {v} : revoker'[w] = revoker[w]
  BY <1>i, <1>g, <1>x, RevokerFrame
<1>2. Live' = Live /\ Revoked' = Revoked /\ Known' = Known BY <1>g DEF Live, Revoked, Known
<1>n. NoSocket \in SocketRows(Known) /\ NoSocket.pc = "closed" BY DEF NoSocket, SocketRows
<1>q. socket \in [Sockets -> SocketRows(Known)] BY <1>t DEF Types
<1>s. /\ socket' \in [Sockets -> SocketRows(Known)]
      /\ \A k \in Sockets : socket'[k].pc # "closed" => socket'[k] = socket[k] /\ k \notin Dropped
  BY <1>g, <1>n, <1>q
<1>3. TypeOK'
  <2>1. Types' BY <1>t, <1>g, <1>v, <1>2, <1>s DEF Types
  <2> QED BY <2>1, TypePartsNext
<1>4. RequestsOvertaken' /\ CachedIsIndexed' BY <1>i, <1>g, <1>2 DEF RequestsOvertaken, CachedIsIndexed
<1>5. DeviceIsForgotten' BY <1>i, <1>g, <1>2, <1>v, <1>x DEF DeviceIsForgotten
<1>6. PurgeUnderWay'
  <2> SUFFICES ASSUME slips = 0, NEW s \in (cache \cap Revoked) \ raced
               PROVE  \E w \in Revokers : WillEvict(w, s)'
    BY <1>g, <1>2 DEF PurgeUnderWay
  <2>1. PICK w \in Revokers : WillEvict(w, s) BY <1>i DEF PurgeUnderWay
  <2>2. w # v BY <2>1, <1>g DEF WillEvict
  <2> QED BY <2>1, <2>2, <1>v DEF WillEvict
<1>7. HandshakesOvertaken' BY <1>i, <1>g, <1>2, <1>s DEF HandshakesOvertaken
<1>8. AnnouncementUnderWay'
  <2>1. ASSUME NEW k \in Sockets, socket'[k].pc = "open" PROVE socket'[k].s \in Live
    <3>1. socket'[k] = socket[k] /\ k \notin Dropped /\ socket[k].pc = "open" BY <2>1, <1>s
    <3>2. socket[k].s \in Known BY <3>1, <1>q, RowFields
    <3> QED BY <3>1, <3>2 DEF Dropped, Live, Known, Revoked
  <2> QED BY <2>1, <1>2 DEF AnnouncementUnderWay
<1> QED BY <1>3, <1>4, <1>5, <1>6, <1>7, <1>8 DEF IInv

-----------------------------------------------------------------------------
(* Initially there is no session. *)
LEMMA InitIInv == Init => IInv
<1> SUFFICES ASSUME Init PROVE IInv OBVIOUS
<1>s. /\ \A r \in Requests : request[r].pc = "idle"
      /\ \A v \in Revokers : revoker[v].pc = "idle"
      /\ \A k \in Sockets : socket[k].pc = "closed"
      /\ cache = {}
  BY DEF Init, NoRequest, NoRevoker, NoSocket
<1>1. TypeOK
  <2>1. /\ NoRequest \in RequestRows(Known) /\ NoSocket \in SocketRows(Known) /\ NoRevoker \in RevokerRows
    BY NoRevokerRow DEF NoRequest, NoSocket, RequestRows, SocketRows
  <2>2. slips \in 0..faults /\ faults \in 0..MaxFaults /\ revocations \in 0..MaxRevocations
    BY BoundsAssumption DEF Init
  <2>3. Types BY <2>1, <2>2 DEF Init, Types
  <2> QED BY <2>3, TypeParts
<1>2. RequestsOvertaken BY <1>s DEF RequestsOvertaken
<1>3. CachedIsIndexed BY <1>s DEF CachedIsIndexed
<1>4. DeviceIsForgotten BY <1>s DEF DeviceIsForgotten
<1>5. PurgeUnderWay BY <1>s DEF PurgeUnderWay
<1>6. HandshakesOvertaken BY <1>s DEF HandshakesOvertaken
<1>7. AnnouncementUnderWay BY <1>s DEF AnnouncementUnderWay
<1> QED BY <1>1, <1>2, <1>3, <1>4, <1>5, <1>6, <1>7 DEF IInv

(* Every step keeps IInv. *)
LEMMA NextIInv == IInv /\ [Next]_vars => IInv'
<1> SUFFICES ASSUME IInv, [Next]_vars PROVE IInv' OBVIOUS
<1>1. CASE \/ \E r \in Requests : RequestStep(r) \/ (\E s \in Sessions : Login(r, s) \/ ReadCache(r, s))
           \/ \E s \in Sessions : Lapse(s)
  BY <1>1, RequestsKeep
<1>2. ASSUME NEW k \in Sockets, HandleConnection(k) \/ Disconnect(k) \/ (\E s \in Sessions : Handshake(k, s))
      PROVE  IInv'
  BY <1>2, SocketsKeep
<1>3. ASSUME NEW v \in Revokers,
             \/ PurgeFails(v) \/ Crash(v) \/ FindEntries(v)
             \/ \E kind \in Kinds, s \in Sessions : Revoke(v, kind, s)
      PROVE  IInv'
  BY <1>3, RevokersAloneKeep
<1>4. ASSUME NEW v \in Revokers, RevokerStep(v), ~FindEntries(v) PROVE IInv'
  BY <1>4, EvictKeeps, CommitKeeps, ForgetKeeps, OnSessionsRevokedKeeps DEF RevokerStep
<1>5. CASE UNCHANGED vars
  BY <1>5 DEF vars, IInv, TypeOK, RequestsOvertaken, CachedIsIndexed, DeviceIsForgotten, PurgeUnderWay,
              WillEvict, HandshakesOvertaken, AnnouncementUnderWay, WillAnnounce, Live, Revoked
<1> QED BY <1>1, <1>2, <1>3, <1>4, <1>5 DEF Next

(* IInv holds in every behaviour of the specification. *)
THEOREM IInvInvariant == Spec => []IInv
<1> QED BY InitIInv, NextIInv, PTL DEF Spec

(* Rows, cache, index and actors keep their types. *)
THEOREM SessionTypes == Spec => []TypeOK
<1>1. IInv => TypeOK BY DEF IInv
<1> QED BY IInvInvariant, <1>1, PTL

(* When every revocation is through and none was struck by a fault, the      *)
(* cache answers for a revoked session only if a request was overtaken.      *)
THEOREM StaleEntriesNeedOvertaking == Spec => []StaleNeedsOvertaking
<1>1. IInv => StaleNeedsOvertaking
  BY DEF IInv, PurgeUnderWay, StaleNeedsOvertaking, Settled, WillEvict
<1> QED BY IInvInvariant, <1>1, PTL

(* Likewise a socket of a revoked session is open only if its handshake was  *)
(* overtaken.                                                                *)
THEOREM OrphansNeedOvertaking == Spec => []OrphanNeedsOvertaking
<1>1. IInv => OrphanNeedsOvertaking
  BY DEF IInv, AnnouncementUnderWay, OrphanNeedsOvertaking, Settled, WillAnnounce
<1> QED BY IInvInvariant, <1>1, PTL

(* No step writes the entry of a revoked session anew, faults or not, unless *)
(* its request was overtaken.                                                *)
THEOREM RenewalsNeedOvertaking == Spec => RenewalNeedsOvertaking
<1>1. IInv /\ [Next]_vars => [\A s \in Revoked : s \in cache' => s \in cache \cup raced]_vars
  <2> SUFFICES ASSUME IInv, Next, NEW s \in Revoked, s \in cache' PROVE s \in cache \cup raced OBVIOUS
  <2>1. ASSUME NEW r \in Requests, Write(r) PROVE s \in cache \cup raced
    <3>1. request[r].pc = "write" /\ cache' \subseteq cache \cup {request[r].s} BY <2>1 DEF Write
    <3>2. request[r].s \in Revoked => request[r].s \in raced BY <3>1 DEF IInv, RequestsOvertaken
    <3> QED BY <3>1, <3>2
  <2>2. cache' \subseteq cache \/ \E r \in Requests : Write(r)
    BY DEF Next, RequestStep, Login, ReadCache, ReadRow, Track, Lapse, HandleConnection, Disconnect, Handshake,
           RevokerStep, FindEntries, Evict, Commit, ForgetEntry, Unlist, OnSessionsRevoked, PurgeFails, Crash,
           Revoke, redisVars
  <2> QED BY <2>1, <2>2
<1> QED BY IInvInvariant, <1>1, PTL DEF Spec, RenewalNeedsOvertaking
================================================================================
