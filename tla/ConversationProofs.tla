---------------------------- MODULE ConversationProofs ----------------------------
(***************************************************************************)
(* Proofs for the two modules that share a conversation's row.             *)
(* ConversationThread: for any messages, receipts and replies, any window  *)
(* and any horizon of the clock, IInv is inductive; the high-water mark,   *)
(* the unread count, the service window and the meter of opened            *)
(* conversations are right in every reachable state.                       *)
(* BotTurns: for any messages and workers, any limit of turns and tries    *)
(* and any number of faults, BotIInv is inductive; a message is answered   *)
(* once, nothing is left half done without a fault, turns that do not      *)
(* overlap stay within maxBotTurns, and a person keeps the thread.         *)
(***************************************************************************)
EXTENDS ConversationThread, BotTurns, FiniteSetTheorems, TLAPS

ConvRows == [exists : BOOLEAN, last : Times, window : 0..(MaxTime + Window), unread : Nat]
SendRows == [st : SendStates, kind : Kinds, checked : Times, at : Times]

(* The thread a message finds, or the one it opens. *)
LEMMA OpenedRow ==
  ASSUME conv \in ConvRows, NEW at \in Times, NEW w \in 0..(MaxTime + Window)
  PROVE  /\ Opened(at, w) \in ConvRows /\ Opened(at, w).exists
         /\ conv.exists => Opened(at, w) = conv
         /\ ~conv.exists => /\ Opened(at, w).last = at /\ Opened(at, w).window = w
                            /\ Opened(at, w).unread = 0
<1>1. CASE conv.exists BY <1>1 DEF Opened
<1>2. CASE ~conv.exists
  <2>1. Opened(at, w) = [exists |-> TRUE, last |-> at, window |-> w, unread |-> 0]
    BY <1>2 DEF Opened
  <2> QED BY <1>2, <2>1 DEF ConvRows
<1> QED BY <1>1, <1>2

(* The end of a window fits its column. *)
LEMMA WindowEndType ==
  ASSUME NEW at \in Times PROVE ServiceWindowEnd(at) \in 0..(MaxTime + Window)
BY WindowAssumption, TimeAssumption DEF ServiceWindowEnd, Times

(* A new message counts as unread, and moves the clocks only forward. *)
LEMMA AdvanceRow ==
  ASSUME NEW c \in ConvRows, NEW at \in Times
  PROVE  /\ Advance(c, at) \in ConvRows
         /\ Advance(c, at).exists = c.exists /\ Advance(c, at).unread = c.unread + 1
         /\ c.last < at => /\ Advance(c, at).last = at
                           /\ Advance(c, at).window = ServiceWindowEnd(at)
         /\ ~(c.last < at) => Advance(c, at).last = c.last /\ Advance(c, at).window = c.window
<1> DEFINE n == c.unread + 1
           w == ServiceWindowEnd(at)
<1>1. n \in Nat /\ w \in 0..(MaxTime + Window) BY WindowEndType DEF ConvRows
<1>2. Advance(c, at) = IF c.last < at
                       THEN [c EXCEPT !.unread = n, !.last = at, !.window = w]
                       ELSE [c EXCEPT !.unread = n]
  BY DEF Advance
<1> HIDE DEF n, w
<1>3. CASE c.last < at
  <2>1. Advance(c, at) = [c EXCEPT !.unread = n, !.last = at, !.window = w] BY <1>2, <1>3
  <2>2. Advance(c, at) \in ConvRows BY <2>1, <1>1 DEF ConvRows
  <2> QED BY <2>1, <2>2, <1>3 DEF ConvRows, n, w
<1>4. CASE ~(c.last < at)
  <2>1. Advance(c, at) = [c EXCEPT !.unread = n] BY <1>2, <1>4
  <2>2. Advance(c, at) \in ConvRows BY <2>1, <1>1 DEF ConvRows
  <2> QED BY <2>1, <2>2, <1>4 DEF ConvRows, n, w
<1> QED BY <1>3, <1>4

(* One more stored message that was not stored makes one more unread. *)
LEMMA OneMoreUnread ==
  ASSUME NEW S \in SUBSET Inbound, NEW R \in SUBSET S, NEW i \in Inbound, i \notin S
  PROVE  Cardinality((S \union {i}) \ R) = Cardinality(S \ R) + 1
<1>1. IsFiniteSet(S \ R) BY InboundAssumption, FS_Subset
<1>2. (S \union {i}) \ R = (S \ R) \union {i} /\ i \notin S \ R OBVIOUS
<1> QED BY <1>1, <1>2, FS_AddElement

(* Initially there is no thread. *)
LEMMA InitIInv == Init => IInv
<1> SUFFICES ASSUME Init PROVE IInv OBVIOUS
<1> USE TimeAssumption, WindowAssumption
<1>1. TypeOK
  <2>1. 0 \in Times /\ 0 \in 0..(MaxTime + Window) /\ 1 \in 1..MaxTime BY DEF Times
  <2>2. NoThread \in ConvRows BY <2>1 DEF NoThread, ConvRows
  <2>3. NoSend \in SendRows BY <2>1 DEF NoSend, SendRows, SendStates, Kinds
  <2> QED BY <2>1, <2>2, <2>3 DEF Init, TypeOK, ConvRows, SendRows
<1>2. recorded \ read = {} BY DEF Init
<1>3. UnreadIsExact BY <1>2, FS_EmptySet DEF Init, UnreadIsExact, NoThread
<1>4. /\ StampsArePast /\ NothingBeforeThread /\ ReadIsStored /\ JudgedInWindow
      /\ LastMessageIsNewest /\ WindowIsEarned /\ MeteredOnce
  BY DEF Init, StampsArePast, NothingBeforeThread, ReadIsStored, JudgedInWindow,
         LastMessageIsNewest, WindowIsEarned, MeteredOnce, NoThread, NoSend
<1> QED BY <1>1, <1>3, <1>4 DEF IInv

(* The parts of IInv that a step changing only the replies, the clock and    *)
(* what is not yet stored leaves alone.                                      *)
LEMMA StoreFrame ==
  ASSUME IInv, UNCHANGED <<recorded, placed, conv, opened, read>>,
         \A i \in recorded : sentAt'[i] = sentAt[i]
  PROVE  ReadIsStored' /\ UnreadIsExact' /\ WindowIsEarned' /\ MeteredOnce'
BY DEF IInv, ReadIsStored, UnreadIsExact, WindowIsEarned, MeteredOnce, ServiceWindowEnd

(* Storing more messages keeps every reply that was judged inside a window.  *)
LEMMA JudgedFrame ==
  ASSUME IInv, recorded \subseteq recorded', \A i \in recorded : sentAt'[i] = sentAt[i],
         UNCHANGED send
  PROVE  JudgedInWindow'
BY DEF IInv, JudgedInWindow, InWindow, ServiceWindowEnd

(* The high-water mark after a step that keeps what is stored. *)
LEMMA NewestFrame ==
  ASSUME IInv, UNCHANGED <<recorded, placed, conv, send>>,
         \A i \in recorded : sentAt'[i] = sentAt[i],
         \A f \in placed : receiptAt'[f] = receiptAt[f]
  PROVE  LastMessageIsNewest'
BY DEF IInv, LastMessageIsNewest, Committed

(* Every step keeps IInv. *)
LEMMA NextIInv == IInv /\ [Next]_vars => IInv'
<1> SUFFICES ASSUME IInv, [Next]_vars PROVE IInv'
  OBVIOUS
<1> USE TimeAssumption, WindowAssumption
<1>t. /\ now \in 1..MaxTime
      /\ sentAt \in [Inbound -> Times] /\ receiptAt \in [Foreign -> Times]
      /\ recorded \subseteq Inbound /\ placed \subseteq Foreign
      /\ conv \in ConvRows /\ lastSeen \in Times /\ opened \in Nat /\ read \subseteq Inbound
      /\ send \in [Sends -> SendRows] /\ optedOut \in BOOLEAN
  BY DEF IInv, TypeOK, ConvRows, SendRows
<1>h. /\ StampsArePast /\ NothingBeforeThread /\ ReadIsStored /\ JudgedInWindow
      /\ LastMessageIsNewest /\ UnreadIsExact /\ WindowIsEarned /\ MeteredOnce
  BY DEF IInv
<1>n. now \in Times /\ Times \subseteq Int BY <1>t DEF Times
<1>1. CASE Tick
  <2>1. /\ now' = now + 1 /\ now' \in 1..MaxTime
        /\ UNCHANGED <<sentAt, receiptAt, recorded, placed, conv, lastSeen, opened, read, send, optedOut>>
    BY <1>1, <1>t DEF Tick
  <2>2. TypeOK' BY <2>1, <1>t DEF TypeOK, ConvRows, SendRows
  <2>3. StampsArePast'
    <3>1. \A i \in Inbound : sentAt[i] \in Int /\ sentAt[i] <= now BY <1>t, <1>n, <1>h DEF StampsArePast
    <3>2. \A i \in Inbound : sentAt[i] <= now + 1 BY <3>1, <1>t
    <3> QED BY <2>1, <3>2, <1>h DEF StampsArePast
  <2>4. NothingBeforeThread' BY <2>1, <1>h DEF NothingBeforeThread
  <2>5. ReadIsStored' /\ UnreadIsExact' /\ WindowIsEarned' /\ MeteredOnce' BY <2>1, StoreFrame
  <2>6. JudgedInWindow' BY <2>1, JudgedFrame
  <2>7. LastMessageIsNewest' BY <2>1, NewestFrame
  <2> QED BY <2>2, <2>3, <2>4, <2>5, <2>6, <2>7 DEF IInv
<1>2. ASSUME NEW i \in Inbound, CustomerWrites(i) PROVE IInv'
  <2>1. /\ sentAt[i] = 0 /\ sentAt' = [sentAt EXCEPT ![i] = now]
        /\ UNCHANGED <<now, receiptAt, recorded, placed, conv, lastSeen, opened, read, send, optedOut>>
    BY <1>2 DEF CustomerWrites
  <2>2. /\ sentAt' \in [Inbound -> Times] /\ sentAt'[i] = now /\ i \notin recorded
        /\ \A k \in Inbound \ {i} : sentAt'[k] = sentAt[k]
    BY <2>1, <1>t, <1>n, <1>h DEF StampsArePast
  <2>3. \A k \in recorded : sentAt'[k] = sentAt[k] BY <2>2, <1>t
  <2>4. TypeOK' BY <2>1, <2>2, <1>t DEF TypeOK, ConvRows, SendRows
  <2>5. StampsArePast' BY <2>1, <2>2, <1>h, <1>t DEF StampsArePast
  <2>6. NothingBeforeThread' BY <2>1, <1>h DEF NothingBeforeThread
  <2>7. ReadIsStored' /\ UnreadIsExact' /\ WindowIsEarned' /\ MeteredOnce' BY <2>1, <2>3, StoreFrame
  <2>8. JudgedInWindow' BY <2>1, <2>3, JudgedFrame
  <2>9. LastMessageIsNewest' BY <2>1, <2>3, NewestFrame
  <2> QED BY <2>4, <2>5, <2>6, <2>7, <2>8, <2>9 DEF IInv
<1>3. ASSUME NEW f \in Foreign, MetaReports(f) PROVE IInv'
  <2>1. /\ receiptAt[f] = 0 /\ receiptAt' = [receiptAt EXCEPT ![f] = now]
        /\ UNCHANGED <<now, sentAt, recorded, placed, conv, lastSeen, opened, read, send, optedOut>>
    BY <1>3 DEF MetaReports
  <2>2. receiptAt' \in [Foreign -> Times] /\ \A k \in placed : receiptAt'[k] = receiptAt[k]
    BY <2>1, <1>t, <1>n, <1>h DEF StampsArePast
  <2>3. TypeOK' BY <2>1, <2>2, <1>t DEF TypeOK, ConvRows, SendRows
  <2>4. StampsArePast' BY <2>1, <2>2, <1>h DEF StampsArePast
  <2>5. NothingBeforeThread' BY <2>1, <1>h DEF NothingBeforeThread
  <2>6. ReadIsStored' /\ UnreadIsExact' /\ WindowIsEarned' /\ MeteredOnce' BY <2>1, StoreFrame
  <2>7. JudgedInWindow' BY <2>1, JudgedFrame
  <2>8. LastMessageIsNewest' BY <2>1, <2>2, NewestFrame
  <2> QED BY <2>3, <2>4, <2>5, <2>6, <2>7, <2>8 DEF IInv
<1>4. CASE OptOut
  <2>1. /\ UNCHANGED <<now, sentAt, receiptAt, recorded, placed, conv, lastSeen, opened, read, send>>
        /\ optedOut' \in BOOLEAN
    BY <1>4 DEF OptOut, clockVars
  <2>2. TypeOK' BY <2>1, <1>t DEF TypeOK, ConvRows, SendRows
  <2>3. StampsArePast' /\ NothingBeforeThread' BY <2>1, <1>h DEF StampsArePast, NothingBeforeThread
  <2>4. ReadIsStored' /\ UnreadIsExact' /\ WindowIsEarned' /\ MeteredOnce' BY <2>1, StoreFrame
  <2>5. JudgedInWindow' BY <2>1, JudgedFrame
  <2>6. LastMessageIsNewest' BY <2>1, NewestFrame
  <2> QED BY <2>2, <2>3, <2>4, <2>5, <2>6 DEF IInv
<1>5. CASE MarkRead
  <2>1. /\ UNCHANGED <<now, sentAt, receiptAt, recorded, placed, lastSeen, opened, send, optedOut>>
        /\ conv.exists /\ conv' = [conv EXCEPT !.unread = 0] /\ read' = recorded
    BY <1>5 DEF MarkRead, clockVars
  <2>2. /\ conv' \in ConvRows /\ conv'.unread = 0 /\ conv'.exists /\ conv'.exists = conv.exists
        /\ conv'.last = conv.last /\ conv'.window = conv.window
    BY <2>1, <1>t DEF ConvRows
  <2>3. TypeOK' BY <2>1, <2>2, <1>t DEF TypeOK, ConvRows, SendRows
  <2>4. StampsArePast' /\ NothingBeforeThread' /\ ReadIsStored'
    BY <2>1, <2>2, <1>h DEF StampsArePast, NothingBeforeThread, ReadIsStored
  <2>5. UnreadIsExact'
    <3>1. recorded' \ read' = {} BY <2>1
    <3> QED BY <3>1, <2>2, FS_EmptySet DEF UnreadIsExact
  <2>6. WindowIsEarned' BY <2>1, <2>2, <1>h DEF WindowIsEarned, ServiceWindowEnd
  <2>7. MeteredOnce' BY <2>1, <2>2, <1>h DEF MeteredOnce
  <2>8. JudgedInWindow' BY <2>1, JudgedFrame
  <2>9. LastMessageIsNewest' BY <2>1, <2>2, <1>h DEF LastMessageIsNewest, Committed
  <2> QED BY <2>3, <2>4, <2>5, <2>6, <2>7, <2>8, <2>9 DEF IInv
<1>6. ASSUME NEW i \in Inbound, ApplyInbound(i) PROVE IInv'
  <2> DEFINE at == sentAt[i]
             found == Opened(at, ServiceWindowEnd(at))
  <2>1. /\ UNCHANGED <<now, sentAt, receiptAt, placed, read, send, optedOut>>
        /\ at # 0 /\ UpsertContact(at) /\ opened' = Metered /\ recorded' = recorded \union {i}
        /\ conv' = IF IsNew(i) THEN Advance(found, at) ELSE found
    BY <1>6 DEF ApplyInbound, clockVars
  <2>2. at \in Times /\ at \in Int BY <1>t, <1>n
  <2>3. /\ found \in ConvRows /\ found.exists
        /\ conv.exists => found = conv
        /\ ~conv.exists => /\ found.last = at /\ found.window = ServiceWindowEnd(at)
                           /\ found.unread = 0
    BY <2>2, <1>t, OpenedRow, WindowEndType
  <2>4. /\ conv' \in ConvRows /\ conv'.exists
        /\ i \in recorded => conv' = found
        /\ i \notin recorded =>
             /\ conv'.unread = found.unread + 1
             /\ found.last < at => conv'.last = at /\ conv'.window = ServiceWindowEnd(at)
             /\ ~(found.last < at) => conv'.last = found.last /\ conv'.window = found.window
    BY <2>1, <2>2, <2>3, AdvanceRow DEF IsNew
  <2>5. i \in recorded => conv.exists /\ conv' = conv
    BY <2>3, <2>4, <1>h DEF NothingBeforeThread
  <2>6. \A k \in recorded : sentAt[k] \in Int BY <1>t, <1>n
  <2>7. lastSeen' \in Times /\ opened' \in Nat BY <2>1, <2>2, <1>t DEF UpsertContact, Metered
  <2>8. TypeOK' BY <2>1, <2>4, <2>7, <1>t DEF TypeOK, ConvRows, SendRows
  <2>9. StampsArePast' BY <2>1, <1>h DEF StampsArePast
  <2>10. NothingBeforeThread' BY <2>4 DEF NothingBeforeThread
  <2>11. ReadIsStored' BY <2>1, <1>h DEF ReadIsStored
  <2>12. JudgedInWindow' BY <2>1, JudgedFrame
  <2>13. MeteredOnce' BY <2>1, <2>4, <1>h DEF MeteredOnce, Metered
  <2>14. UnreadIsExact'
    <3>1. CASE i \in recorded
      BY <3>1, <2>1, <2>5, <1>h DEF UnreadIsExact
    <3>2. CASE i \notin recorded
      <4>1. found.unread = Cardinality(recorded \ read)
        <5>1. CASE conv.exists BY <5>1, <2>3, <1>h DEF UnreadIsExact
        <5>2. CASE ~conv.exists
          <6>1. recorded \ read = {} BY <5>2, <1>h DEF NothingBeforeThread
          <6> QED BY <5>2, <6>1, <2>3, FS_EmptySet
        <5> QED BY <5>1, <5>2
      <4>2. Cardinality((recorded \union {i}) \ read) = Cardinality(recorded \ read) + 1
        BY <3>2, <1>t, <1>h, OneMoreUnread DEF ReadIsStored
      <4> QED BY <3>2, <4>1, <4>2, <2>1, <2>4 DEF UnreadIsExact
    <3> QED BY <3>1, <3>2
  <2>15. WindowIsEarned'
    <3>1. conv'.window = conv.window \/ conv'.window = ServiceWindowEnd(at)
      BY <2>3, <2>4, <2>5
    <3> QED BY <3>1, <2>1, <1>h DEF WindowIsEarned, ServiceWindowEnd
  <2>16. LastMessageIsNewest'
    <3> HIDE DEF at, found
    <3>c. Committed' = Committed BY <2>1 DEF Committed
    <3>1. CASE i \in recorded
      <4>1. recorded' = recorded BY <3>1, <2>1
      <4> QED BY <3>1, <4>1, <3>c, <2>1, <2>5, <1>h DEF LastMessageIsNewest
    <3>2. CASE i \notin recorded /\ ~conv.exists
      <4>1. recorded = {} /\ Committed = {} BY <3>2, <1>h DEF NothingBeforeThread, Committed
      <4>2. conv'.last = at BY <3>2, <2>2, <2>3, <2>4
      <4> QED BY <4>1, <4>2, <3>c, <2>1, <2>2 DEF LastMessageIsNewest, at
    <3>3. CASE i \notin recorded /\ conv.exists
      <4>1. conv.last \in Int BY <1>t, <1>n DEF ConvRows
      <4>2. \A o \in Committed : send[o].at \in Int BY <1>t, <1>n DEF Committed, SendRows
      <4>3. CASE conv.last < at
        <5>1. conv'.last = at BY <3>3, <4>3, <2>3, <2>4
        <5>2. \A k \in recorded : sentAt[k] <= at BY <3>3, <4>1, <4>3, <2>2, <2>6, <1>h DEF LastMessageIsNewest
        <5>3. \A o \in Committed : send[o].at <= at BY <3>3, <4>1, <4>2, <4>3, <2>2, <1>h DEF LastMessageIsNewest
        <5> QED BY <5>1, <5>2, <5>3, <3>c, <2>1, <2>2 DEF LastMessageIsNewest, at
      <4>4. CASE ~(conv.last < at)
        <5>1. conv'.last = conv.last /\ at <= conv.last BY <3>3, <4>1, <4>4, <2>2, <2>3, <2>4
        <5> QED BY <5>1, <3>3, <3>c, <2>1, <1>h DEF LastMessageIsNewest, at
      <4> QED BY <4>3, <4>4
    <3> QED BY <3>1, <3>2, <3>3
  <2> QED
    BY <2>8, <2>9, <2>10, <2>11, <2>12, <2>13, <2>14, <2>15, <2>16 DEF IInv
<1>7. ASSUME NEW f \in Foreign, PlaceReceipt(f) PROVE IInv'
  <2> DEFINE at == receiptAt[f]
  <2>1. /\ UNCHANGED <<now, sentAt, receiptAt, recorded, read, send, optedOut>>
        /\ at # 0 /\ UpsertContact(at) /\ opened' = Metered /\ placed' = placed \union {f}
        /\ conv' = Opened(at, 0)
    BY <1>7 DEF PlaceReceipt, PlaceholderWindow, clockVars
  <2>2. at \in Times /\ at \in Int BY <1>t, <1>n
  <2>3. /\ conv' \in ConvRows /\ conv'.exists
        /\ conv.exists => conv' = conv
        /\ ~conv.exists => conv'.last = at /\ conv'.window = 0 /\ conv'.unread = 0
    BY <2>1, <2>2, <1>t, OpenedRow
  <2>4. lastSeen' \in Times /\ opened' \in Nat BY <2>1, <2>2, <1>t DEF UpsertContact, Metered
  <2>5. TypeOK' BY <2>1, <2>3, <2>4, <1>t DEF TypeOK, ConvRows, SendRows
  <2>6. StampsArePast' /\ NothingBeforeThread' /\ ReadIsStored'
    BY <2>1, <2>3, <1>h DEF StampsArePast, NothingBeforeThread, ReadIsStored
  <2>7. JudgedInWindow' BY <2>1, JudgedFrame
  <2>8. MeteredOnce' BY <2>1, <2>3, <1>h DEF MeteredOnce, Metered
  <2>9. CASE conv.exists
    <3>1. UnreadIsExact' /\ WindowIsEarned'
      BY <2>1, <2>3, <2>9, <1>h DEF UnreadIsExact, WindowIsEarned, ServiceWindowEnd
    <3>2. LastMessageIsNewest' BY <2>1, <2>3, <2>9, <1>h DEF LastMessageIsNewest, Committed
    <3> QED BY <3>1, <3>2, <2>5, <2>6, <2>7, <2>8 DEF IInv
  <2>10. CASE ~conv.exists
    <3>1. recorded \ read = {} /\ recorded = {} /\ Committed' = {}
      BY <2>1, <2>10, <1>h DEF NothingBeforeThread, Committed
    <3>2. UnreadIsExact' BY <2>1, <2>3, <2>10, <3>1, FS_EmptySet DEF UnreadIsExact
    <3>3. WindowIsEarned' BY <2>3, <2>10 DEF WindowIsEarned
    <3>4. LastMessageIsNewest' BY <2>1, <2>3, <2>10, <3>1 DEF LastMessageIsNewest
    <3> QED BY <3>2, <3>3, <3>4, <2>5, <2>6, <2>7, <2>8 DEF IInv
  <2> QED BY <2>9, <2>10
<1>8. ASSUME NEW o \in Sends, NEW kind \in Kinds, PrepareSend(o, kind) PROVE IInv'
  <2> DEFINE passed == ~optedOut /\ (kind \in FreeForm => IsServiceWindowOpen(now))
  <2>1. /\ UNCHANGED <<now, sentAt, receiptAt, recorded, placed, conv, lastSeen, opened, read, optedOut>>
        /\ send[o].st = "none" /\ conv.exists
    BY <1>8 DEF PrepareSend, clockVars
  <2>2. PICK row \in SendRows :
          /\ send' = [send EXCEPT ![o] = row]
          /\ row.kind = kind /\ row.checked = now
          /\ row.st \in {"checked", "refused"}
          /\ row.st = "checked" => passed
    <3> DEFINE ok == [st |-> "checked", kind |-> kind, checked |-> now, at |-> 0]
               no == [st |-> "refused", kind |-> kind, checked |-> now, at |-> 0]
    <3>1. /\ ok \in SendRows /\ ok.kind = kind /\ ok.checked = now /\ ok.st = "checked"
          /\ no \in SendRows /\ no.kind = kind /\ no.checked = now /\ no.st = "refused"
      BY <1>n DEF SendRows, SendStates, Times
    <3>2. \/ passed /\ send' = [send EXCEPT ![o] = ok]
          \/ send' = [send EXCEPT ![o] = no]
      BY <1>8 DEF PrepareSend
    <3> HIDE DEF ok, no
    <3> QED BY <3>1, <3>2
  <2> HIDE DEF passed
  <2>3. /\ send' \in [Sends -> SendRows] /\ send'[o] = row
        /\ \A q \in Sends \ {o} : send'[q] = send[q]
    BY <2>2, <1>t
  <2>4. Committed' = Committed /\ \A q \in Committed : send'[q] = send[q]
    <3>1. send'[o].st # "committed" /\ send[o].st # "committed" BY <2>1, <2>2, <2>3
    <3> QED BY <2>3, <3>1 DEF Committed
  <2>5. TypeOK' BY <2>1, <2>3, <1>t DEF TypeOK, ConvRows, SendRows
  <2>6. StampsArePast' /\ NothingBeforeThread' BY <2>1, <1>h DEF StampsArePast, NothingBeforeThread
  <2>7. ReadIsStored' /\ UnreadIsExact' /\ WindowIsEarned' /\ MeteredOnce' BY <2>1, StoreFrame
  <2>8. LastMessageIsNewest' BY <2>1, <2>4, <1>h DEF LastMessageIsNewest
  <2>9. JudgedInWindow'
    <3>1. ASSUME passed, kind \in FreeForm PROVE InWindow(now)
      <4>1. conv.window # 0 /\ conv.window > now BY <3>1 DEF IsServiceWindowOpen, passed
      <4>2. PICK i \in recorded : conv.window = ServiceWindowEnd(sentAt[i])
        BY <4>1, <1>h DEF WindowIsEarned
      <4>3. sentAt[i] <= now BY <1>t, <1>h DEF StampsArePast
      <4>4. conv.window \in Int /\ now \in Int BY <1>t, <1>n DEF ConvRows
      <4> QED BY <4>1, <4>2, <4>3, <4>4 DEF InWindow
    <3>2. \A x : x = send'[o].checked =>
            (row.st = "checked" /\ kind \in FreeForm => InWindow(x))
      BY <2>2, <2>3, <3>1
    <3> QED BY <3>2, <2>1, <2>2, <2>3, <1>h DEF JudgedInWindow, InWindow, ServiceWindowEnd
  <2> QED BY <2>5, <2>6, <2>7, <2>8, <2>9 DEF IInv
<1>9. ASSUME NEW o \in Sends, CommitSend(o) PROVE IInv'
  <2> DEFINE at == Stamp(o)
  <2>1. /\ UNCHANGED <<now, sentAt, receiptAt, recorded, placed, lastSeen, opened, read, optedOut>>
        /\ send[o].st = "checked" /\ conv' = Touch(at)
        /\ send' = [send EXCEPT ![o] = [send[o] EXCEPT !.st = "committed", !.at = at]]
    BY <1>9 DEF CommitSend, clockVars
  <2>2. at \in Times /\ at \in Int BY <1>t, <1>n DEF Stamp, SendRows
  <2> HIDE DEF at
  <2>3. conv.exists BY <2>1, <1>h DEF NothingBeforeThread
  <2>4. /\ conv' \in ConvRows /\ conv'.exists /\ conv'.exists = conv.exists
        /\ conv'.window = conv.window /\ conv'.unread = conv.unread
        /\ conv.last < at => conv'.last = at
        /\ ~(conv.last < at) => conv'.last = conv.last
    <3>1. \A c \in ConvRows : /\ [c EXCEPT !.last = at] \in ConvRows
                              /\ [c EXCEPT !.last = at].exists = c.exists
                              /\ [c EXCEPT !.last = at].window = c.window
                              /\ [c EXCEPT !.last = at].unread = c.unread
                              /\ [c EXCEPT !.last = at].last = at
      BY <2>2 DEF ConvRows
    <3>2. CASE conv.last < at BY <3>1, <3>2, <2>1, <2>3, <1>t DEF Touch
    <3>3. CASE ~(conv.last < at) BY <3>3, <2>1, <2>3, <1>t DEF Touch
    <3> QED BY <3>2, <3>3
  <2>5. /\ send' \in [Sends -> SendRows]
        /\ send'[o].st = "committed" /\ send'[o].at = at
        /\ send'[o].kind = send[o].kind /\ send'[o].checked = send[o].checked
        /\ \A q \in Sends \ {o} : send'[q] = send[q]
    <3>1. \A x \in SendRows :
            /\ [x EXCEPT !.st = "committed", !.at = at] \in SendRows
            /\ [x EXCEPT !.st = "committed", !.at = at].st = "committed"
            /\ [x EXCEPT !.st = "committed", !.at = at].at = at
            /\ [x EXCEPT !.st = "committed", !.at = at].kind = x.kind
            /\ [x EXCEPT !.st = "committed", !.at = at].checked = x.checked
      BY <2>2 DEF SendRows, SendStates
    <3>2. send[o] \in SendRows BY <1>t
    <3> QED BY <3>1, <3>2, <2>1, <1>t
  <2>6. TypeOK' BY <2>1, <2>4, <2>5, <1>t DEF TypeOK, ConvRows, SendRows
  <2>7. StampsArePast' /\ NothingBeforeThread' /\ ReadIsStored'
    BY <2>1, <2>4, <1>h DEF StampsArePast, NothingBeforeThread, ReadIsStored
  <2>8. UnreadIsExact' /\ WindowIsEarned' /\ MeteredOnce'
    BY <2>1, <2>4, <1>h DEF UnreadIsExact, WindowIsEarned, MeteredOnce, ServiceWindowEnd
  <2>9. JudgedInWindow'
    BY <2>1, <2>5, <1>h DEF JudgedInWindow, InWindow, ServiceWindowEnd
  <2>10. LastMessageIsNewest'
    <3>1. /\ Committed' = Committed \union {o} /\ o \notin Committed
          /\ \A q \in Committed : send'[q] = send[q]
      BY <2>1, <2>5 DEF Committed
    <3>0. conv.last \in Int BY <1>t, <1>n DEF ConvRows
    <3>2. conv.last <= conv'.last /\ at <= conv'.last
      BY <3>0, <2>2, <2>4
    <3>3. conv'.last \in Int BY <2>4, <1>n DEF ConvRows
    <3>4. \A k \in recorded : sentAt[k] \in Int /\ sentAt[k] <= conv.last
      BY <2>3, <1>t, <1>n, <1>h DEF LastMessageIsNewest
    <3>5. \A q \in Committed : send[q].at \in Int /\ send[q].at <= conv.last
      BY <2>3, <1>t, <1>n, <1>h DEF LastMessageIsNewest, Committed, SendRows
    <3>6. \A k \in recorded' : sentAt'[k] <= conv'.last BY <3>0, <3>2, <3>3, <3>4, <2>1
    <3>7. \A q \in Committed' : send'[q].at <= conv'.last
      BY <3>0, <3>1, <3>2, <3>3, <3>5, <2>2, <2>5
    <3>8. \/ \E k \in recorded' : conv'.last = sentAt'[k]
          \/ \E q \in Committed' : conv'.last = send'[q].at
          \/ \E f \in placed' : conv'.last = receiptAt'[f]
      <4>1. CASE conv.last < at BY <4>1, <3>1, <2>4, <2>5
      <4>2. CASE ~(conv.last < at)
        BY <4>2, <3>1, <2>1, <2>3, <2>4, <1>h DEF LastMessageIsNewest
      <4> QED BY <4>1, <4>2
    <3> QED BY <3>6, <3>7, <3>8 DEF LastMessageIsNewest
  <2> QED BY <2>6, <2>7, <2>8, <2>9, <2>10 DEF IInv
<1>10. ASSUME NEW o \in Sends, RefuseSend(o) PROVE IInv'
  <2>1. /\ UNCHANGED <<now, sentAt, receiptAt, recorded, placed, conv, lastSeen, opened, read, optedOut>>
        /\ send[o].st = "checked" /\ send' = [send EXCEPT ![o] = [send[o] EXCEPT !.st = "refused"]]
    BY <1>10 DEF RefuseSend, clockVars
  <2>2. /\ send' \in [Sends -> SendRows] /\ send'[o].st = "refused"
        /\ \A q \in Sends \ {o} : send'[q] = send[q]
    <3>1. \A x \in SendRows : /\ [x EXCEPT !.st = "refused"] \in SendRows
                              /\ [x EXCEPT !.st = "refused"].st = "refused"
      BY DEF SendRows, SendStates
    <3>2. send[o] \in SendRows BY <1>t
    <3> QED BY <3>1, <3>2, <2>1, <1>t
  <2>3. Committed' = Committed /\ \A q \in Committed : send'[q] = send[q]
    BY <2>1, <2>2 DEF Committed
  <2>4. TypeOK' BY <2>1, <2>2, <1>t DEF TypeOK, ConvRows, SendRows
  <2>5. StampsArePast' BY <2>1, <1>h DEF StampsArePast
  <2>6. NothingBeforeThread' BY <2>1, <1>h DEF NothingBeforeThread
  <2>7. ReadIsStored' /\ UnreadIsExact' /\ WindowIsEarned' /\ MeteredOnce' BY <2>1, StoreFrame
  <2>8. JudgedInWindow' BY <2>1, <2>2, <1>h DEF JudgedInWindow, InWindow, ServiceWindowEnd
  <2>9. LastMessageIsNewest' BY <2>1, <2>3, <1>h DEF LastMessageIsNewest
  <2> QED BY <2>4, <2>5, <2>6, <2>7, <2>8, <2>9 DEF IInv
<1>11. CASE UNCHANGED vars
  <2>1. UNCHANGED <<now, sentAt, receiptAt, recorded, placed, conv, lastSeen, opened, read, send, optedOut>>
    BY <1>11 DEF vars
  <2>2. TypeOK' BY <2>1, <1>t DEF TypeOK, ConvRows, SendRows
  <2>3. StampsArePast' /\ NothingBeforeThread' BY <2>1, <1>h DEF StampsArePast, NothingBeforeThread
  <2>4. ReadIsStored' /\ UnreadIsExact' /\ WindowIsEarned' /\ MeteredOnce' BY <2>1, StoreFrame
  <2>5. JudgedInWindow' BY <2>1, JudgedFrame
  <2>6. LastMessageIsNewest' BY <2>1, NewestFrame
  <2> QED BY <2>2, <2>3, <2>4, <2>5, <2>6 DEF IInv
<1> QED
  BY <1>1, <1>2, <1>3, <1>4, <1>5, <1>6, <1>7, <1>8, <1>9, <1>10, <1>11 DEF Next

(* IInv holds in every reachable state. *)
THEOREM IInvInvariant == Spec => []IInv
<1>1. IInv /\ [Next]_vars => IInv' BY NextIInv
<1> QED BY InitIInv, <1>1, PTL DEF Spec

(* Every writer of the conversations row keeps it in its type. *)
THEOREM TypeCorrect == Spec => []TypeOK
<1>1. IInv => TypeOK BY DEF IInv
<1> QED BY IInvInvariant, <1>1, PTL

(* last_message_at is the newest message of the thread, in every order of    *)
(* deliveries, replays and replies.                                          *)
THEOREM LastIsNewest == Spec => []LastMessageIsNewest
<1>1. IInv => LastMessageIsNewest BY DEF IInv
<1> QED BY IInvInvariant, <1>1, PTL

(* unread_count counts every message stored since the last read once. *)
THEOREM UnreadCountsExactly == Spec => []UnreadIsExact
<1>1. IInv => UnreadIsExact BY DEF IInv
<1> QED BY IInvInvariant, <1>1, PTL

(* Only a customer message opens or extends the service window. *)
THEOREM WindowsAreEarned == Spec => []WindowIsEarned
<1>1. IInv => WindowIsEarned BY DEF IInv
<1> QED BY IInvInvariant, <1>1, PTL

(* A free-form message goes out only if it was judged inside a window that a *)
(* stored customer message opened.                                           *)
THEOREM FreeFormIsInWindow == Spec => []FreeFormInWindow
<1>1. IInv => FreeFormInWindow BY DEF IInv, JudgedInWindow, FreeFormInWindow, Committed
<1> QED BY IInvInvariant, <1>1, PTL

(* conversations_opened is metered once per thread. *)
THEOREM MeteredExactlyOnce == Spec => []MeteredOnce
<1>1. IInv => MeteredOnce BY DEF IInv
<1> QED BY IInvInvariant, <1>1, PTL

(* What covers a stored customer message is kept by every step that stores   *)
(* no new one and leaves the window and what is on the thread as it is.      *)
LEMMA WindowFrame ==
  ASSUME WindowLostToLaterRow, conv'.window = conv.window,
         recorded' = recorded, placed \subseteq placed',
         \A i \in recorded : sentAt'[i] = sentAt[i],
         \A f \in placed : receiptAt'[f] = receiptAt[f],
         \A o \in Committed : o \in Committed' /\ send'[o].at = send[o].at
  PROVE  WindowLostToLaterRow'
<1> SUFFICES ASSUME NEW i \in recorded
             PROVE  \/ conv'.window >= ServiceWindowEnd(sentAt'[i])
                    \/ \E o \in Committed' : send'[o].at >= sentAt'[i]
                    \/ \E f \in placed' : receiptAt'[f] >= sentAt'[i]
  BY DEF WindowLostToLaterRow, ServiceWindowEnd
<1>1. CASE conv.window >= ServiceWindowEnd(sentAt[i]) BY <1>1
<1>2. CASE \E o \in Committed : send[o].at >= sentAt[i] BY <1>2
<1>3. CASE \E f \in placed : receiptAt[f] >= sentAt[i] BY <1>3
<1> QED BY <1>1, <1>2, <1>3 DEF WindowLostToLaterRow

(* A step on the row of one reply that is not committed keeps the others.    *)
LEMMA CommittedFrame ==
  ASSUME NEW o \in Sends, NEW x, send \in [Sends -> SendRows], o \notin Committed,
         send' = [send EXCEPT ![o] = x]
  PROVE  \A k \in Committed : k \in Committed' /\ send'[k].at = send[k].at
BY DEF Committed

(* Every step keeps WindowLostToLaterRow. *)
LEMMA NextWindow == IInv /\ WindowLostToLaterRow /\ [Next]_vars => WindowLostToLaterRow'
<1> SUFFICES ASSUME IInv, WindowLostToLaterRow, [Next]_vars PROVE WindowLostToLaterRow'
  OBVIOUS
<1>t. /\ now \in 1..MaxTime
      /\ sentAt \in [Inbound -> Times] /\ receiptAt \in [Foreign -> Times]
      /\ recorded \subseteq Inbound /\ placed \subseteq Foreign
      /\ conv \in ConvRows /\ send \in [Sends -> SendRows]
  BY DEF IInv, TypeOK, ConvRows, SendRows
<1>h. StampsArePast /\ NothingBeforeThread /\ LastMessageIsNewest BY DEF IInv
<1>n. Times \subseteq Int BY DEF Times
<1>1. CASE Tick \/ OptOut \/ UNCHANGED vars
  <2>1. UNCHANGED <<sentAt, receiptAt, recorded, placed, conv, send>>
    BY <1>1 DEF Tick, OptOut, vars, clockVars
  <2>2. Committed' = Committed BY <2>1 DEF Committed
  <2> QED BY <2>1, <2>2, WindowFrame
<1>2. CASE MarkRead
  <2>1. /\ UNCHANGED <<sentAt, receiptAt, recorded, placed, send>>
        /\ conv' = [conv EXCEPT !.unread = 0]
    BY <1>2 DEF MarkRead, clockVars
  <2>2. conv'.window = conv.window BY <2>1, <1>t DEF ConvRows
  <2>3. Committed' = Committed BY <2>1 DEF Committed
  <2> QED BY <2>1, <2>2, <2>3, WindowFrame
<1>3. ASSUME NEW i \in Inbound, CustomerWrites(i) PROVE WindowLostToLaterRow'
  <2>1. /\ sentAt[i] = 0 /\ sentAt' = [sentAt EXCEPT ![i] = now]
        /\ UNCHANGED <<receiptAt, recorded, placed, conv, send>>
    BY <1>3 DEF CustomerWrites
  <2>2. \A k \in recorded : sentAt'[k] = sentAt[k] BY <2>1, <1>t, <1>h DEF StampsArePast
  <2>3. Committed' = Committed BY <2>1 DEF Committed
  <2> QED BY <2>1, <2>2, <2>3, WindowFrame
<1>4. ASSUME NEW f \in Foreign, MetaReports(f) PROVE WindowLostToLaterRow'
  <2>1. /\ receiptAt[f] = 0 /\ receiptAt' = [receiptAt EXCEPT ![f] = now]
        /\ UNCHANGED <<sentAt, recorded, placed, conv, send>>
    BY <1>4 DEF MetaReports
  <2>2. \A k \in placed : receiptAt'[k] = receiptAt[k] BY <2>1, <1>t, <1>h DEF StampsArePast
  <2>3. Committed' = Committed BY <2>1 DEF Committed
  <2> QED BY <2>1, <2>2, <2>3, WindowFrame
<1>5. ASSUME NEW i \in Inbound, ApplyInbound(i) PROVE WindowLostToLaterRow'
  <2> DEFINE at == sentAt[i]
             found == Opened(at, ServiceWindowEnd(at))
             Covered(k) == \/ conv'.window >= ServiceWindowEnd(sentAt[k])
                           \/ \E o \in Committed : send[o].at >= sentAt[k]
                           \/ \E f \in placed : receiptAt[f] >= sentAt[k]
  <2>1. /\ UNCHANGED <<sentAt, receiptAt, placed, send>>
        /\ recorded' = recorded \union {i}
        /\ conv' = IF IsNew(i) THEN Advance(found, at) ELSE found
    BY <1>5 DEF ApplyInbound, clockVars
  <2>2. at \in Times /\ \A k \in Inbound : sentAt[k] \in Int BY <1>t, <1>n
  <2>3. /\ found \in ConvRows
        /\ conv.exists => found = conv
        /\ ~conv.exists => found.last = at /\ found.window = ServiceWindowEnd(at)
    BY <2>2, <1>t, OpenedRow, WindowEndType
  <2>4. /\ i \in recorded => conv' = found
        /\ i \notin recorded =>
             /\ found.last < at => conv'.window = ServiceWindowEnd(at)
             /\ ~(found.last < at) => conv'.window = found.window
    BY <2>1, <2>2, <2>3, AdvanceRow DEF IsNew
  <2>5. \A k \in Inbound : /\ ServiceWindowEnd(sentAt[k]) \in Int
                           /\ at >= sentAt[k] => ServiceWindowEnd(at) >= ServiceWindowEnd(sentAt[k])
                           /\ sentAt[k] >= at => ServiceWindowEnd(sentAt[k]) >= ServiceWindowEnd(at)
    BY <2>2, WindowAssumption DEF ServiceWindowEnd
  <2>6. /\ conv.window \in Int /\ conv.last \in Int
        /\ \A o \in Committed : send[o].at \in Int
        /\ \A f \in placed : receiptAt[f] \in Int
    BY <1>t, <1>n, WindowAssumption, TimeAssumption DEF ConvRows, SendRows, Committed, Times
  <2>7. \A k \in recorded \union {i} : Covered(k)
    <3> HIDE DEF at, found
    <3>1. CASE i \in recorded
      <4>1. conv' = conv /\ recorded \union {i} = recorded
        BY <3>1, <2>3, <2>4, <1>h DEF NothingBeforeThread
      <4> QED BY <4>1 DEF WindowLostToLaterRow
    <3>2. CASE i \notin recorded /\ ~conv.exists
      <4>1. recorded = {} BY <3>2, <1>h DEF NothingBeforeThread
      <4>2. conv'.window = ServiceWindowEnd(at) BY <3>2, <2>3, <2>4
      <4> QED BY <4>1, <4>2, <2>2, <2>5 DEF at
    <3>3. CASE i \notin recorded /\ conv.exists /\ conv.last < at
      <4>1. conv'.window = ServiceWindowEnd(at) BY <3>3, <2>3, <2>4
      <4>2. \A k \in recorded : sentAt[k] <= conv.last BY <3>3, <1>h DEF LastMessageIsNewest
      <4>3. \A k \in recorded \union {i} : at >= sentAt[k]
        BY <4>2, <3>3, <2>2, <2>6, <1>t DEF at
      <4> QED BY <4>1, <4>3, <2>5, <1>t
    <3>4. CASE i \notin recorded /\ conv.exists /\ ~(conv.last < at)
      <4>1. conv'.window = conv.window BY <3>4, <2>3, <2>4
      <4>2. \A k \in recorded : Covered(k) BY <4>1 DEF WindowLostToLaterRow
      <4>3. conv.last >= at BY <3>4, <2>2, <2>6 DEF at
      <4>4. CASE \E k \in recorded : conv.last = sentAt[k]
        <5>1. PICK k \in recorded : conv.last = sentAt[k] BY <4>4
        <5>2. sentAt[k] >= at /\ k \in Inbound BY <5>1, <4>3, <1>t
        <5>3. Covered(k) BY <4>2
        <5>4. CASE conv'.window >= ServiceWindowEnd(sentAt[k])
          <6>1. conv'.window >= ServiceWindowEnd(at)
            BY <5>4, <5>2, <2>5, <2>6, <4>1 DEF at
          <6> QED BY <6>1, <4>2 DEF at
        <5>5. CASE \E o \in Committed : send[o].at >= sentAt[k]
          <6>1. \E o \in Committed : send[o].at >= at BY <5>5, <5>2, <2>2, <2>6 DEF at
          <6> QED BY <6>1, <4>2 DEF at
        <5>6. CASE \E f \in placed : receiptAt[f] >= sentAt[k]
          <6>1. \E f \in placed : receiptAt[f] >= at BY <5>6, <5>2, <2>2, <2>6 DEF at
          <6> QED BY <6>1, <4>2 DEF at
        <5> QED BY <5>3, <5>4, <5>5, <5>6
      <4>5. CASE \E o \in Committed : conv.last = send[o].at
        <5>1. \E o \in Committed : send[o].at >= at BY <4>5, <4>3
        <5> QED BY <5>1, <4>2 DEF at
      <4>6. CASE \E f \in placed : conv.last = receiptAt[f]
        <5>1. \E f \in placed : receiptAt[f] >= at BY <4>6, <4>3
        <5> QED BY <5>1, <4>2 DEF at
      <4> QED BY <3>4, <4>4, <4>5, <4>6, <1>h DEF LastMessageIsNewest
    <3> QED BY <3>1, <3>2, <3>3, <3>4
  <2>8. Committed' = Committed BY <2>1 DEF Committed
  <2> HIDE DEF at, found
  <2> QED BY <2>1, <2>7, <2>8 DEF WindowLostToLaterRow, ServiceWindowEnd
<1>6. ASSUME NEW f \in Foreign, PlaceReceipt(f) PROVE WindowLostToLaterRow'
  <2>1. /\ UNCHANGED <<sentAt, receiptAt, recorded, send>> /\ placed' = placed \union {f}
        /\ conv' = Opened(receiptAt[f], PlaceholderWindow(f))
    BY <1>6 DEF PlaceReceipt, clockVars
  <2>2. CASE conv.exists
    <3>1. conv' = conv BY <2>1, <2>2 DEF Opened
    <3>2. Committed' = Committed BY <2>1 DEF Committed
    <3> QED BY <2>1, <3>1, <3>2, WindowFrame
  <2>3. CASE ~conv.exists
    <3>1. recorded' = {} BY <2>1, <2>3, <1>h DEF NothingBeforeThread
    <3> QED BY <3>1 DEF WindowLostToLaterRow
  <2> QED BY <2>2, <2>3
<1>7. ASSUME NEW o \in Sends, CommitSend(o) PROVE WindowLostToLaterRow'
  <2>1. /\ UNCHANGED <<sentAt, receiptAt, recorded, placed>> /\ conv' = Touch(Stamp(o))
        /\ o \notin Committed
        /\ send' = [send EXCEPT ![o] = [send[o] EXCEPT !.st = "committed", !.at = Stamp(o)]]
    BY <1>7 DEF CommitSend, Committed, clockVars
  <2>2. conv'.window = conv.window BY <2>1, <1>t DEF Touch, ConvRows
  <2>3. \A k \in Committed : k \in Committed' /\ send'[k].at = send[k].at
    BY <2>1, <1>t, CommittedFrame
  <2> QED BY <2>1, <2>2, <2>3, WindowFrame
<1>8. ASSUME NEW o \in Sends, RefuseSend(o) \/ \E kind \in Kinds : PrepareSend(o, kind)
      PROVE  WindowLostToLaterRow'
  <2>1. /\ UNCHANGED <<sentAt, receiptAt, recorded, placed, conv>> /\ o \notin Committed
        /\ \E x : send' = [send EXCEPT ![o] = x]
    BY <1>8 DEF RefuseSend, PrepareSend, Committed, clockVars
  <2>2. \A k \in Committed : k \in Committed' /\ send'[k].at = send[k].at
    BY <2>1, <1>t, CommittedFrame
  <2> QED BY <2>1, <2>2, WindowFrame
<1> QED BY <1>1, <1>2, <1>3, <1>4, <1>5, <1>6, <1>7, <1>8 DEF Next

(* A stored customer message that does not keep the service window open has  *)
(* a reply or a receipt of the same or a later time beside it.               *)
THEOREM WindowsAreLostToLaterRows == Spec => []WindowLostToLaterRow
<1>1. Init => WindowLostToLaterRow BY DEF Init, WindowLostToLaterRow
<1>2. IInv /\ WindowLostToLaterRow /\ [Next]_vars => WindowLostToLaterRow' BY NextWindow
<1> QED BY IInvInvariant, <1>1, <1>2, PTL DEF Spec

-----------------------------------------------------------------------------
(* BotTurns: the rows its variables hold. *)
WorkerRows == [pc : PCs, m : Messages \cup {NoMessage}, bot : States, engaged : Nat,
               reason : Reasons, own : BOOLEAN]
JobRows == [st : {"none", "queued", "running", "done", "failed"}, tries : 0..MaxTries]
TurnRows == [out : Outcomes, at : Nat]
Lives == [replies : Nat, notices : Nat, raced : BOOLEAN]
Flying == {"gate", "suppress", "claim", "ask", "reply", "handoff"}

(* A worker has a message exactly when it has work. *)
WorkersAreSound ==
  \A w \in Workers : IF worker[w].pc = "idle" THEN worker[w] = IdleWorker ELSE worker[w].m \in Messages

BotTypes ==
  /\ deleted \in BOOLEAN
  /\ thread \in [bot : States, engaged : 0..clock]
  /\ ticket \in {"open", "pending"}
  /\ rows \in [Messages -> TurnRows]
  /\ job \in [Messages -> JobRows]
  /\ worker \in [Workers -> WorkerRows]
  /\ asker \in {"none", "read", "done"}
  /\ clock \in Nat
  /\ life \in Lives
  /\ answers \in [Messages -> Nat]
  /\ owed \subseteq Messages \X FollowUps /\ refused \subseteq Messages \X FollowUps
  /\ faults \in 0..MaxFaults /\ acts \in 0..MaxActs
  /\ WorkersAreSound

(* The types by rows, with the soundness of the workers. *)
LEMMA BotTypeParts == BotTypes <=> BotTypeOK /\ WorkersAreSound
BY DEF BotTypes, BotTypeOK, WorkerRows, JobRows, TurnRows, Lives

(* A worker without work. *)
LEMMA BotRows ==
  /\ IdleWorker \in WorkerRows /\ IdleWorker.pc = "idle" /\ IdleWorker.m = NoMessage
  /\ IdleWorker.engaged = Never /\ IdleWorker.own = FALSE
  /\ NoMessage \notin Messages
BY MessageAssumption DEF IdleWorker, WorkerRows, PCs, States, Reasons, Never

(* Who is in flight, by program counter. *)
LEMMA InFlightIsFlying ==
  ASSUME BotTypes
  PROVE  \A w : w \in InFlight <=> w \in Workers /\ worker[w].pc \in Flying
BY DEF BotTypes, WorkerRows, InFlight, Flying, PCs

(* One worker is written. *)
LEMMA SetWorkerFrame ==
  ASSUME worker \in [Workers -> WorkerRows], NEW w \in Workers, NEW s \in WorkerRows, SetWorker(w, s)
  PROVE  /\ worker' \in [Workers -> WorkerRows] /\ worker'[w] = s
         /\ \A v \in Workers \ {w} : worker'[v] = worker[v]
BY DEF SetWorker

(* One job is written. *)
LEMMA SetJobFrame ==
  ASSUME job \in [Messages -> JobRows], NEW m \in Messages,
         NEW st \in {"none", "queued", "running", "done", "failed"}, NEW n \in 0..MaxTries, SetJob(m, st, n)
  PROVE  job' \in [Messages -> JobRows]
<1>1. [st |-> st, tries |-> n] \in JobRows BY DEF JobRows
<1> QED BY <1>1 DEF SetJob

(* One row of bot_turns is written. *)
LEMMA SetRowFrame ==
  ASSUME rows \in [Messages -> TurnRows], NEW m \in Messages, NEW out \in Outcomes, NEW at \in Nat,
         SetRow(m, out, at)
  PROVE  /\ rows' \in [Messages -> TurnRows] /\ rows'[m].out = out /\ rows'[m].at = at
         /\ \A n \in Messages \ {m} : rows'[n] = rows[n]
<1>1. PICK r : r = [out |-> out, at |-> at] OBVIOUS
<1>2. r \in TurnRows /\ r.out = out /\ r.at = at BY <1>1 DEF TurnRows
<1>3. rows' = [rows EXCEPT ![m] = r] BY <1>1 DEF SetRow
<1> QED BY <1>2, <1>3

(* The end of a handler. *)
LEMMA FinishFrame ==
  ASSUME BotTypes, NEW w \in Workers, worker[w].pc # "idle", Finish(w)
  PROVE  /\ worker' \in [Workers -> WorkerRows] /\ worker'[w] = IdleWorker
         /\ \A v \in Workers \ {w} : worker'[v] = worker[v]
         /\ job' \in [Messages -> JobRows]
<1>1. SetWorker(w, IdleWorker) BY DEF Finish
<1>2. worker[w].m \in Messages BY DEF BotTypes, WorkersAreSound
<1>3. job' \in [Messages -> JobRows]
  <2>1. CASE job[worker[w].m].st = "running"
    <3>1. SetJob(worker[w].m, "done", 0) BY <2>1 DEF Finish
    <3>2. 0 \in 0..MaxTries BY BoundsAssumption
    <3> QED BY <3>1, <3>2, <1>2, SetJobFrame DEF BotTypes
  <2>2. CASE job[worker[w].m].st # "running" BY <2>2 DEF Finish, BotTypes
  <2> QED BY <2>1, <2>2
<1> QED BY <1>1, <1>3, BotRows, SetWorkerFrame DEF BotTypes

-----------------------------------------------------------------------------
(* What a step of the model of the bot's turns does, by kind. *)

WorkersBut(w) == /\ worker' \in [Workers -> WorkerRows]
                 /\ \A v \in Workers \ {w} : worker'[v] = worker[v]
RowsBut(m) == /\ rows' \in [Messages -> TurnRows]
              /\ \A n \in Messages \ {m} : rows'[n] = rows[n]
Background ==
  /\ job' \in [Messages -> JobRows] /\ ticket' \in {"open", "pending"} /\ asker' \in {"none", "read", "done"}
  /\ acts' \in 0..MaxActs /\ faults' \in 0..MaxFaults /\ faults' >= faults
  /\ deleted' \in BOOLEAN /\ (deleted = TRUE => deleted' = TRUE)
  /\ refused' \subseteq Messages \X FollowUps /\ refused \subseteq refused'
SameTurn(w) == /\ worker'[w].m = worker[w].m /\ worker'[w].bot = worker[w].bot
               /\ worker'[w].engaged = worker[w].engaged

(* The queue, and the people who take or release the thread. *)
Outside ==
  /\ Background
  /\ thread' \in [bot : States, engaged : 0..clock] /\ thread'.engaged = thread.engaged
  /\ thread'.bot \in {thread.bot, "handed_off", "human_active"}
  /\ thread.bot = "human_active" => thread'.bot = "human_active"
  /\ UNCHANGED <<rows, worker, clock, ghostVars>>
(* The thread is closed. *)
Resets ==
  /\ SetStatus /\ Background
  /\ thread' = [bot |-> "off", engaged |-> Never] /\ life' = NewLife(InFlight # {})
  /\ UNCHANGED <<rows, worker, clock, answers, owed>>
(* A turn starts. *)
Starts(w, m) ==
  /\ Background /\ WorkersBut(w) /\ worker[w].pc = "idle"
  /\ worker'[w].pc = "gate" /\ worker'[w].m = m /\ worker'[w].own = FALSE
  /\ worker'[w].bot = thread.bot /\ worker'[w].engaged = thread.engaged
  /\ life' \in Lives /\ life'.replies = life.replies /\ life'.notices = life.notices
  /\ life'.raced = (life.raced \/ InFlight # {})
  /\ UNCHANGED <<thread, rows, clock, answers, owed>>
(* It goes on. *)
Advances(w) ==
  /\ Background /\ WorkersBut(w) /\ SameTurn(w) /\ worker'[w].own = worker[w].own
  /\ \/ worker[w].pc = "gate" /\ worker'[w].pc = "suppress"
     \/ worker[w].pc = "gate" /\ worker'[w].pc = "handoff" /\ ~Released(worker[w])
     \/ /\ worker[w].pc = "gate" /\ worker'[w].pc = "claim" /\ ~Released(worker[w])
        /\ ~(RepliesSince(worker[w].engaged) >= MaxBotTurns)
     \/ worker[w].pc = "ask" /\ worker'[w].pc \in {"handoff", "reply"}
  /\ UNCHANGED <<thread, rows, clock, ghostVars>>
(* It ends without a word. *)
Abandons(w) ==
  /\ Background /\ WorkersBut(w) /\ worker[w].pc # "idle" /\ worker'[w] = IdleWorker
  /\ \/ rows' = rows /\ faults' > 0
     \/ /\ rows' = rows /\ deleted' = TRUE
        /\ worker[w].pc \in Flying \/ (worker[w].pc = "follow" /\ FollowUp(worker[w]) = "route")
     \/ rows' = rows /\ worker[w].pc \in {"gate", "suppress", "claim"}
     \/ rows' = rows /\ worker[w].pc = "handoff" /\ worker[w].own = FALSE
     \/ /\ RowsBut(worker[w].m) /\ rows'[worker[w].m].out = "suppressed"
        /\ worker[w].own = TRUE \/ rows[worker[w].m].out = "none"
        /\ worker[w].pc \in Flying
  /\ UNCHANGED <<thread, clock, ghostVars>>
(* It claims its message. *)
TakesClaim(w) ==
  /\ Background /\ WorkersBut(w) /\ SameTurn(w) /\ worker[w].pc = "claim"
  /\ worker'[w].pc = "ask" /\ worker'[w].own = TRUE
  /\ rows[worker[w].m].out = "none"
  /\ RowsBut(worker[w].m) /\ rows'[worker[w].m].out = "claimed" /\ rows'[worker[w].m].at = clock
  /\ UNCHANGED <<thread, clock, ghostVars>>
Commits(w, to) == /\ Background /\ WorkersBut(w)
                  /\ worker'[w].pc = "dispatch" /\ worker'[w].m = worker[w].m /\ worker'[w].own = FALSE
                  /\ worker'[w].engaged = Never /\ worker'[w].bot = to
(* It replies. *)
Speaks(w) ==
  LET m == worker[w].m
      engaged == IF worker[w].engaged = Never THEN clock + 1 ELSE thread.engaged
  IN /\ Commits(w, "bot_active") /\ worker[w].pc = "reply"
     /\ RowsBut(m) /\ rows'[m].out = "replied" /\ rows'[m].at = rows[m].at
     /\ thread' = IF thread.bot = "human_active" THEN thread ELSE [bot |-> "bot_active", engaged |-> engaged]
     /\ owed' \subseteq Messages \X FollowUps
     /\ \A o \in owed' : o \in owed \/ (o[1] = m /\ o[2] \in {"deliver", "evaluate"})
     /\ clock' = clock + 1
     /\ answers' = [answers EXCEPT ![m] = @ + 1]
     /\ life' \in Lives /\ life'.replies = life.replies + 1 /\ life'.notices = life.notices
     /\ life'.raced = life.raced
(* It hands off. *)
HandsOver(w) ==
  LET m == worker[w].m
  IN /\ Commits(w, "handed_off") /\ worker[w].pc = "handoff"
     /\ \/ worker[w].own = FALSE /\ rows' = rows
        \/ /\ worker[w].own = TRUE
           /\ RowsBut(m) /\ rows'[m].out = "handed_off"
     /\ thread' = IF thread.bot = "human_active" THEN thread
                  ELSE [bot |-> "handed_off", engaged |-> thread.engaged]
     /\ owed' \subseteq Messages \X FollowUps
     /\ \A o \in owed' : o \in owed \/ (o[1] = m /\ o[2] \in {"deliver", "route"})
     /\ life' \in Lives /\ life'.replies = life.replies /\ life'.notices = life.notices + 1
     /\ life'.raced = life.raced
     /\ UNCHANGED <<clock, answers>>
(* It enqueues the delivery, or is refused. *)
EnqueuesDelivery(w) ==
  /\ Background /\ WorkersBut(w) /\ SameTurn(w) /\ worker'[w].own = worker[w].own
  /\ worker[w].pc = "dispatch" /\ worker'[w].pc = "follow"
  /\ owed' \subseteq owed /\ <<worker[w].m, "deliver">> \notin owed' \ refused'
  /\ UNCHANGED <<thread, rows, clock, life, answers>>
(* It enqueues the rest, or is refused. *)
EnqueuesRest(w) ==
  /\ Background /\ WorkersBut(w) /\ worker[w].pc = "follow" /\ worker'[w] = IdleWorker
  /\ owed' \subseteq owed /\ <<worker[w].m, FollowUp(worker[w])>> \notin owed' \ refused'
  /\ UNCHANGED <<thread, rows, clock, life, answers>>

BotKind ==
  \/ Outside \/ Resets
  \/ \E w \in Workers, m \in Messages : Starts(w, m)
  \/ \E w \in Workers : \/ Advances(w) \/ Abandons(w) \/ TakesClaim(w) \/ Speaks(w)
                        \/ HandsOver(w) \/ EnqueuesDelivery(w) \/ EnqueuesRest(w)

(* The columns no step of a turn looks at keep their types. *)
LEMMA BackgroundFrame ==
  ASSUME BotTypes, job' \in [Messages -> JobRows], ticket' \in {"open", "pending"},
         UNCHANGED <<deleted, asker, boundVars>>,
         refused' \subseteq Messages \X FollowUps, refused \subseteq refused'
  PROVE  Background
<1>1. UNCHANGED <<asker, faults, acts>> BY DEF boundVars
<1>2. faults' >= faults BY <1>1 DEF BotTypes
<1> QED BY <1>1, <1>2 DEF BotTypes, Background

(* They do so also when nothing is refused. *)
LEMMA UnrefusedFrame ==
  ASSUME BotTypes, job' \in [Messages -> JobRows], ticket' \in {"open", "pending"},
         UNCHANGED <<deleted, refused, asker, boundVars>>
  PROVE  Background
<1>1. refused' \subseteq Messages \X FollowUps /\ refused \subseteq refused' BY DEF BotTypes
<1> QED BY <1>1, BackgroundFrame

(* A worker that goes on keeps its snapshot. *)
LEMMA GotoFrame ==
  ASSUME BotTypes, NEW w \in Workers, NEW pc \in PCs, NEW reason \in Reasons, NEW own \in BOOLEAN,
         NEW s, s = [worker[w] EXCEPT !.pc = pc, !.reason = reason, !.own = own], SetWorker(w, s)
  PROVE  WorkersBut(w) /\ SameTurn(w) /\ worker'[w].pc = pc /\ worker'[w].own = own
<1>2. worker[w] \in WorkerRows BY DEF BotTypes
<1>3. /\ s \in WorkerRows /\ s.pc = pc /\ s.own = own
      /\ s.m = worker[w].m /\ s.bot = worker[w].bot /\ s.engaged = worker[w].engaged
  BY <1>2 DEF WorkerRows
<1>5. /\ worker' \in [Workers -> WorkerRows] /\ worker'[w] = s
      /\ \A v \in Workers \ {w} : worker'[v] = worker[v]
  BY <1>3, SetWorkerFrame DEF BotTypes
<1> QED BY <1>3, <1>5 DEF WorkersBut, SameTurn

(* It moves on ... *)
LEMMA GotoOnly ==
  ASSUME BotTypes, NEW w \in Workers, NEW pc \in PCs, Goto(w, pc)
  PROVE  WorkersBut(w) /\ SameTurn(w) /\ worker'[w].pc = pc /\ worker'[w].own = worker[w].own
<1>1. worker[w] \in WorkerRows BY DEF BotTypes
<1>2. PICK reason \in Reasons, own \in BOOLEAN : reason = worker[w].reason /\ own = worker[w].own
  BY <1>1 DEF WorkerRows
<1>3. PICK s : s = [worker[w] EXCEPT !.pc = pc] OBVIOUS
<1>4. s = [worker[w] EXCEPT !.pc = pc, !.reason = reason, !.own = own]
  BY <1>1, <1>2, <1>3 DEF WorkerRows
<1>5. SetWorker(w, s) BY <1>3 DEF Goto
<1>6. WorkersBut(w) /\ SameTurn(w) /\ worker'[w].pc = pc /\ worker'[w].own = own
  BY <1>4, <1>5, GotoFrame
<1> QED BY <1>2, <1>6

(* ... or turns to the handoff. *)
LEMMA HandOffNextOnly ==
  ASSUME BotTypes, NEW w \in Workers, NEW reason \in Reasons, HandOffNext(w, reason)
  PROVE  WorkersBut(w) /\ SameTurn(w) /\ worker'[w].pc = "handoff" /\ worker'[w].own = worker[w].own
<1>1. worker[w] \in WorkerRows BY DEF BotTypes
<1>2. worker[w].own \in BOOLEAN /\ "handoff" \in PCs BY <1>1 DEF WorkerRows, PCs
<1>3. PICK s : s = [worker[w] EXCEPT !.pc = "handoff", !.reason = reason] OBVIOUS
<1>4. s = [worker[w] EXCEPT !.pc = "handoff", !.reason = reason, !.own = worker[w].own]
  BY <1>1, <1>3 DEF WorkerRows
<1>5. SetWorker(w, s) BY <1>3 DEF HandOffNext
<1> QED BY <1>2, <1>4, <1>5, GotoFrame

(* The worker of a committed turn. *)
LEMMA CommitFrame ==
  ASSUME BotTypes, NEW w \in Workers, worker[w].pc # "idle", NEW to \in States, CommitTurn(w, to)
  PROVE  /\ WorkersBut(w)
         /\ worker'[w].pc = "dispatch" /\ worker'[w].m = worker[w].m /\ worker'[w].own = FALSE
         /\ worker'[w].engaged = Never /\ worker'[w].bot = to
<1>1. PICK s : s = [IdleWorker EXCEPT !.pc = "dispatch", !.m = worker[w].m, !.bot = to] OBVIOUS
<1>2. worker[w].m \in Messages BY DEF BotTypes, WorkersAreSound
<1>3. s = [pc |-> "dispatch", m |-> worker[w].m, bot |-> to, engaged |-> Never,
           reason |-> "no_match", own |-> FALSE]
  BY <1>1 DEF IdleWorker
<1>4. /\ s \in WorkerRows /\ s.pc = "dispatch" /\ s.m = worker[w].m /\ s.own = FALSE
      /\ s.engaged = Never /\ s.bot = to
  BY <1>2, <1>3 DEF WorkerRows, PCs, States, Reasons, Never
<1>5. SetWorker(w, s) BY <1>1 DEF CommitTurn
<1> QED BY <1>4, <1>5, SetWorkerFrame DEF BotTypes, WorkersBut

(* Finishing leaves the columns outside the turn alone. *)
LEMMA AbandonFrame ==
  ASSUME BotTypes, NEW w \in Workers, worker[w].pc # "idle", Finish(w),
         UNCHANGED <<deleted, thread, ticket, asker, clock, ghostVars, boundVars>>
  PROVE  /\ Background /\ WorkersBut(w) /\ worker'[w] = IdleWorker
         /\ UNCHANGED <<thread, clock, ghostVars>>
<1>1. ticket' \in {"open", "pending"} /\ UNCHANGED refused BY DEF BotTypes, ghostVars
<1> QED BY <1>1, FinishFrame, UnrefusedFrame DEF WorkersBut

(* A job is queued. *)
LEMMA TriggerKind == ASSUME BotTypes, NEW m \in Messages, TriggerBot(m) PROVE Outside
<1>1. job' \in [Messages -> JobRows] 
  <2>1. 0 \in 0..MaxTries BY BoundsAssumption
  <2> QED BY <2>1, SetJobFrame DEF TriggerBot, BotTypes
<1>2. ticket' \in {"open", "pending"} BY DEF TriggerBot, BotTypes
<1>3. Background BY <1>1, <1>2, UnrefusedFrame DEF TriggerBot, ghostVars
<1> QED BY <1>3 DEF TriggerBot, Outside, BotTypes

(* A fault is counted, ... *)
LEMMA FaultFrame ==
  ASSUME BotTypes, Fault, job' \in [Messages -> JobRows], UNCHANGED <<deleted, refused, ticket, asker>>
  PROVE  Background /\ faults' > 0
<1>1. faults' \in 0..MaxFaults /\ faults' >= faults /\ faults' > 0 
  BY BoundsAssumption DEF Fault, BotTypes
<1> QED BY <1>1 DEF Fault, BotTypes, Background

(* ... and so is a person's step. *)
LEMMA ActFrame ==
  ASSUME BotTypes, Act, job' = job, UNCHANGED <<deleted, refused, ticket, asker>>
  PROVE  Background
<1>1. faults' \in 0..MaxFaults /\ faults' >= faults BY DEF Act, BotTypes
<1>2. acts' \in 0..MaxActs BY BoundsAssumption DEF Act, BotTypes
<1> QED BY <1>1, <1>2 DEF Act, BotTypes, Background

(* A job is delivered a second time. *)
LEMMA StallKind == ASSUME BotTypes, NEW m \in Messages, Stall(m) PROVE Outside
<1>1. job[m].tries \in 0..MaxTries BY DEF BotTypes, JobRows
<1>2. job' \in [Messages -> JobRows] BY <1>1, SetJobFrame DEF Stall, BotTypes
<1>3. Background BY <1>2, FaultFrame DEF Stall, ghostVars
<1> QED BY <1>3 DEF Stall, Outside, BotTypes

(* A person takes the thread, ... *)
LEMMA TakeKind == ASSUME BotTypes, TakeThread PROVE Outside
<1>1. Background BY ActFrame DEF TakeThread, ghostVars
<1>2. PICK t : t = [thread EXCEPT !.bot = "human_active"] OBVIOUS
<1>3. t \in [bot : States, engaged : 0..clock] /\ t.engaged = thread.engaged /\ t.bot = "human_active"
  BY <1>2 DEF BotTypes, States
<1> QED BY <1>1, <1>2, <1>3 DEF TakeThread, Outside

(* ... closes it, ... *)
LEMMA ResetKind == ASSUME BotTypes, SetStatus PROVE Resets
<1>1. Background BY ActFrame DEF SetStatus
<1> QED BY <1>1 DEF SetStatus, Resets

(* ... reads that the bot is active, ... *)
LEMMA AskKind == ASSUME BotTypes, RequestFromAgent PROVE Outside
<1>1. UNCHANGED <<faults, acts>> /\ faults' >= faults BY DEF RequestFromAgent, boundVars, BotTypes
<1>2. Background BY <1>1 DEF RequestFromAgent, BotTypes, Background, ghostVars
<1> QED BY <1>2 DEF RequestFromAgent, Outside, BotTypes

(* The conversation moves, unless a person has it. *)
LEMMA MoveBotFrame ==
  ASSUME NEW to, NEW engaged, MoveBot(to, engaged)
  PROVE  thread' = IF thread.bot = "human_active" THEN thread ELSE [bot |-> to, engaged |-> engaged]
BY DEF MoveBot, Keeps

(* ... and records the handoff later. *)
LEMMA RecordKind == ASSUME BotTypes, RecordFromAgent PROVE Outside
<1>1. UNCHANGED <<faults, acts>> /\ faults' >= faults BY DEF RecordFromAgent, boundVars, BotTypes
<1>2. Background BY <1>1 DEF RecordFromAgent, BotTypes, Background, ghostVars
<1>3. \/ thread' = thread
      \/ thread' = IF thread.bot = "human_active" THEN thread
                   ELSE [bot |-> "handed_off", engaged |-> thread.engaged]
  BY MoveBotFrame DEF RecordFromAgent
<1>4. thread.engaged \in 0..clock BY DEF BotTypes
<1>5. /\ thread' \in [bot : States, engaged : 0..clock] /\ thread'.engaged = thread.engaged
      /\ thread'.bot \in {thread.bot, "handed_off"}
      /\ thread.bot = "human_active" => thread'.bot = "human_active"
  BY <1>3, <1>4 DEF BotTypes, States
<1> QED BY <1>2, <1>5 DEF RecordFromAgent, Outside

(* The tenant is deleted, ... *)
LEMMA DeleteKind == ASSUME BotTypes, DeleteTenant PROVE Outside
<1>1. /\ UNCHANGED <<thread, ticket, rows, job, worker, asker, clock, ghostVars, faults, acts>>
      /\ faults' >= faults /\ deleted' = TRUE
  BY DEF DeleteTenant, boundVars, BotTypes
<1>2. Background BY <1>1 DEF BotTypes, Background, ghostVars
<1> QED BY <1>1, <1>2 DEF Outside, BotTypes

(* ... which drops the jobs that wait. *)
LEMMA DropJobKind ==
  ASSUME BotTypes, NEW w \in Workers, NEW m \in Messages, DropJob(w, m) PROVE Outside
<1>1. 0 \in 0..MaxTries BY BoundsAssumption
<1>2. job' \in [Messages -> JobRows] BY <1>1, SetJobFrame DEF DropJob, BotTypes
<1>3. Background BY <1>2, UnrefusedFrame DEF DropJob, BotTypes, ghostVars
<1> QED BY <1>3 DEF DropJob, Outside, BotTypes

(* Nothing happens. *)
LEMMA StutterKind == ASSUME BotTypes, UNCHANGED botVars PROVE Outside
<1>1. /\ UNCHANGED <<deleted, thread, ticket, rows, job, worker, asker, clock, ghostVars, faults, acts>>
      /\ faults' >= faults
  BY DEF botVars, ghostVars, BotTypes
<1>2. Background BY <1>1 DEF BotTypes, Background, ghostVars
<1> QED BY <1>1, <1>2 DEF Outside, BotTypes

(* The snapshot starts a turn; *)
LEMMA SnapshotKind ==
  ASSUME BotTypes, NEW w \in Workers, NEW m \in Messages, Snapshot(w, m) PROVE Starts(w, m)
<1>1. job[m].tries \in 0..MaxTries BY DEF BotTypes, JobRows
<1>2. job' \in [Messages -> JobRows] BY <1>1, SetJobFrame DEF Snapshot, BotTypes
<1>3. Background BY <1>2, UnrefusedFrame DEF Snapshot, BotTypes
<1>4. PICK s : s = [IdleWorker EXCEPT !.pc = "gate", !.m = m, !.bot = thread.bot, !.engaged = thread.engaged]
  OBVIOUS
<1>5. thread.bot \in States /\ thread.engaged \in Nat BY DEF BotTypes
<1>6. s = [pc |-> "gate", m |-> m, bot |-> thread.bot, engaged |-> thread.engaged,
           reason |-> "no_match", own |-> FALSE]
  BY <1>4 DEF IdleWorker
<1>7. /\ s \in WorkerRows /\ s.pc = "gate" /\ s.m = m /\ s.own = FALSE
      /\ s.bot = thread.bot /\ s.engaged = thread.engaged
  BY <1>5, <1>6 DEF WorkerRows, PCs, Reasons
<1>8. SetWorker(w, s) BY <1>4 DEF Snapshot
<1>9. WorkersBut(w) /\ worker'[w] = s BY <1>7, <1>8, SetWorkerFrame DEF BotTypes, WorkersBut
<1>10. PICK b \in BOOLEAN : b = (life.raced \/ InFlight # {}) BY DEF BotTypes, Lives
<1>11. life' = [life EXCEPT !.raced = b] BY <1>10 DEF Snapshot
<1>12. /\ life' \in Lives /\ life'.replies = life.replies /\ life'.notices = life.notices
       /\ life'.raced = b
  BY <1>11 DEF BotTypes, Lives
<1> QED BY <1>3, <1>7, <1>9, <1>10, <1>12 DEF Snapshot, At, Starts

(* the gate lets it go on or drops it; *)
LEMMA DecideKind == ASSUME BotTypes, NEW w \in Workers, Decide(w) PROVE Advances(w) \/ Abandons(w)
<1>1. worker[w].pc = "gate" /\ worker[w].pc # "idle" BY DEF Decide, At
<1>2. UNCHANGED <<deleted, thread, ticket, rows, asker, clock, ghostVars, boundVars>> BY DEF Decide
<1>3. CASE Finish(w)
  <2>1. /\ Background /\ WorkersBut(w) /\ worker'[w] = IdleWorker
        /\ UNCHANGED <<thread, clock, ghostVars>>
    BY <1>1, <1>2, <1>3, AbandonFrame
  <2> QED BY <1>1, <1>2, <2>1 DEF Abandons
<1>4. ASSUME job' = job PROVE Background
  BY <1>2, <1>4, UnrefusedFrame DEF BotTypes, ghostVars
<1>5. CASE Goto(w, "suppress") /\ job' = job
  BY <1>1, <1>2, <1>4, <1>5, GotoOnly DEF Advances, PCs
<1>6. CASE /\ ~Released(worker[w]) /\ job' = job
           /\ \E reason \in Reasons : HandOffNext(w, reason)
  BY <1>1, <1>2, <1>4, <1>6, HandOffNextOnly DEF Advances
<1>7. CASE /\ ~Released(worker[w]) /\ job' = job
           /\ ~(RepliesSince(worker[w].engaged) >= MaxBotTurns) /\ Goto(w, "claim")
  BY <1>1, <1>2, <1>4, <1>7, GotoOnly DEF Advances, PCs
<1> QED BY <1>3, <1>5, <1>6, <1>7 DEF Decide, Reasons

(* a suppression ends it; *)
LEMMA SuppressKind == ASSUME BotTypes, NEW w \in Workers, Suppress(w) PROVE Abandons(w)
<1>1. worker[w].pc = "suppress" /\ worker[w].pc # "idle" BY DEF Suppress, At
<1>2. /\ Background /\ WorkersBut(w) /\ worker'[w] = IdleWorker
      /\ UNCHANGED <<thread, clock, ghostVars>>
  BY <1>1, AbandonFrame DEF Suppress
<1>3. CASE rows[worker[w].m].out = "none"
  <2>1. worker[w].m \in Messages /\ "suppressed" \in Outcomes BY <1>1 DEF BotTypes, WorkersAreSound, Outcomes
  <2>2. SetRow(worker[w].m, "suppressed", clock) BY <1>3 DEF Suppress
  <2>3. RowsBut(worker[w].m) /\ rows'[worker[w].m].out = "suppressed"
    BY <2>1, <2>2, SetRowFrame DEF BotTypes, RowsBut
  <2> QED BY <1>1, <1>2, <1>3, <2>3 DEF Abandons, Flying
<1>4. CASE rows[worker[w].m].out # "none" BY <1>1, <1>2, <1>4 DEF Suppress, Abandons
<1> QED BY <1>3, <1>4

(* the claim is its own or ends it; *)
LEMMA ClaimKind == ASSUME BotTypes, NEW w \in Workers, ClaimTurn(w) PROVE TakesClaim(w) \/ Abandons(w)
<1>1. worker[w].pc = "claim" /\ worker[w].pc # "idle" BY DEF ClaimTurn, At
<1>2. CASE rows[worker[w].m].out = "none"
  <2>1. worker[w].m \in Messages /\ "claimed" \in Outcomes BY <1>1 DEF BotTypes, WorkersAreSound, Outcomes
  <2>2. SetRow(worker[w].m, "claimed", clock) BY <1>2 DEF ClaimTurn, Unclaimed
  <2>3. RowsBut(worker[w].m) /\ rows'[worker[w].m].out = "claimed" /\ rows'[worker[w].m].at = clock
    BY <2>1, <2>2, SetRowFrame DEF BotTypes, RowsBut
  <2>4. job' = job /\ SetWorker(w, [worker[w] EXCEPT !.pc = "ask", !.own = TRUE])
    BY <1>2 DEF ClaimTurn, Unclaimed
  <2>5. Background BY <2>4, UnrefusedFrame DEF ClaimTurn, BotTypes, ghostVars
  <2>6. worker[w] \in WorkerRows BY DEF BotTypes
  <2>7. PICK reason \in Reasons : reason = worker[w].reason BY <2>6 DEF WorkerRows
  <2>8. PICK s : s = [worker[w] EXCEPT !.pc = "ask", !.own = TRUE] OBVIOUS
  <2>9. s = [worker[w] EXCEPT !.pc = "ask", !.reason = reason, !.own = TRUE]
    BY <2>6, <2>7, <2>8 DEF WorkerRows
  <2>10. SetWorker(w, s) /\ "ask" \in PCs BY <2>4, <2>8 DEF PCs
  <2>11. WorkersBut(w) /\ SameTurn(w) /\ worker'[w].pc = "ask" /\ worker'[w].own = TRUE
    BY <2>9, <2>10, GotoFrame
  <2> QED BY <1>1, <1>2, <2>3, <2>5, <2>11 DEF TakesClaim, ClaimTurn
<1>3. CASE rows[worker[w].m].out # "none"
  <2>1. Finish(w) /\ rows' = rows BY <1>3 DEF ClaimTurn, Unclaimed
  <2>2. /\ Background /\ WorkersBut(w) /\ worker'[w] = IdleWorker
        /\ UNCHANGED <<thread, clock, ghostVars>>
    BY <1>1, <2>1, AbandonFrame DEF ClaimTurn
  <2> QED BY <1>1, <2>1, <2>2 DEF Abandons
<1> QED BY <1>2, <1>3

(* the model's answer moves it on; *)
LEMMA AnswerKind == ASSUME BotTypes, NEW w \in Workers, Answer(w) PROVE Advances(w)
<1>1. worker[w].pc = "ask" BY DEF Answer, At
<1>2. UNCHANGED <<deleted, thread, ticket, rows, job, asker, clock, ghostVars, boundVars>> BY DEF Answer
<1>3. Background BY <1>2, UnrefusedFrame DEF BotTypes, ghostVars
<1>4. CASE \E reason \in Reasons : HandOffNext(w, reason)
  BY <1>1, <1>2, <1>3, <1>4, HandOffNextOnly DEF Advances
<1>5. CASE Goto(w, "reply")
  BY <1>1, <1>2, <1>3, <1>5, GotoOnly DEF Advances, PCs
<1> QED BY <1>4, <1>5 DEF Answer, Reasons

(* it may end for want of an answer, *)
LEMMA UnansweredKind == ASSUME BotTypes, NEW w \in Workers, SuppressUnanswered(w) PROVE Abandons(w)
<1>1. worker[w].pc = "handoff" /\ worker[w].pc # "idle" BY DEF SuppressUnanswered, At
<1>2. /\ Background /\ WorkersBut(w) /\ worker'[w] = IdleWorker
      /\ UNCHANGED <<thread, clock, ghostVars>>
  BY <1>1, AbandonFrame DEF SuppressUnanswered
<1>3. worker[w].own \in BOOLEAN BY DEF BotTypes, WorkerRows
<1>4. CASE worker[w].own = TRUE \/ rows[worker[w].m].out = "none"
  <2>1. worker[w].m \in Messages /\ "suppressed" \in Outcomes BY <1>1 DEF BotTypes, WorkersAreSound, Outcomes
  <2>2. PICK at : at = IF worker[w].own THEN rows[worker[w].m].at ELSE clock OBVIOUS
  <2>3. rows[worker[w].m].at \in Nat /\ clock \in Nat BY <2>1 DEF BotTypes, TurnRows
  <2>4. at \in Nat BY <2>2, <2>3
  <2>5. SetRow(worker[w].m, "suppressed", at) BY <1>4, <2>2 DEF SuppressUnanswered
  <2>6. RowsBut(worker[w].m) /\ rows'[worker[w].m].out = "suppressed"
    BY <2>1, <2>4, <2>5, SetRowFrame DEF BotTypes, RowsBut
  <2> QED BY <1>1, <1>2, <1>4, <2>6 DEF Abandons, Flying
<1>5. CASE ~(worker[w].own = TRUE \/ rows[worker[w].m].out = "none")
  <2>1. worker[w].own = FALSE /\ rows' = rows BY <1>3, <1>5 DEF SuppressUnanswered
  <2> QED BY <1>1, <1>2, <2>1 DEF Abandons
<1> QED BY <1>4, <1>5

(* with the process, *)
LEMMA CrashKind == ASSUME BotTypes, NEW w \in Workers, Crash(w) PROVE Abandons(w)
<1>1. worker[w].pc # "idle" BY DEF Crash, At
<1>2. worker[w].m \in Messages BY <1>1 DEF BotTypes, WorkersAreSound
<1>3. job[worker[w].m].tries \in 0..MaxTries BY <1>2 DEF BotTypes, JobRows
<1>4. job' \in [Messages -> JobRows] BY <1>2, <1>3, SetJobFrame DEF Crash, BotTypes
<1>5. Background /\ faults' > 0 BY <1>4, FaultFrame DEF Crash, ghostVars
<1>6. WorkersBut(w) /\ worker'[w] = IdleWorker
  BY BotRows, SetWorkerFrame DEF Crash, BotTypes, WorkersBut
<1> QED BY <1>1, <1>5, <1>6 DEF Crash, Abandons

(* or with a failed query; *)
LEMMA ThrowKind == ASSUME BotTypes, NEW w \in Workers, Throw(w) PROVE Abandons(w)
<1>1. worker[w].pc # "idle" BY DEF Throw
<1>2. PICK m \in Messages : m = worker[w].m BY <1>1 DEF BotTypes, WorkersAreSound
<1>3. job[m].tries \in 0..MaxTries BY <1>2 DEF BotTypes, JobRows
<1>4. job' \in [Messages -> JobRows]
  <2>1. CASE job[m].tries + 1 < MaxTries
    <3>1. job[m].tries + 1 \in 0..MaxTries BY <1>3, <2>1, BoundsAssumption
    <3>2. PICK n \in 0..MaxTries : n = job[m].tries + 1 BY <3>1
    <3>3. SetJob(m, "queued", n) BY <1>2, <2>1, <3>2 DEF Throw
    <3> QED BY <3>3, SetJobFrame DEF BotTypes
  <2>2. CASE ~(job[m].tries + 1 < MaxTries)
    <3>1. SetJob(m, "failed", MaxTries) BY <1>2, <2>2 DEF Throw
    <3>2. MaxTries \in 0..MaxTries BY BoundsAssumption
    <3> QED BY <3>1, <3>2, SetJobFrame DEF BotTypes
  <2> QED BY <2>1, <2>2
<1>5. Background /\ faults' > 0 BY <1>4, FaultFrame DEF Throw, ghostVars
<1>6. WorkersBut(w) /\ worker'[w] = IdleWorker
  BY BotRows, SetWorkerFrame DEF Throw, BotTypes, WorkersBut
<1> QED BY <1>1, <1>5, <1>6 DEF Throw, Abandons

(* or with its tenant; *)
LEMMA DropKind == ASSUME BotTypes, NEW w \in Workers, Drop(w) PROVE Abandons(w)
<1>1. /\ worker[w].pc # "idle"
      /\ worker[w].pc \in Flying \/ (worker[w].pc = "follow" /\ FollowUp(worker[w]) = "route")
  BY DEF Drop, At, BotTypes, WorkerRows, PCs, Flying
<1>2. /\ Background /\ WorkersBut(w) /\ worker'[w] = IdleWorker
      /\ UNCHANGED <<thread, clock, ghostVars>>
  BY <1>1, AbandonFrame DEF Drop
<1>3. rows' = rows /\ deleted' = TRUE BY DEF Drop, BotTypes
<1> QED BY <1>1, <1>2, <1>3 DEF Abandons

(* A follow-up is enqueued or refused. *)
LEMMA EnqueueFrame ==
  ASSUME BotTypes, NEW o \in Messages \X FollowUps, Enqueues(o) \/ IsRefused(o)
  PROVE  /\ owed' \subseteq owed /\ o \notin owed' \ refused'
         /\ refused' \subseteq Messages \X FollowUps /\ refused \subseteq refused'
BY DEF Enqueues, IsRefused, BotTypes

(* After its commit it enqueues the delivery, *)
LEMMA DispatchKind == ASSUME BotTypes, NEW w \in Workers, Dispatch(w) PROVE EnqueuesDelivery(w)
<1>1. worker[w].pc = "dispatch" BY DEF Dispatch, At
<1>2. PICK m \in Messages : m = worker[w].m BY <1>1 DEF BotTypes, WorkersAreSound
<1>3. <<m, "deliver">> \in Messages \X FollowUps BY DEF FollowUps
<1>4. /\ owed' \subseteq owed /\ <<m, "deliver">> \notin owed' \ refused'
      /\ refused' \subseteq Messages \X FollowUps /\ refused \subseteq refused'
  BY <1>2, <1>3, EnqueueFrame DEF Dispatch
<1>5. Background BY <1>4, BackgroundFrame DEF Dispatch, BotTypes
<1>6. WorkersBut(w) /\ SameTurn(w) /\ worker'[w].pc = "follow" /\ worker'[w].own = worker[w].own
  BY GotoOnly DEF Dispatch, PCs
<1> QED BY <1>1, <1>2, <1>4, <1>5, <1>6 DEF Dispatch, EnqueuesDelivery

(* and what else there is to enqueue. *)
LEMMA FollowKind == ASSUME BotTypes, NEW w \in Workers, Follow(w) PROVE EnqueuesRest(w)
<1>1. worker[w].pc = "follow" /\ worker[w].pc # "idle" BY DEF Follow, At
<1>2. /\ worker' \in [Workers -> WorkerRows] /\ worker'[w] = IdleWorker
      /\ \A v \in Workers \ {w} : worker'[v] = worker[v]
      /\ job' \in [Messages -> JobRows]
  BY <1>1, FinishFrame DEF Follow
<1>3. PICK m \in Messages : m = worker[w].m BY <1>1 DEF BotTypes, WorkersAreSound
<1>4. PICK f \in FollowUps : f = FollowUp(worker[w]) BY DEF FollowUp, FollowUps
<1>5. /\ owed' \subseteq owed /\ <<m, f>> \notin owed' \ refused'
      /\ refused' \subseteq Messages \X FollowUps /\ refused \subseteq refused'
  BY <1>3, <1>4, EnqueueFrame DEF Follow
<1>6. Background BY <1>2, <1>5, BackgroundFrame DEF Follow, BotTypes
<1> QED BY <1>1, <1>2, <1>3, <1>4, <1>5, <1>6 DEF Follow, EnqueuesRest, WorkersBut

(* The transaction of a reply, ... *)
LEMMA ReplyKind == ASSUME BotTypes, NEW w \in Workers, Reply(w) PROVE Speaks(w)
<1>1. worker[w].pc = "reply" /\ worker[w].pc # "idle" BY DEF Reply, At
<1>2. PICK m \in Messages : m = worker[w].m BY <1>1 DEF BotTypes, WorkersAreSound
<1>3. ticket' \in {"open", "pending"} /\ job' = job BY DEF Reply, BotTypes
<1>4. Background BY <1>3, UnrefusedFrame DEF Reply, BotTypes
<1>5. Commits(w, "bot_active") BY <1>1, <1>4, CommitFrame DEF Reply, Commits, States
<1>6. PICK at \in Nat : at = rows[m].at BY DEF BotTypes, TurnRows
<1>7. SetRow(m, "replied", at) BY <1>2, <1>6 DEF Reply
<1>8. RowsBut(m) /\ rows'[m].out = "replied" /\ rows'[m].at = rows[m].at
  BY <1>6, <1>7, SetRowFrame DEF BotTypes, RowsBut, Outcomes
<1>9. thread' = IF thread.bot = "human_active" THEN thread
                ELSE [bot |-> "bot_active",
                      engaged |-> IF worker[w].engaged = Never THEN clock + 1 ELSE thread.engaged]
  BY MoveBotFrame DEF Reply, SentAt
<1>10. /\ owed' \subseteq Messages \X FollowUps
       /\ \A o \in owed' : o \in owed \/ (o[1] = m /\ o[2] \in {"deliver", "evaluate"})
  BY <1>2 DEF Reply, BotTypes, FollowUps
<1>11. clock' = clock + 1 /\ answers' = [answers EXCEPT ![m] = @ + 1] BY <1>2 DEF Reply
<1>12. PICK n \in Nat : n = life.replies + 1 BY DEF BotTypes, Lives
<1>13. life' = [life EXCEPT !.replies = n] BY <1>12 DEF Reply
<1>14. life' \in Lives /\ life'.replies = n /\ life'.notices = life.notices /\ life'.raced = life.raced
  BY <1>13 DEF BotTypes, Lives
<1> QED BY <1>1, <1>2, <1>5, <1>8, <1>9, <1>10, <1>11, <1>12, <1>14 DEF Speaks

(* ... and that of a handoff. *)
LEMMA HandOffKind == ASSUME BotTypes, NEW w \in Workers, HandOff(w) PROVE HandsOver(w)
<1>1. worker[w].pc = "handoff" /\ worker[w].pc # "idle" BY DEF HandOff, At
<1>2. PICK m \in Messages : m = worker[w].m BY <1>1 DEF BotTypes, WorkersAreSound
<1>4. Background BY UnrefusedFrame DEF HandOff, BotTypes
<1>5. Commits(w, "handed_off") BY <1>1, <1>4, CommitFrame DEF HandOff, Commits, States
<1>6. worker[w].own \in BOOLEAN BY DEF BotTypes, WorkerRows
<1>7. \/ worker[w].own = FALSE /\ rows' = rows
      \/ worker[w].own = TRUE /\ RowsBut(m) /\ rows'[m].out = "handed_off"
  <2>1. CASE worker[w].own = TRUE
    <3>1. PICK at \in Nat : at = rows[m].at BY DEF BotTypes, TurnRows
    <3>2. SetRow(m, "handed_off", at) BY <1>2, <2>1, <3>1 DEF HandOff
    <3>3. RowsBut(m) /\ rows'[m].out = "handed_off"
      BY <3>2, SetRowFrame DEF BotTypes, RowsBut, Outcomes
    <3> QED BY <2>1, <3>3
  <2>2. CASE worker[w].own = FALSE BY <2>2 DEF HandOff
  <2> QED BY <1>6, <2>1, <2>2
<1>9. thread' = IF thread.bot = "human_active" THEN thread
                ELSE [bot |-> "handed_off", engaged |-> thread.engaged]
  BY MoveBotFrame DEF HandOff
<1>10. /\ owed' \subseteq Messages \X FollowUps
       /\ \A o \in owed' : o \in owed \/ (o[1] = m /\ o[2] \in {"deliver", "route"})
  BY <1>2 DEF HandOff, BotTypes, FollowUps
<1>11. UNCHANGED <<clock, answers>> BY DEF HandOff
<1>12. PICK n \in Nat : n = life.notices + 1 BY DEF BotTypes, Lives
<1>13. life' = [life EXCEPT !.notices = n] BY <1>12 DEF HandOff
<1>14. life' \in Lives /\ life'.notices = n /\ life'.replies = life.replies /\ life'.raced = life.raced
  BY <1>13 DEF BotTypes, Lives
<1> QED BY <1>1, <1>2, <1>5, <1>7, <1>9, <1>10, <1>11, <1>12, <1>14 DEF HandsOver

(* Every step is of one of the kinds. *)
LEMMA BotKinds == ASSUME BotTypes, [BotNext]_botVars PROVE BotKind
<1>1. ASSUME NEW m \in Messages, TriggerBot(m) \/ Stall(m) PROVE BotKind
  BY <1>1, TriggerKind, StallKind DEF BotKind
<1>2. ASSUME NEW w \in Workers, Step(w) PROVE BotKind
  BY <1>2, SnapshotKind, DecideKind, SuppressKind, ClaimKind, AnswerKind, ReplyKind, UnansweredKind,
     HandOffKind, DispatchKind, FollowKind, DropKind, DropJobKind DEF BotKind, Step
<1>3. ASSUME NEW w \in Workers, Crash(w) \/ Throw(w) PROVE BotKind
  BY <1>3, CrashKind, ThrowKind DEF BotKind
<1>4. CASE People BY <1>4, TakeKind, ResetKind, AskKind, RecordKind, DeleteKind DEF People, BotKind
<1>5. CASE UNCHANGED botVars BY <1>5, StutterKind DEF BotKind
<1> QED BY <1>1, <1>2, <1>3, <1>4, <1>5 DEF BotNext

-----------------------------------------------------------------------------
(* The inductive invariant. *)

(* The message is claimed while its turn is between the claim and the commit. *)
ClaimsHold == \A w \in Workers :
  /\ worker[w].own = TRUE => worker[w].pc \in {"ask", "reply", "handoff"} /\ rows[worker[w].m].out = "claimed"
  /\ worker[w].pc \in {"ask", "reply"} => worker[w].own = TRUE
(* One turn at a time holds the claim of a message. *)
ClaimsAlone == \A v, w \in Workers :
  worker[v].own = TRUE /\ worker[w].own = TRUE /\ worker[v].m = worker[w].m => v = w
(* Without a fault a claimed message has its turn, unless the tenant was deleted, ... *)
ClaimedHasWorker == faults = 0 => \A m \in Messages : rows[m].out = "claimed" /\ deleted = FALSE =>
  \E w \in Workers : worker[w].m = m /\ worker[w].own = TRUE
(* ... and what is owed, and neither refused nor a routing of a deleted tenant, *)
(* has the turn that pays it. *)
Stuck(o) == o \in refused \/ (o[2] = "route" /\ deleted = TRUE)
OwedHasWorker == faults = 0 => \A o \in owed : ~Stuck(o) => \E w \in Workers :
  /\ worker[w].m = o[1]
  /\ \/ worker[w].pc = "dispatch" /\ o[2] \in {"deliver", FollowUp(worker[w])}
     \/ worker[w].pc = "follow" /\ o[2] = FollowUp(worker[w])
(* A turn that saw the thread released goes nowhere. *)
ReleasedStops == \A w \in Workers :
  worker[w].pc \in Flying /\ Released(worker[w]) => worker[w].pc \in {"gate", "suppress"}
(* A turn claims its message at or after the stamp it saw, which is past. *)
SnapshotIsPast == \A w \in Workers :
  /\ worker[w].engaged <= clock
  /\ worker[w].own = TRUE => rows[worker[w].m].at >= worker[w].engaged

RepliedSince(engaged) == {m \in Messages : rows[m].out = "replied" /\ rows[m].at >= engaged}
RepliesAreFinite == IsFiniteSet(RepliedSince(0))
NobodyFlies == \A w \in Workers : worker[w].pc \notin Flying
(* No turn that is in flight can speak. *)
Mute == \A w \in Workers : worker[w].pc \in Flying => Released(worker[w])

(* As long as turns do not overlap: there is one at most, ... *)
OneFlight == \A v, w \in Workers : worker[v].pc \in Flying /\ worker[w].pc \in Flying => v = w
(* ... with a current view of the engagement, ... *)
SnapshotIsFresh == \A w \in Workers : worker[w].pc \in Flying => worker[w].engaged = thread.engaged
(* ... which has room for the reply it is preparing; ... *)
RoomToReply == \A w \in Workers : worker[w].pc \in {"claim", "ask", "reply"} =>
  RepliesSince(worker[w].engaged) < MaxBotTurns
(* ... the handoff message ends the engagement; ... *)
NoticeEnds == life.notices > 0 => life.notices = 1 /\ Released(thread) /\ Mute
(* ... a reply that found the thread taken left no stamp, and is the last; ... *)
UnstampedReply == thread.engaged = Never /\ life.replies > 0 =>
  life.replies = 1 /\ thread.bot = "human_active" /\ Mute
(* ... and those of a stamped engagement are counted. *)
StampedReplies == thread.engaged # Never =>
  life.replies <= RepliesSince(thread.engaged) /\ life.replies <= MaxBotTurns
Sequential == /\ OneFlight /\ SnapshotIsFresh /\ RoomToReply
              /\ NoticeEnds /\ UnstampedReply /\ StampedReplies

BotIInv == /\ BotTypes
           /\ ClaimsHold /\ ClaimsAlone /\ ClaimedHasWorker /\ OwedHasWorker
           /\ ReleasedStops /\ SnapshotIsPast /\ RepliesAreFinite /\ OneReplyOnRecord
           /\ life.raced = FALSE => Sequential

-----------------------------------------------------------------------------
(* The types are kept. *)

(* One worker is handed a message, keeps it, or lets go of it. *)
LEMMA SoundFrame ==
  ASSUME WorkersAreSound, NEW w \in Workers, WorkersBut(w),
         worker'[w] = IdleWorker \/ (worker'[w].pc # "idle" /\ worker'[w].m \in Messages)
  PROVE  WorkersAreSound'
BY BotRows DEF WorkersAreSound, WorkersBut

(* Every kind of step keeps the types. *)
LEMMA BotTypesNext == ASSUME BotTypes, [BotNext]_botVars PROVE BotTypes'
<1>1. BotKind BY BotKinds
<1>2. CASE Outside BY <1>2 DEF Outside, Background, BotTypes, WorkersAreSound, ghostVars
<1>3. CASE Resets
  <2>1. thread' \in [bot : States, engaged : 0..clock] BY <1>3 DEF Resets, BotTypes, States, Never
  <2>2. life' \in Lives BY <1>3 DEF Resets, NewLife, Lives
  <2> QED BY <1>3, <2>1, <2>2 DEF Resets, Background, BotTypes, WorkersAreSound
<1>4. ASSUME NEW w \in Workers, NEW m \in Messages, Starts(w, m) PROVE BotTypes'
  <2>1. WorkersAreSound' BY <1>4, SoundFrame DEF Starts, BotTypes
  <2> QED BY <1>4, <2>1 DEF Starts, Background, BotTypes, WorkersBut
<1>5. ASSUME NEW w \in Workers, Advances(w) PROVE BotTypes'
  <2>1. worker[w].pc # "idle" /\ worker'[w].pc # "idle" /\ worker'[w].m = worker[w].m
    BY <1>5 DEF Advances, SameTurn
  <2>2. WorkersAreSound' BY <1>5, <2>1, SoundFrame DEF Advances, BotTypes, WorkersAreSound
  <2> QED BY <1>5, <2>2 DEF Advances, Background, BotTypes, WorkersBut, ghostVars
<1>6. ASSUME NEW w \in Workers, Abandons(w) PROVE BotTypes'
  <2>1. WorkersAreSound' BY <1>6, SoundFrame DEF Abandons, BotTypes
  <2>2. rows' \in [Messages -> TurnRows] BY <1>6 DEF Abandons, RowsBut, BotTypes
  <2> QED BY <1>6, <2>1, <2>2 DEF Abandons, Background, BotTypes, WorkersBut, ghostVars
<1>7. ASSUME NEW w \in Workers, TakesClaim(w) PROVE BotTypes'
  <2>1. worker[w].pc # "idle" /\ worker'[w].pc # "idle" /\ worker'[w].m = worker[w].m
    BY <1>7 DEF TakesClaim, SameTurn
  <2>2. WorkersAreSound' BY <1>7, <2>1, SoundFrame DEF TakesClaim, BotTypes, WorkersAreSound
  <2> QED BY <1>7, <2>2 DEF TakesClaim, Background, BotTypes, WorkersBut, RowsBut, ghostVars
<1>8. ASSUME NEW w \in Workers, Speaks(w) PROVE BotTypes'
  <2>1. worker[w].pc # "idle" /\ worker'[w].pc # "idle" /\ worker'[w].m = worker[w].m
    BY <1>8 DEF Speaks, Commits
  <2>2. WorkersAreSound' BY <1>8, <2>1, SoundFrame DEF Speaks, Commits, BotTypes, WorkersAreSound
  <2>3. clock' = clock + 1 /\ clock' \in Nat BY <1>8 DEF Speaks, BotTypes
  <2>4. thread.engaged \in 0..clock' /\ clock + 1 \in 0..clock' /\ thread.bot \in States
    BY <2>3 DEF BotTypes
  <2>5. thread' \in [bot : States, engaged : 0..clock']
    <3>1. CASE thread.bot = "human_active"
      <4>1. thread' = thread BY <1>8, <3>1 DEF Speaks
      <4> QED BY <2>4, <4>1 DEF BotTypes
    <3>2. CASE thread.bot # "human_active"
      <4>1. PICK e \in 0..clock' : thread' = [bot |-> "bot_active", engaged |-> e]
        BY <1>8, <2>4, <3>2 DEF Speaks
      <4> QED BY <4>1 DEF States
    <3> QED BY <3>1, <3>2
  <2>6. worker[w].m \in Messages BY <2>1 DEF BotTypes, WorkersAreSound
  <2>7. answers' \in [Messages -> Nat] BY <1>8, <2>6 DEF Speaks, BotTypes
  <2> QED BY <1>8, <2>2, <2>3, <2>5, <2>7 DEF Speaks, Commits, Background, BotTypes, WorkersBut, RowsBut
<1>9. ASSUME NEW w \in Workers, HandsOver(w) PROVE BotTypes'
  <2>1. worker[w].pc # "idle" /\ worker'[w].pc # "idle" /\ worker'[w].m = worker[w].m
    BY <1>9 DEF HandsOver, Commits
  <2>2. WorkersAreSound' BY <1>9, <2>1, SoundFrame DEF HandsOver, Commits, BotTypes, WorkersAreSound
  <2>3. thread' \in [bot : States, engaged : 0..clock] BY <1>9 DEF HandsOver, BotTypes, States
  <2>4. rows' \in [Messages -> TurnRows] BY <1>9 DEF HandsOver, RowsBut, BotTypes
  <2> QED BY <1>9, <2>2, <2>3, <2>4 DEF HandsOver, Commits, Background, BotTypes, WorkersBut
<1>10. ASSUME NEW w \in Workers, EnqueuesDelivery(w) PROVE BotTypes'
  <2>1. worker[w].pc # "idle" /\ worker'[w].pc # "idle" /\ worker'[w].m = worker[w].m
    BY <1>10 DEF EnqueuesDelivery, SameTurn
  <2>2. WorkersAreSound' BY <1>10, <2>1, SoundFrame DEF EnqueuesDelivery, BotTypes, WorkersAreSound
  <2> QED BY <1>10, <2>2 DEF EnqueuesDelivery, Background, BotTypes, WorkersBut
<1>11. ASSUME NEW w \in Workers, EnqueuesRest(w) PROVE BotTypes'
  <2>1. WorkersAreSound' BY <1>11, SoundFrame DEF EnqueuesRest, BotTypes
  <2> QED BY <1>11, <2>1 DEF EnqueuesRest, Background, BotTypes, WorkersBut
<1> QED BY <1>1, <1>2, <1>3, <1>4, <1>5, <1>6, <1>7, <1>8, <1>9, <1>10, <1>11 DEF BotKind

-----------------------------------------------------------------------------
(* The claims. *)

(* The row of a message changes only in the hand of the turn that holds it, or when it has none. *)
RowFree(w) == rows' = rows \/ /\ RowsBut(worker[w].m)
                              /\ worker[w].own = TRUE \/ rows[worker[w].m].out = "none"

(* The rows of the other turns' claims are not touched. *)
LEMMA OtherClaims ==
  ASSUME BotTypes, ClaimsHold, ClaimsAlone, NEW w \in Workers, RowFree(w),
         NEW v \in Workers \ {w}, worker[v].own = TRUE
  PROVE  rows'[worker[v].m] = rows[worker[v].m]
<1>1. worker[v].m \in Messages /\ rows[worker[v].m].out = "claimed"
  BY DEF ClaimsHold, BotTypes, WorkersAreSound
<1>2. CASE rows' = rows BY <1>2
<1>3. CASE RowsBut(worker[w].m) /\ (worker[w].own = TRUE \/ rows[worker[w].m].out = "none")
  <2>1. worker[v].m # worker[w].m BY <1>1, <1>3 DEF ClaimsAlone
  <2> QED BY <1>1, <1>3, <2>1 DEF RowsBut
<1> QED BY <1>2, <1>3 DEF RowFree

(* A turn that has no claim afterwards disturbs nobody's. *)
LEMMA ReleaseClaims ==
  ASSUME BotTypes, ClaimsHold, ClaimsAlone, NEW w \in Workers, WorkersBut(w), RowFree(w),
         worker'[w].own = FALSE, worker'[w].pc \notin {"ask", "reply"}
  PROVE  ClaimsHold' /\ ClaimsAlone'
<1>1. ClaimsAlone' BY DEF ClaimsAlone, WorkersBut
<1>2. ASSUME NEW v \in Workers
      PROVE  /\ worker'[v].own = TRUE => /\ worker'[v].pc \in {"ask", "reply", "handoff"}
                                          /\ rows'[worker'[v].m].out = "claimed"
             /\ worker'[v].pc \in {"ask", "reply"} => worker'[v].own = TRUE
  <2>1. CASE v = w BY <2>1
  <2>2. CASE v # w
    <3>1. worker'[v] = worker[v] BY <2>2 DEF WorkersBut
    <3>2. worker[v].own = TRUE => rows'[worker[v].m] = rows[worker[v].m] BY <2>2, OtherClaims
    <3> QED BY <3>1, <3>2 DEF ClaimsHold
  <2> QED BY <2>1, <2>2
<1> QED BY <1>1, <1>2 DEF ClaimsHold

(* Every kind of step keeps the claims apart. *)
LEMMA ClaimsNext ==
  ASSUME BotTypes, ClaimsHold, ClaimsAlone, [BotNext]_botVars
  PROVE  ClaimsHold' /\ ClaimsAlone'
<1>1. BotKind BY BotKinds
<1>2. CASE Outside BY <1>2 DEF Outside, ClaimsHold, ClaimsAlone
<1>3. CASE Resets BY <1>3 DEF Resets, ClaimsHold, ClaimsAlone
<1>4. ASSUME NEW w \in Workers, NEW m \in Messages, Starts(w, m) PROVE ClaimsHold' /\ ClaimsAlone'
  BY <1>4, ReleaseClaims DEF Starts, RowFree
<1>5. ASSUME NEW w \in Workers, Advances(w) PROVE ClaimsHold' /\ ClaimsAlone'
  <2>1. worker[w].own \in BOOLEAN BY DEF BotTypes, WorkerRows
  <2>2. CASE worker[w].own = FALSE
    <3>1. worker[w].pc # "ask" BY <2>2 DEF ClaimsHold
    <3>2. worker'[w].own = FALSE /\ worker'[w].pc \notin {"ask", "reply"} BY <1>5, <2>2, <3>1 DEF Advances
    <3> QED BY <1>5, <3>2, ReleaseClaims DEF Advances, RowFree
  <2>3. CASE worker[w].own = TRUE
    <3>1. worker[w].pc = "ask" BY <1>5, <2>3 DEF ClaimsHold, Advances
    <3>2. /\ worker'[w].own = TRUE /\ worker'[w].pc \in {"handoff", "reply"} /\ worker'[w].m = worker[w].m
          /\ rows' = rows /\ WorkersBut(w)
      BY <1>5, <2>3, <3>1 DEF Advances, SameTurn
    <3> QED BY <2>3, <3>2 DEF ClaimsHold, ClaimsAlone, WorkersBut
  <2> QED BY <2>1, <2>2, <2>3
<1>6. ASSUME NEW w \in Workers, Abandons(w) PROVE ClaimsHold' /\ ClaimsAlone'
  BY <1>6, ReleaseClaims, BotRows DEF Abandons, RowFree
<1>7. ASSUME NEW w \in Workers, TakesClaim(w) PROVE ClaimsHold' /\ ClaimsAlone'
  <2>1. RowFree(w) BY <1>7 DEF TakesClaim, RowFree
  <2>2. \A v \in Workers \ {w} : worker[v].own = TRUE => rows'[worker[v].m] = rows[worker[v].m]
    BY <2>1, OtherClaims
  <2>3. \A v \in Workers \ {w} : worker'[v] = worker[v] BY <1>7 DEF TakesClaim, WorkersBut
  <2>4. \A v \in Workers \ {w} : worker[v].own = TRUE => worker[v].m # worker[w].m
    BY <1>7 DEF TakesClaim, ClaimsHold
  <2>5. /\ worker'[w].own = TRUE /\ worker'[w].pc = "ask" /\ worker'[w].m = worker[w].m
        /\ rows'[worker[w].m].out = "claimed"
    BY <1>7 DEF TakesClaim, SameTurn
  <2> QED BY <2>2, <2>3, <2>4, <2>5 DEF ClaimsHold, ClaimsAlone
<1>8. ASSUME NEW w \in Workers, Speaks(w) PROVE ClaimsHold' /\ ClaimsAlone'
  <2>1. worker[w].own = TRUE BY <1>8 DEF Speaks, ClaimsHold
  <2> QED BY <1>8, <2>1, ReleaseClaims DEF Speaks, Commits, RowFree
<1>9. ASSUME NEW w \in Workers, HandsOver(w) PROVE ClaimsHold' /\ ClaimsAlone'
  BY <1>9, ReleaseClaims DEF HandsOver, Commits, RowFree
<1>10. ASSUME NEW w \in Workers, EnqueuesDelivery(w) PROVE ClaimsHold' /\ ClaimsAlone'
  <2>1. worker[w].own \in BOOLEAN BY DEF BotTypes, WorkerRows
  <2>2. worker'[w].own = FALSE BY <1>10, <2>1 DEF EnqueuesDelivery, ClaimsHold
  <2> QED BY <1>10, <2>2, ReleaseClaims DEF EnqueuesDelivery, RowFree
<1>11. ASSUME NEW w \in Workers, EnqueuesRest(w) PROVE ClaimsHold' /\ ClaimsAlone'
  BY <1>11, ReleaseClaims, BotRows DEF EnqueuesRest, RowFree
<1> QED BY <1>1, <1>2, <1>3, <1>4, <1>5, <1>6, <1>7, <1>8, <1>9, <1>10, <1>11 DEF BotKind

(* A claim, a handoff and a suppression leave the replies on record as they are. *)
SameReplies == \A m \in Messages :
  /\ rows'[m].out = "replied" <=> rows[m].out = "replied"
  /\ rows[m].out = "replied" => rows'[m] = rows[m]

(* A row that may be written is not a reply yet. *)
LEMMA FreeRowIsUnreplied ==
  ASSUME BotTypes, ClaimsHold, NEW w \in Workers, RowFree(w), worker[w].pc # "idle",
         rows' = rows \/ rows'[worker[w].m].out # "replied"
  PROVE  SameReplies
<1>1. worker[w].m \in Messages BY DEF BotTypes, WorkersAreSound
<1>2. CASE rows' = rows BY <1>2 DEF SameReplies
<1>3. CASE rows' # rows
  <2>1. rows[worker[w].m].out # "replied" BY <1>3 DEF RowFree, ClaimsHold
  <2> QED BY <1>3, <2>1 DEF RowFree, RowsBut, SameReplies
<1> QED BY <1>2, <1>3

(* Only a reply changes what is on record of replies, and it changes one row. *)
LEMMA RepliesOnRecord ==
  ASSUME BotTypes, ClaimsHold, BotKind
  PROVE  (SameReplies /\ answers' = answers) \/ \E w \in Workers : Speaks(w)
<1> DEFINE G == SameReplies /\ answers' = answers
<1>2. ASSUME Outside PROVE G BY <1>2 DEF Outside, ghostVars, SameReplies
<1>3. ASSUME Resets PROVE G BY <1>3 DEF Resets, SameReplies
<1>4. ASSUME NEW w \in Workers, NEW m \in Messages, Starts(w, m) PROVE G BY <1>4 DEF Starts, SameReplies
<1>5. ASSUME NEW w \in Workers, Advances(w) PROVE G BY <1>5 DEF Advances, ghostVars, SameReplies
<1>6. ASSUME NEW w \in Workers, Abandons(w) PROVE G
  BY <1>6, FreeRowIsUnreplied DEF Abandons, RowFree, ghostVars
<1>7. ASSUME NEW w \in Workers, TakesClaim(w) PROVE G
  BY <1>7, FreeRowIsUnreplied DEF TakesClaim, RowFree, ghostVars
<1>9. ASSUME NEW w \in Workers, HandsOver(w) PROVE G
  BY <1>9, FreeRowIsUnreplied DEF HandsOver, RowFree
<1>10. ASSUME NEW w \in Workers, EnqueuesDelivery(w) PROVE G BY <1>10 DEF EnqueuesDelivery, SameReplies
<1>11. ASSUME NEW w \in Workers, EnqueuesRest(w) PROVE G BY <1>11 DEF EnqueuesRest, SameReplies
<1> HIDE DEF G
<1>12. G \/ \E w \in Workers : Speaks(w)
  BY <1>2, <1>3, <1>4, <1>5, <1>6, <1>7, <1>9, <1>10, <1>11 DEF BotKind
<1> QED BY <1>12 DEF G

(* One answer for each reply on record, and finitely many of them. *)
LEMMA RecordNext ==
  ASSUME BotTypes, ClaimsHold, OneReplyOnRecord, RepliesAreFinite, [BotNext]_botVars
  PROVE  OneReplyOnRecord' /\ RepliesAreFinite'
<1>1. BotKind BY BotKinds
<1>2. CASE SameReplies /\ answers' = answers
  <2>1. RepliesAreFinite'
    <3>1. {m \in Messages : rows'[m].out = "replied" /\ rows'[m].at >= 0}
          = {m \in Messages : rows[m].out = "replied" /\ rows[m].at >= 0}
      BY <1>2 DEF SameReplies
    <3> QED BY <3>1 DEF RepliesAreFinite, RepliedSince
  <2> QED BY <1>2, <2>1 DEF SameReplies, OneReplyOnRecord
<1>3. ASSUME NEW w \in Workers, Speaks(w) PROVE OneReplyOnRecord' /\ RepliesAreFinite'
  <2>1. PICK m \in Messages : m = worker[w].m BY <1>3 DEF BotTypes, WorkersAreSound, Speaks
  <2>2. rows[m].out = "claimed" BY <1>3, <2>1 DEF Speaks, ClaimsHold
  <2>3. /\ rows'[m].out = "replied" /\ rows'[m].at = rows[m].at /\ rows[m].at \in Nat
        /\ \A n \in Messages \ {m} : rows'[n] = rows[n]
    BY <1>3, <2>1 DEF Speaks, RowsBut, BotTypes, TurnRows
  <2>4. answers'[m] = answers[m] + 1 /\ \A n \in Messages \ {m} : answers'[n] = answers[n]
    BY <1>3, <2>1 DEF Speaks, BotTypes
  <2>5. OneReplyOnRecord' BY <2>2, <2>3, <2>4 DEF OneReplyOnRecord
  <2>6. {n \in Messages : rows'[n].out = "replied" /\ rows'[n].at >= 0} = RepliedSince(0) \cup {m}
    BY <2>3 DEF RepliedSince
  <2>7. IsFiniteSet(RepliedSince(0) \cup {m}) BY FS_AddElement DEF RepliesAreFinite
  <2>8. RepliesAreFinite' BY <2>6, <2>7 DEF RepliesAreFinite, RepliedSince
  <2> QED BY <2>5, <2>8
<1> QED BY <1>1, <1>2, <1>3, RepliesOnRecord

-----------------------------------------------------------------------------
(* Nothing is left half done without a fault. *)

(* Steps that keep the claims keep their holders. *)
LEMMA ClaimedNext ==
  ASSUME BotTypes, ClaimsHold, ClaimsAlone, ClaimedHasWorker, [BotNext]_botVars
  PROVE  ClaimedHasWorker'
<1>1. BotKind BY BotKinds
<1>h. SUFFICES ASSUME faults' = 0, NEW n \in Messages, rows'[n].out = "claimed", deleted' = FALSE
               PROVE  \E v \in Workers : worker'[v].m = n /\ worker'[v].own = TRUE
  BY DEF ClaimedHasWorker
<1> DEFINE G == \E v \in Workers : worker'[v].m = n /\ worker'[v].own = TRUE
<1>b. ASSUME Background PROVE faults = 0 /\ deleted = FALSE
  <2>1. faults = 0 BY <1>b, <1>h DEF Background, BotTypes
  <2>2. deleted = FALSE BY <1>b, <1>h DEF Background, BotTypes
  <2> QED BY <2>1, <2>2
<1>c. ASSUME faults = 0, deleted = FALSE, NEW w \in Workers, WorkersBut(w), rows'[n] = rows[n],
             \/ worker[w].own = FALSE \/ worker[w].m # n
             \/ worker'[w].own = worker[w].own /\ worker'[w].m = worker[w].m
      PROVE  G
  <2>1. PICK v \in Workers : worker[v].m = n /\ worker[v].own = TRUE
    BY <1>c, <1>h DEF ClaimedHasWorker
  <2> QED BY <1>c, <2>1 DEF WorkersBut
<1>2. ASSUME Outside PROVE G BY <1>2, <1>b, <1>h DEF Outside, ClaimedHasWorker
<1>3. ASSUME Resets PROVE G BY <1>3, <1>b, <1>h DEF Resets, ClaimedHasWorker
<1> HIDE DEF G
<1>4. ASSUME NEW w \in Workers, NEW m \in Messages, Starts(w, m) PROVE G
  <2>1. worker[w].own = FALSE BY <1>4, BotRows DEF Starts, BotTypes, WorkersAreSound
  <2> QED BY <1>4, <2>1, <1>b, <1>c DEF Starts
<1>5. ASSUME NEW w \in Workers, Advances(w) PROVE G BY <1>5, <1>b, <1>c DEF Advances, SameTurn
<1>6. ASSUME NEW w \in Workers, Abandons(w) PROVE G
  <2>1. worker[w].own \in BOOLEAN /\ faults = 0 /\ deleted = FALSE
    BY <1>6, <1>b DEF BotTypes, WorkerRows, Abandons
  <2>2. CASE rows' = rows
    <3>1. worker[w].own = FALSE BY <1>6, <2>1, <2>2, <1>h DEF Abandons, ClaimsHold, RowsBut
    <3> QED BY <1>6, <2>1, <2>2, <3>1, <1>c DEF Abandons
  <2>3. CASE RowsBut(worker[w].m) /\ rows'[worker[w].m].out = "suppressed"
    <3>1. n # worker[w].m /\ rows'[n] = rows[n] BY <2>3, <1>h DEF RowsBut
    <3> QED BY <1>6, <2>1, <3>1, <1>c DEF Abandons
  <2> QED BY <1>6, <2>2, <2>3 DEF Abandons
<1>7. ASSUME NEW w \in Workers, TakesClaim(w) PROVE G
  <2>1. CASE n = worker[w].m BY <1>7, <2>1 DEF TakesClaim, SameTurn, G
  <2>2. CASE n # worker[w].m
    <3>1. rows'[n] = rows[n] BY <1>7, <2>2 DEF TakesClaim, RowsBut
    <3> QED BY <1>7, <2>2, <3>1, <1>b, <1>c DEF TakesClaim
  <2> QED BY <2>1, <2>2
<1>8. ASSUME NEW w \in Workers, Speaks(w) PROVE G
  <2>1. n # worker[w].m /\ rows'[n] = rows[n] BY <1>8, <1>h DEF Speaks, RowsBut
  <2> QED BY <1>8, <2>1, <1>b, <1>c DEF Speaks, Commits
<1>9. ASSUME NEW w \in Workers, HandsOver(w) PROVE G
  <2>1. CASE worker[w].own = FALSE /\ rows' = rows BY <1>9, <2>1, <1>b, <1>c DEF HandsOver, Commits
  <2>2. CASE RowsBut(worker[w].m) /\ rows'[worker[w].m].out = "handed_off"
    <3>1. n # worker[w].m /\ rows'[n] = rows[n] BY <2>2, <1>h DEF RowsBut
    <3> QED BY <1>9, <3>1, <1>b, <1>c DEF HandsOver, Commits
  <2> QED BY <1>9, <2>1, <2>2 DEF HandsOver
<1>10. ASSUME NEW w \in Workers, EnqueuesDelivery(w) PROVE G BY <1>10, <1>b, <1>c DEF EnqueuesDelivery, SameTurn
<1>11. ASSUME NEW w \in Workers, EnqueuesRest(w) PROVE G
  <2>1. worker[w].own \in BOOLEAN BY DEF BotTypes, WorkerRows
  <2>2. worker[w].own = FALSE BY <1>11, <2>1 DEF EnqueuesRest, ClaimsHold
  <2> QED BY <1>11, <2>2, <1>b, <1>c DEF EnqueuesRest
<1>12. G BY <1>1, <1>2, <1>3, <1>4, <1>5, <1>6, <1>7, <1>8, <1>9, <1>10, <1>11 DEF BotKind
<1> QED BY <1>12 DEF G

(* What is owed keeps the turn that pays it. *)
LEMMA OwedNext ==
  ASSUME BotTypes, OwedHasWorker, [BotNext]_botVars
  PROVE  OwedHasWorker'
<1>1. BotKind BY BotKinds
<1> DEFINE Pays(s, o) == /\ s.m = o[1]
                         /\ \/ s.pc = "dispatch" /\ o[2] \in {"deliver", FollowUp(s)}
                            \/ s.pc = "follow" /\ o[2] = FollowUp(s)
<1>h. SUFFICES ASSUME faults' = 0, NEW o \in owed', o \notin refused', ~(o[2] = "route" /\ deleted' = TRUE)
               PROVE  \E v \in Workers : Pays(worker'[v], o)
  BY DEF OwedHasWorker, Stuck, FollowUp
<1> DEFINE G == \E v \in Workers : Pays(worker'[v], o)
<1>b. ASSUME Background PROVE faults = 0 /\ ~Stuck(o)
  <2>1. faults = 0 BY <1>b, <1>h DEF Background, BotTypes
  <2>2. ~Stuck(o) BY <1>b, <1>h DEF Background, Stuck
  <2> QED BY <2>1, <2>2
<1>o. faults = 0 /\ ~Stuck(o) /\ o \in owed => \E v \in Workers : Pays(worker[v], o) BY DEF OwedHasWorker
<1>t. o \in owed => o = <<o[1], o[2]>> /\ o[1] \in Messages /\ o[2] \in FollowUps BY DEF BotTypes
<1> HIDE DEF Pays
<1>c. ASSUME faults = 0 /\ ~Stuck(o), o \in owed, NEW w \in Workers, WorkersBut(w),
             Pays(worker[w], o) => Pays(worker'[w], o)
      PROVE  G
  BY <1>c, <1>o DEF WorkersBut
<1>f. ASSUME NEW w \in Workers, worker[w].pc \in Flying \cup {"idle"} PROVE ~Pays(worker[w], o)
  BY <1>f DEF Pays, Flying
<1>2. ASSUME Outside PROVE G BY <1>2, <1>b, <1>o, <1>h DEF Outside, ghostVars
<1>3. ASSUME Resets PROVE G BY <1>3, <1>b, <1>o, <1>h DEF Resets
<1> HIDE DEF G
<1>4. ASSUME NEW w \in Workers, NEW m \in Messages, Starts(w, m) PROVE G
  BY <1>4, <1>b, <1>c, <1>f, <1>h DEF Starts
<1>5. ASSUME NEW w \in Workers, Advances(w) PROVE G
  BY <1>5, <1>b, <1>c, <1>f, <1>h DEF Advances, ghostVars, Flying
<1>6. ASSUME NEW w \in Workers, Abandons(w) PROVE G
  <2>1. o \in owed /\ faults = 0 /\ ~Stuck(o) BY <1>6, <1>b, <1>h DEF Abandons, ghostVars
  <2>2. ~Pays(worker[w], o)
    <3>1. CASE worker[w].pc \in Flying BY <3>1, <1>f
    <3>2. CASE worker[w].pc = "follow" /\ FollowUp(worker[w]) = "route" /\ deleted' = TRUE
      <4>1. o[2] # "route" BY <3>2, <1>h
      <4> QED BY <3>2, <4>1 DEF Pays
    <3>3. ~(faults' > 0) BY <1>h
    <3> QED BY <1>6, <3>1, <3>2, <3>3 DEF Abandons, Flying
  <2> QED BY <1>6, <2>1, <2>2, <1>c DEF Abandons
<1>7. ASSUME NEW w \in Workers, TakesClaim(w) PROVE G
  BY <1>7, <1>b, <1>c, <1>f, <1>h DEF TakesClaim, ghostVars, Flying
<1>p. ASSUME NEW w \in Workers, NEW to, Commits(w, to), worker[w].pc \in Flying,
             o \in owed \/ (o[1] = worker[w].m /\ o[2] \in {"deliver", FollowUp(worker'[w])})
      PROVE  G
  <2>1. CASE o \in owed BY <1>p, <2>1, <1>b, <1>c, <1>f DEF Commits
  <2>2. CASE o[1] = worker[w].m /\ o[2] \in {"deliver", FollowUp(worker'[w])}
    BY <1>p, <2>2 DEF Commits, G, Pays
  <2> QED BY <1>p, <2>1, <2>2
<1>8. ASSUME NEW w \in Workers, Speaks(w) PROVE G
  <2>1. Commits(w, "bot_active") /\ worker[w].pc \in Flying BY <1>8 DEF Speaks, Flying
  <2>2. FollowUp(worker'[w]) = "evaluate" BY <2>1 DEF Commits, FollowUp
  <2>3. o \in owed \/ (o[1] = worker[w].m /\ o[2] \in {"deliver", "evaluate"}) BY <1>8, <1>h DEF Speaks
  <2> QED BY <2>1, <2>2, <2>3, <1>p
<1>9. ASSUME NEW w \in Workers, HandsOver(w) PROVE G
  <2>1. Commits(w, "handed_off") /\ worker[w].pc \in Flying BY <1>9 DEF HandsOver, Flying
  <2>2. FollowUp(worker'[w]) = "route" BY <2>1 DEF Commits, FollowUp
  <2>3. o \in owed \/ (o[1] = worker[w].m /\ o[2] \in {"deliver", "route"}) BY <1>9, <1>h DEF HandsOver
  <2> QED BY <2>1, <2>2, <2>3, <1>p
<1>10. ASSUME NEW w \in Workers, EnqueuesDelivery(w) PROVE G
  <2>1. o \in owed /\ o # <<worker[w].m, "deliver">> BY <1>10, <1>h DEF EnqueuesDelivery
  <2>2. o[1] = worker[w].m => o[2] # "deliver" BY <2>1, <1>t
  <2>3. worker'[w].m = worker[w].m /\ worker'[w].pc = "follow" /\ FollowUp(worker'[w]) = FollowUp(worker[w])
    BY <1>10 DEF EnqueuesDelivery, SameTurn, FollowUp
  <2>4. Pays(worker[w], o) => Pays(worker'[w], o) BY <2>2, <2>3 DEF Pays
  <2> QED BY <1>10, <2>1, <2>4, <1>b, <1>c DEF EnqueuesDelivery
<1>11. ASSUME NEW w \in Workers, EnqueuesRest(w) PROVE G
  <2>1. o \in owed /\ o # <<worker[w].m, FollowUp(worker[w])>> BY <1>11, <1>h DEF EnqueuesRest
  <2>2. o[1] = worker[w].m => o[2] # FollowUp(worker[w]) BY <2>1, <1>t
  <2>3. worker[w].pc = "follow" BY <1>11 DEF EnqueuesRest
  <2>4. ~Pays(worker[w], o) BY <2>2, <2>3 DEF Pays
  <2> QED BY <1>11, <2>1, <2>4, <1>b, <1>c DEF EnqueuesRest
<1>12. G BY <1>1, <1>2, <1>3, <1>4, <1>5, <1>6, <1>7, <1>8, <1>9, <1>10, <1>11 DEF BotKind
<1> QED BY <1>12 DEF G

-----------------------------------------------------------------------------
(* What a turn may still do. *)

(* A turn that saw the thread released stays at the gate. *)
LEMMA ReleasedNext ==
  ASSUME BotTypes, ReleasedStops, [BotNext]_botVars
  PROVE  ReleasedStops'
<1>1. BotKind BY BotKinds
<1>c. ASSUME NEW w \in Workers, WorkersBut(w),
             worker'[w].pc \in Flying /\ Released(worker'[w]) => worker'[w].pc \in {"gate", "suppress"}
      PROVE  ReleasedStops'
  <2>1. ASSUME NEW v \in Workers
        PROVE  worker'[v].pc \in Flying /\ Released(worker'[v]) => worker'[v].pc \in {"gate", "suppress"}
    BY <1>c DEF WorkersBut, ReleasedStops
  <2> QED BY <2>1 DEF ReleasedStops, Released
<1>2. CASE Outside BY <1>2 DEF Outside, ReleasedStops, Released
<1>3. CASE Resets BY <1>3 DEF Resets, ReleasedStops, Released
<1>4. ASSUME NEW w \in Workers, NEW m \in Messages, Starts(w, m) PROVE ReleasedStops'
  BY <1>4, <1>c DEF Starts
<1>s. ASSUME NEW w \in Workers, SameTurn(w) PROVE Released(worker'[w]) <=> Released(worker[w])
  BY <1>s DEF SameTurn, Released
<1>5. ASSUME NEW w \in Workers, Advances(w) PROVE ReleasedStops'
  BY <1>5, <1>c, <1>s DEF Advances, ReleasedStops, Flying
<1>6. ASSUME NEW w \in Workers, Abandons(w) PROVE ReleasedStops'
  BY <1>6, <1>c, BotRows DEF Abandons, Flying
<1>7. ASSUME NEW w \in Workers, TakesClaim(w) PROVE ReleasedStops'
  BY <1>7, <1>c, <1>s DEF TakesClaim, ReleasedStops, Flying
<1>8. ASSUME NEW w \in Workers, NEW to, Commits(w, to) PROVE ReleasedStops'
  BY <1>8, <1>c DEF Commits, Flying
<1>10. ASSUME NEW w \in Workers, EnqueuesDelivery(w) PROVE ReleasedStops'
  BY <1>10, <1>c DEF EnqueuesDelivery, Flying
<1>11. ASSUME NEW w \in Workers, EnqueuesRest(w) PROVE ReleasedStops'
  BY <1>11, <1>c, BotRows DEF EnqueuesRest, Flying
<1>12. ASSUME NEW w \in Workers, Speaks(w) \/ HandsOver(w)
       PROVE  Commits(w, "bot_active") \/ Commits(w, "handed_off")
  BY <1>12 DEF Speaks, HandsOver
<1> QED BY <1>1, <1>2, <1>3, <1>4, <1>5, <1>6, <1>7, <1>8, <1>10, <1>11, <1>12 DEF BotKind

(* The stamp a turn saw is past, and not later than its claim. *)
LEMMA SnapshotNext ==
  ASSUME BotTypes, ClaimsHold, ClaimsAlone, SnapshotIsPast, [BotNext]_botVars
  PROVE  SnapshotIsPast'
<1>1. BotKind BY BotKinds
<1>t. /\ clock \in Nat /\ thread.engaged \in 0..clock
      /\ \A v \in Workers : worker[v].engaged \in Nat /\ worker[v].own \in BOOLEAN
  BY DEF BotTypes, WorkerRows
<1>0. Never = 0 BY DEF Never
<1>c. ASSUME NEW w \in Workers, WorkersBut(w), RowFree(w), clock' \in {clock, clock + 1},
             worker'[w].engaged <= clock',
             worker'[w].own = TRUE => rows'[worker'[w].m].at >= worker'[w].engaged
      PROVE  SnapshotIsPast'
  <2>1. ASSUME NEW v \in Workers
        PROVE  /\ worker'[v].engaged <= clock'
               /\ worker'[v].own = TRUE => rows'[worker'[v].m].at >= worker'[v].engaged
    <3>1. CASE v = w BY <3>1, <1>c
    <3>2. CASE v # w
      <4>1. worker'[v] = worker[v] BY <1>c, <3>2 DEF WorkersBut
      <4>2. worker[v].engaged <= clock' BY <1>c, <1>t DEF SnapshotIsPast
      <4>3. worker[v].own = TRUE => rows'[worker[v].m] = rows[worker[v].m] BY <1>c, <3>2, OtherClaims
      <4> QED BY <4>1, <4>2, <4>3 DEF SnapshotIsPast
    <3> QED BY <3>1, <3>2
  <2> QED BY <2>1 DEF SnapshotIsPast
<1>d. ASSUME NEW w \in Workers, WorkersBut(w), RowFree(w), clock' = clock,
             worker'[w].engaged = 0, worker'[w].own = FALSE
      PROVE  SnapshotIsPast'
  <2>1. worker'[w].engaged <= clock' BY <1>d, <1>t
  <2> QED BY <2>1, <1>c, <1>d
<1>2. CASE Outside BY <1>2 DEF Outside, SnapshotIsPast
<1>3. CASE Resets BY <1>3 DEF Resets, SnapshotIsPast
<1>4. ASSUME NEW w \in Workers, NEW m \in Messages, Starts(w, m) PROVE SnapshotIsPast'
  <2>1. worker'[w].engaged = thread.engaged /\ clock' = clock /\ worker'[w].own = FALSE
    BY <1>4 DEF Starts
  <2>2. worker'[w].engaged <= clock' BY <2>1, <1>t
  <2>3. WorkersBut(w) /\ RowFree(w) BY <1>4 DEF Starts, RowFree
  <2> QED BY <2>1, <2>2, <2>3, <1>c
<1>5. ASSUME NEW w \in Workers, Advances(w) PROVE SnapshotIsPast'
  BY <1>5, <1>c DEF Advances, SameTurn, RowFree, SnapshotIsPast
<1>6. ASSUME NEW w \in Workers, Abandons(w) PROVE SnapshotIsPast'
  BY <1>6, <1>d, <1>0, BotRows DEF Abandons, RowFree
<1>7. ASSUME NEW w \in Workers, TakesClaim(w) PROVE SnapshotIsPast'
  BY <1>7, <1>c DEF TakesClaim, SameTurn, RowFree, SnapshotIsPast
<1>8. ASSUME NEW w \in Workers, Speaks(w) PROVE SnapshotIsPast'
  <2>1. worker[w].own = TRUE BY <1>8 DEF Speaks, ClaimsHold
  <2>2. RowFree(w) /\ WorkersBut(w) BY <1>8, <2>1 DEF Speaks, Commits, RowFree
  <2>3. worker'[w].engaged = 0 /\ worker'[w].own = FALSE /\ clock' = clock + 1
    BY <1>8, <1>0 DEF Speaks, Commits
  <2>4. worker'[w].engaged <= clock' BY <2>3, <1>t
  <2> QED BY <2>2, <2>3, <2>4, <1>c
<1>9. ASSUME NEW w \in Workers, HandsOver(w) PROVE SnapshotIsPast'
  BY <1>9, <1>d, <1>0 DEF HandsOver, Commits, RowFree
<1>10. ASSUME NEW w \in Workers, EnqueuesDelivery(w) PROVE SnapshotIsPast'
  BY <1>10, <1>c DEF EnqueuesDelivery, SameTurn, RowFree, SnapshotIsPast
<1>11. ASSUME NEW w \in Workers, EnqueuesRest(w) PROVE SnapshotIsPast'
  BY <1>11, <1>d, <1>0, BotRows DEF EnqueuesRest, RowFree
<1> QED BY <1>1, <1>2, <1>3, <1>4, <1>5, <1>6, <1>7, <1>8, <1>9, <1>10, <1>11 DEF BotKind

-----------------------------------------------------------------------------
(* Turns that do not overlap. *)

(* The count of replies is a number, and one more reply makes it one more. *)
LEMMA RepliesSinceType ==
  ASSUME BotTypes, RepliesAreFinite, NEW e \in Nat
  PROVE  /\ RepliesSince(e) \in Nat
         /\ e # Never => RepliesSince(e) = 1 + Cardinality(RepliedSince(e))
         /\ e = Never => RepliesSince(e) = 0
         /\ IsFiniteSet(RepliedSince(e)) /\ Cardinality(RepliedSince(e)) \in Nat
<1>1. RepliedSince(e) \subseteq RepliedSince(0) BY DEF RepliedSince, BotTypes, TurnRows
<1>2. IsFiniteSet(RepliedSince(e)) BY <1>1, FS_Subset DEF RepliesAreFinite
<1>3. Cardinality(RepliedSince(e)) \in Nat BY <1>2, FS_CardinalityType
<1> QED BY <1>2, <1>3 DEF RepliesSince, RepliedSince

(* The same replies count the same. *)
LEMMA SameRepliesCount ==
  ASSUME SameReplies, NEW e
  PROVE  RepliesSince(e)' = RepliesSince(e)
<1>1. {m \in Messages : rows'[m].out = "replied" /\ rows'[m].at >= e'}
      = {m \in Messages : rows[m].out = "replied" /\ rows[m].at >= e}
  BY DEF SameReplies
<1> QED BY <1>1 DEF RepliesSince

(* When nobody is in flight, only the engagement itself is left to judge. *)
LEMMA GroundedFrame ==
  ASSUME NobodyFlies', NoticeEnds', UnstampedReply', StampedReplies' PROVE Sequential'
<1>1. OneFlight' /\ SnapshotIsFresh' BY DEF NobodyFlies, OneFlight, SnapshotIsFresh
<1>2. RoomToReply' BY DEF NobodyFlies, RoomToReply, Flying
<1> QED BY <1>1, <1>2 DEF Sequential

(* A turn that goes on, or ends without a word, leaves the engagement as it is. *)
LEMMA QuietFrame ==
  ASSUME BotTypes, Sequential, SameReplies, NEW w \in Workers, WorkersBut(w),
         worker'[w].pc \in Flying => worker[w].pc \in Flying /\ SameTurn(w),
         worker'[w].pc \in {"claim", "ask", "reply"} =>
            \/ worker[w].pc \in {"claim", "ask", "reply"}
            \/ RepliesSince(worker[w].engaged) < MaxBotTurns,
         life' = life, thread' = thread
  PROVE  Sequential'
<1>0. \A v \in Workers \ {w} : worker'[v] = worker[v] BY DEF WorkersBut
<1>1. OneFlight' BY <1>0 DEF Sequential, OneFlight
<1>2. SnapshotIsFresh' BY <1>0 DEF Sequential, SnapshotIsFresh, SameTurn
<1>m. Mute => Mute'
  <2>1. ASSUME Mute, NEW v \in Workers, worker'[v].pc \in Flying PROVE Released(worker'[v])
    <3>1. CASE v = w BY <2>1, <3>1 DEF Mute, Released, SameTurn
    <3>2. CASE v # w BY <2>1, <3>2, <1>0 DEF Mute
    <3> QED BY <3>1, <3>2
  <2> QED BY <2>1 DEF Mute, Released
<1>3. NoticeEnds' BY <1>m DEF Sequential, NoticeEnds, Released
<1>4. UnstampedReply' BY <1>m DEF Sequential, UnstampedReply
<1>5. StampedReplies'
  <2>1. PICK e : e = thread.engaged OBVIOUS
  <2>2. RepliesSince(e)' = RepliesSince(e) BY SameRepliesCount
  <2>3. thread'.engaged = e BY <2>1
  <2> QED BY <2>1, <2>2, <2>3 DEF Sequential, StampedReplies, RepliesSince
<1>6. RoomToReply'
  <2>1. ASSUME NEW v \in Workers, worker'[v].pc \in {"claim", "ask", "reply"}
        PROVE  RepliesSince(worker[v].engaged)' < MaxBotTurns
    <3>1. worker'[v].engaged = worker[v].engaged BY <2>1, <1>0 DEF SameTurn, Flying
    <3>2. RepliesSince(worker[v].engaged) < MaxBotTurns
      BY <2>1, <1>0 DEF Sequential, RoomToReply
    <3>3. PICK e : e = worker[v].engaged OBVIOUS
    <3>4. RepliesSince(e)' = RepliesSince(e) BY SameRepliesCount
    <3>5. worker'[v].engaged = e /\ RepliesSince(e)' < MaxBotTurns BY <3>1, <3>2, <3>3, <3>4
    <3> QED BY <3>5 DEF RepliesSince
  <2> QED BY <2>1 DEF RoomToReply
<1> QED BY <1>1, <1>2, <1>3, <1>4, <1>5, <1>6 DEF Sequential

(* Turns that overlapped stay overlapped until a reset that finds nobody in flight. *)
LEMMA RacedStays ==
  ASSUME BotTypes, BotKind, life'.raced = FALSE
  PROVE  (life.raced = FALSE) \/ (Resets /\ InFlight = {})
<1>1. life.raced \in BOOLEAN BY DEF BotTypes, Lives
<1>2. CASE Resets
  <2>1. life'.raced = (InFlight # {}) BY <1>2 DEF Resets, NewLife
  <2> QED BY <1>2, <2>1
<1>3. ASSUME NEW w \in Workers, NEW m \in Messages, Starts(w, m) PROVE life.raced = FALSE
  BY <1>1, <1>3 DEF Starts
<1>4. ASSUME NEW w \in Workers,
             \/ Advances(w) \/ Abandons(w) \/ TakesClaim(w) \/ Speaks(w) \/ HandsOver(w)
             \/ EnqueuesDelivery(w) \/ EnqueuesRest(w)
      PROVE  life.raced = FALSE
  BY <1>4 DEF Advances, Abandons, TakesClaim, Speaks, HandsOver, EnqueuesDelivery, EnqueuesRest, ghostVars
<1>5. CASE Outside BY <1>5 DEF Outside, ghostVars
<1> QED BY <1>2, <1>3, <1>4, <1>5 DEF BotKind

(* A turn that commits saw a thread that was not released; then it is over. *)
LEMMA CommitsGrounded ==
  ASSUME BotTypes, ReleasedStops, Sequential, NEW w \in Workers, NEW to, Commits(w, to),
         worker[w].pc \in {"reply", "handoff"}
  PROVE  /\ NobodyFlies' /\ life.notices = 0 /\ worker[w].engaged = thread.engaged
         /\ thread.engaged = Never => life.replies = 0
<1>1. worker[w].pc \in Flying BY DEF Flying
<1>2. ~Mute BY <1>1 DEF ReleasedStops, Mute
<1>3. life.notices \in Nat /\ life.replies \in Nat BY DEF BotTypes, Lives
<1>4. life.notices = 0 BY <1>2, <1>3 DEF Sequential, NoticeEnds
<1>5. thread.engaged = Never => life.replies = 0 BY <1>2, <1>3 DEF Sequential, UnstampedReply
<1>6. worker[w].engaged = thread.engaged BY <1>1 DEF Sequential, SnapshotIsFresh
<1>7. NobodyFlies' BY <1>1 DEF Commits, WorkersBut, Sequential, OneFlight, NobodyFlies, Flying
<1> QED BY <1>4, <1>5, <1>6, <1>7

(* A reply had room, and is counted or the last. *)
LEMMA SpeaksSequential ==
  ASSUME BotTypes, BotTypes', ClaimsHold, ReleasedStops, SnapshotIsPast, RepliesAreFinite, RepliesAreFinite',
         Sequential, NEW w \in Workers, Speaks(w)
  PROVE  Sequential'
<1>1. /\ NobodyFlies' /\ life.notices = 0 /\ worker[w].engaged = thread.engaged
      /\ thread.engaged = Never => life.replies = 0
  BY CommitsGrounded DEF Speaks
<1>2. Never = 0 /\ MaxBotTurns \in Nat \ {0} BY BoundsAssumption DEF Never
<1>3. life'.notices = 0 /\ life'.replies = life.replies + 1 BY <1>1 DEF Speaks
<1>4. NoticeEnds' BY <1>3 DEF NoticeEnds
<1>5. PICK e \in Nat : e = thread.engaged BY DEF BotTypes
<1>6. PICK k \in Nat : k = life.replies BY DEF BotTypes, Lives
<1>7. CASE e = 0
  <2>1. life'.replies = 1 BY <1>1, <1>2, <1>3, <1>5, <1>6, <1>7
  <2>2. CASE thread.bot = "human_active"
    <3>1. thread' = thread BY <2>2 DEF Speaks
    <3>2. Mute' BY <1>1 DEF NobodyFlies, Mute
    <3>3. UnstampedReply' BY <2>1, <2>2, <3>1, <3>2 DEF UnstampedReply
    <3>4. StampedReplies' BY <1>2, <1>5, <1>7, <3>1 DEF StampedReplies
    <3> QED BY <1>1, <1>4, <3>3, <3>4, GroundedFrame
  <2>3. CASE thread.bot # "human_active"
    <3>1. PICK f \in Nat : f = clock + 1 BY DEF BotTypes
    <3>2. thread'.engaged = f /\ f # Never
      BY <1>1, <1>2, <1>5, <1>7, <2>3, <3>1 DEF Speaks, BotTypes
    <3>3. UnstampedReply' BY <3>2 DEF UnstampedReply
    <3>4. RepliesSince(f)' >= 1
      <4>1. {m \in Messages : rows'[m].out = "replied" /\ rows'[m].at >= f}
            \subseteq {m \in Messages : rows'[m].out = "replied" /\ rows'[m].at >= 0}
        BY DEF BotTypes, TurnRows
      <4>2. PICK S : S = {m \in Messages : rows'[m].out = "replied" /\ rows'[m].at >= f} OBVIOUS
      <4>3. IsFiniteSet(S) BY <4>1, <4>2, FS_Subset DEF RepliesAreFinite, RepliedSince
      <4>4. Cardinality(S) \in Nat BY <4>3, FS_CardinalityType
      <4> QED BY <3>2, <4>2, <4>4 DEF RepliesSince
    <3>5. StampedReplies' BY <1>2, <2>1, <3>2, <3>4 DEF StampedReplies, RepliesSince
    <3> QED BY <1>1, <1>4, <3>3, <3>5, GroundedFrame
  <2> QED BY <2>2, <2>3
<1>8. CASE e # 0
  <2>1. thread'.engaged = e BY <1>1, <1>2, <1>5, <1>8 DEF Speaks
  <2>2. UnstampedReply' BY <1>2, <1>8, <2>1 DEF UnstampedReply
  <2>3. PICK m \in Messages : m = worker[w].m BY DEF Speaks, BotTypes, WorkersAreSound
  <2>4. worker[w].own = TRUE /\ rows[m].out = "claimed" BY <2>3 DEF Speaks, ClaimsHold
  <2>5. rows[m].at >= e BY <1>1, <1>5, <2>3, <2>4 DEF SnapshotIsPast
  <2>6. /\ rows'[m].out = "replied" /\ rows'[m].at = rows[m].at
        /\ \A n \in Messages \ {m} : rows'[n] = rows[n]
    BY <2>3 DEF Speaks, RowsBut
  <2>7. {n \in Messages : rows'[n].out = "replied" /\ rows'[n].at >= e} = RepliedSince(e) \cup {m}
    BY <2>5, <2>6 DEF RepliedSince
  <2>8. m \notin RepliedSince(e) BY <2>4 DEF RepliedSince
  <2>9. /\ IsFiniteSet(RepliedSince(e)) /\ Cardinality(RepliedSince(e)) \in Nat
        /\ RepliesSince(e) = 1 + Cardinality(RepliedSince(e)) /\ RepliesSince(e) \in Nat
    BY <1>2, <1>8, RepliesSinceType
  <2>10. Cardinality(RepliedSince(e) \cup {m}) = Cardinality(RepliedSince(e)) + 1
    BY <2>8, <2>9, FS_AddElement
  <2>11. RepliesSince(e)' = RepliesSince(e) + 1
    <3>1. PICK S : S = {n \in Messages : rows'[n].out = "replied" /\ rows'[n].at >= e} OBVIOUS
    <3>2. RepliesSince(e)' = 1 + Cardinality(S) BY <1>2, <1>8, <3>1 DEF RepliesSince
    <3>3. Cardinality(S) = Cardinality(RepliedSince(e)) + 1 BY <2>7, <2>10, <3>1
    <3> QED BY <2>9, <3>2, <3>3
  <2>12. k <= RepliesSince(e) BY <1>2, <1>5, <1>6, <1>8 DEF Sequential, StampedReplies
  <2>13. RepliesSince(e) < MaxBotTurns BY <1>1, <1>5 DEF Speaks, Sequential, RoomToReply
  <2>14. life'.replies <= RepliesSince(e)' /\ life'.replies <= MaxBotTurns
    BY <1>2, <1>3, <1>6, <2>9, <2>11, <2>12, <2>13
  <2>15. StampedReplies' BY <2>1, <2>14 DEF StampedReplies, RepliesSince
  <2> QED BY <1>1, <1>4, <2>2, <2>15, GroundedFrame
<1> QED BY <1>7, <1>8

(* The handoff message is the first, and ends the engagement. *)
LEMMA HandsOverSequential ==
  ASSUME BotTypes, ClaimsHold, ReleasedStops, RepliesAreFinite, Sequential, NEW w \in Workers, HandsOver(w)
  PROVE  Sequential'
<1>1. /\ NobodyFlies' /\ life.notices = 0
      /\ thread.engaged = Never => life.replies = 0
  BY CommitsGrounded DEF HandsOver
<1>2. thread'.engaged = thread.engaged /\ thread'.bot \in {"human_active", "handed_off"} BY DEF HandsOver
<1>3. life'.notices = 1 /\ life'.replies = life.replies BY <1>1 DEF HandsOver
<1>4. Mute' BY <1>1 DEF NobodyFlies, Mute
<1>5. NoticeEnds' BY <1>2, <1>3, <1>4 DEF NoticeEnds, Released
<1>6. UnstampedReply' BY <1>1, <1>2, <1>3 DEF UnstampedReply
<1>7. SameReplies BY FreeRowIsUnreplied DEF HandsOver, RowFree
<1>8. PICK e : e = thread.engaged OBVIOUS
<1>9. RepliesSince(e)' = RepliesSince(e) BY <1>7, SameRepliesCount
<1>10. StampedReplies' BY <1>2, <1>3, <1>8, <1>9 DEF Sequential, StampedReplies, RepliesSince
<1> QED BY <1>1, <1>5, <1>6, <1>10, GroundedFrame

(* Whoever takes or releases the thread ends the engagement no sooner than it ended. *)
LEMMA OutsideSequential == ASSUME BotTypes, Sequential, Outside PROVE Sequential'
<1>1. /\ worker' = worker /\ rows' = rows /\ life' = life /\ thread'.engaged = thread.engaged
      /\ thread'.bot \in {thread.bot, "handed_off", "human_active"}
      /\ thread.bot = "human_active" => thread'.bot = "human_active"
  BY DEF Outside, ghostVars
<1>2. OneFlight' /\ SnapshotIsFresh' BY <1>1 DEF Sequential, OneFlight, SnapshotIsFresh
<1>3. RoomToReply' BY <1>1 DEF Sequential, RoomToReply, RepliesSince
<1>4. Mute => Mute' BY <1>1 DEF Mute, Released
<1>5. NoticeEnds' BY <1>1, <1>4 DEF Sequential, NoticeEnds, Released
<1>6. UnstampedReply' BY <1>1, <1>4 DEF Sequential, UnstampedReply
<1>7. StampedReplies' BY <1>1 DEF Sequential, StampedReplies, RepliesSince
<1> QED BY <1>2, <1>3, <1>5, <1>6, <1>7 DEF Sequential

(* A turn that starts alone sees the thread as it is. *)
LEMMA StartsSequential ==
  ASSUME BotTypes, Sequential, InFlight = {}, NEW w \in Workers, NEW m \in Messages, Starts(w, m)
  PROVE  Sequential'
<1>1. NobodyFlies BY InFlightIsFlying DEF NobodyFlies
<1>2. /\ rows' = rows /\ thread' = thread /\ life'.replies = life.replies /\ life'.notices = life.notices
      /\ worker'[w].pc = "gate" /\ worker'[w].bot = thread.bot /\ worker'[w].engaged = thread.engaged
      /\ \A v \in Workers \ {w} : worker'[v] = worker[v]
  BY DEF Starts, WorkersBut
<1>3. \A v \in Workers : worker'[v].pc \in Flying => v = w BY <1>1, <1>2 DEF NobodyFlies
<1>4. OneFlight' /\ SnapshotIsFresh' BY <1>2, <1>3 DEF OneFlight, SnapshotIsFresh
<1>5. RoomToReply' BY <1>2, <1>3 DEF RoomToReply, Flying
<1>6. Released(thread) => Mute' BY <1>2, <1>3 DEF Mute, Released
<1>7. NoticeEnds' BY <1>2, <1>6 DEF Sequential, NoticeEnds, Released
<1>8. UnstampedReply' BY <1>2, <1>6 DEF Sequential, UnstampedReply, Released
<1>9. StampedReplies' BY <1>2 DEF Sequential, StampedReplies, RepliesSince
<1> QED BY <1>4, <1>5, <1>7, <1>8, <1>9 DEF Sequential

(* A reset with nobody in flight starts anew. *)
LEMMA ResetsSequential == ASSUME BotTypes, Resets, InFlight = {} PROVE Sequential'
<1>1. NobodyFlies BY InFlightIsFlying DEF NobodyFlies
<1>2. NobodyFlies' BY <1>1 DEF Resets, NobodyFlies
<1>3. life'.notices = 0 /\ life'.replies = 0 /\ thread'.engaged = Never BY DEF Resets, NewLife
<1>4. NoticeEnds' /\ UnstampedReply' BY <1>3 DEF NoticeEnds, UnstampedReply
<1>5. StampedReplies' BY <1>3 DEF StampedReplies
<1> QED BY <1>2, <1>4, <1>5, GroundedFrame

(* Turns that do not overlap stay within the engagement. *)
LEMMA SequentialNext ==
  ASSUME BotTypes, BotTypes', ClaimsHold, ReleasedStops, SnapshotIsPast, RepliesAreFinite, RepliesAreFinite',
         life.raced = FALSE => Sequential, BotKind, life'.raced = FALSE
  PROVE  Sequential'
<1>1. CASE Resets /\ InFlight = {} BY <1>1, ResetsSequential
<1>2. CASE Sequential /\ life.raced = FALSE
  <2>2. CASE Outside BY <1>2, <2>2, OutsideSequential
  <2>3. CASE Resets
    <3>1. InFlight = {} BY <2>3 DEF Resets, NewLife
    <3> QED BY <2>3, <3>1, ResetsSequential
  <2>4. ASSUME NEW w \in Workers, NEW m \in Messages, Starts(w, m) PROVE Sequential'
    <3>1. InFlight = {} BY <2>4, <1>2 DEF Starts
    <3> QED BY <1>2, <2>4, <3>1, StartsSequential
  <2>5. ASSUME NEW w \in Workers, Advances(w) PROVE Sequential'
    <3>1. SameReplies BY <2>5 DEF Advances, SameReplies
    <3>2. worker[w].engaged \in Nat BY DEF BotTypes, WorkerRows
    <3>3. RepliesSince(worker[w].engaged) \in Nat BY <3>2, RepliesSinceType
    <3>4. ~(RepliesSince(worker[w].engaged) >= MaxBotTurns) => RepliesSince(worker[w].engaged) < MaxBotTurns
      BY <3>3, BoundsAssumption
    <3>5. WorkersBut(w) /\ SameTurn(w) /\ worker[w].pc \in Flying /\ life' = life /\ thread' = thread
      BY <2>5 DEF Advances, ghostVars, Flying
    <3>6. worker'[w].pc \in {"claim", "ask", "reply"} =>
            \/ worker[w].pc \in {"claim", "ask", "reply"}
            \/ RepliesSince(worker[w].engaged) < MaxBotTurns
      BY <2>5, <3>4 DEF Advances
    <3> QED BY <1>2, <3>1, <3>5, <3>6, QuietFrame
  <2>6. ASSUME NEW w \in Workers, Abandons(w) PROVE Sequential'
    <3>1. SameReplies BY <2>6, FreeRowIsUnreplied DEF Abandons, RowFree
    <3>2. WorkersBut(w) /\ worker'[w].pc = "idle" /\ life' = life /\ thread' = thread
      BY <2>6, BotRows DEF Abandons, ghostVars
    <3> QED BY <1>2, <3>1, <3>2, QuietFrame DEF Flying
  <2>7. ASSUME NEW w \in Workers, TakesClaim(w) PROVE Sequential'
    <3>1. SameReplies BY <2>7, FreeRowIsUnreplied DEF TakesClaim, RowFree
    <3>2. WorkersBut(w) /\ SameTurn(w) /\ worker[w].pc = "claim" /\ life' = life /\ thread' = thread
      BY <2>7 DEF TakesClaim, ghostVars
    <3> QED BY <1>2, <3>1, <3>2, QuietFrame DEF Flying
  <2>8. ASSUME NEW w \in Workers, Speaks(w) PROVE Sequential' BY <1>2, <2>8, SpeaksSequential
  <2>9. ASSUME NEW w \in Workers, HandsOver(w) PROVE Sequential' BY <1>2, <2>9, HandsOverSequential
  <2>10. ASSUME NEW w \in Workers, EnqueuesDelivery(w) PROVE Sequential'
    <3>1. SameReplies BY <2>10 DEF EnqueuesDelivery, SameReplies
    <3>2. WorkersBut(w) /\ worker'[w].pc = "follow" /\ life' = life /\ thread' = thread
      BY <2>10 DEF EnqueuesDelivery
    <3> QED BY <1>2, <3>1, <3>2, QuietFrame DEF Flying
  <2>11. ASSUME NEW w \in Workers, EnqueuesRest(w) PROVE Sequential'
    <3>1. SameReplies BY <2>11 DEF EnqueuesRest, SameReplies
    <3>2. WorkersBut(w) /\ worker'[w].pc = "idle" /\ life' = life /\ thread' = thread
      BY <2>11, BotRows DEF EnqueuesRest
    <3> QED BY <1>2, <3>1, <3>2, QuietFrame DEF Flying
  <2> QED BY <2>2, <2>3, <2>4, <2>5, <2>6, <2>7, <2>8, <2>9, <2>10, <2>11 DEF BotKind
<1> QED BY <1>1, <1>2, RacedStays

-----------------------------------------------------------------------------
(* Initially nobody works. *)
LEMMA BotInitIInv == BotInit => BotIInv
<1> SUFFICES ASSUME BotInit PROVE BotIInv OBVIOUS
<1>1. \A w \in Workers : worker[w] = IdleWorker BY DEF BotInit
<1>2. \A w \in Workers : worker[w].pc = "idle" /\ worker[w].own = FALSE /\ worker[w].engaged = Never
  BY <1>1, BotRows
<1>3. Never = 0 /\ clock = 1 /\ faults = 0 BY DEF BotInit, Never
<1>4. \A m \in Messages : rows[m].out = "none" BY DEF BotInit
<1>5. BotTypes
  <2>1. thread \in [bot : States, engaged : 0..clock] BY <1>3 DEF BotInit, States
  <2>2. PICK r : r = [out |-> "none", at |-> 0] OBVIOUS
  <2>3. r \in TurnRows BY <2>2 DEF TurnRows, Outcomes
  <2>4. rows \in [Messages -> TurnRows] BY <2>2, <2>3 DEF BotInit
  <2>5. PICK j : j = [st |-> "none", tries |-> 0] OBVIOUS
  <2>6. j \in JobRows BY <2>5, BoundsAssumption DEF JobRows
  <2>7. job \in [Messages -> JobRows] BY <2>5, <2>6 DEF BotInit
  <2>8. worker \in [Workers -> WorkerRows] BY BotRows DEF BotInit
  <2>9. life \in Lives BY DEF BotInit, NewLife, Lives
  <2>10. WorkersAreSound BY <1>1, <1>2 DEF WorkersAreSound
  <2>11. faults \in 0..MaxFaults /\ acts \in 0..MaxActs BY BoundsAssumption DEF BotInit
  <2>12. /\ ticket \in {"open", "pending"} /\ asker \in {"none", "read", "done"} /\ clock \in Nat
         /\ owed \subseteq Messages \X FollowUps /\ refused \subseteq Messages \X FollowUps
         /\ deleted \in BOOLEAN
    BY DEF BotInit
  <2>13. answers \in [Messages -> Nat] BY DEF BotInit
  <2> QED BY <2>1, <2>4, <2>7, <2>8, <2>9, <2>10, <2>11, <2>12, <2>13 DEF BotTypes
<1>6. ClaimsHold /\ ClaimsAlone BY <1>2 DEF ClaimsHold, ClaimsAlone
<1>7. ClaimedHasWorker BY <1>4 DEF ClaimedHasWorker
<1>8. OwedHasWorker BY DEF BotInit, OwedHasWorker
<1>9. ReleasedStops BY <1>2 DEF ReleasedStops, Flying
<1>10. SnapshotIsPast BY <1>2, <1>3 DEF SnapshotIsPast
<1>11. RepliesAreFinite
  <2>1. RepliedSince(0) = {} BY <1>4 DEF RepliedSince
  <2> QED BY <2>1, FS_EmptySet DEF RepliesAreFinite
<1>12. OneReplyOnRecord BY <1>4 DEF BotInit, OneReplyOnRecord
<1>13. Sequential
  <2>1. OneFlight /\ SnapshotIsFresh /\ RoomToReply BY <1>2 DEF OneFlight, SnapshotIsFresh, RoomToReply, Flying
  <2>2. life.notices = 0 /\ life.replies = 0 /\ thread.engaged = Never BY DEF BotInit, NewLife
  <2> QED BY <2>1, <2>2 DEF Sequential, NoticeEnds, UnstampedReply, StampedReplies
<1> QED BY <1>5, <1>6, <1>7, <1>8, <1>9, <1>10, <1>11, <1>12, <1>13 DEF BotIInv

(* Every step keeps the inductive invariant. *)
LEMMA BotNextIInv == BotIInv /\ [BotNext]_botVars => BotIInv'
<1> SUFFICES ASSUME BotIInv, [BotNext]_botVars PROVE BotIInv' OBVIOUS
<1>0. /\ BotTypes /\ ClaimsHold /\ ClaimsAlone /\ ClaimedHasWorker /\ OwedHasWorker
      /\ ReleasedStops /\ SnapshotIsPast /\ RepliesAreFinite /\ OneReplyOnRecord
      /\ life.raced = FALSE => Sequential
  BY DEF BotIInv
<1>1. BotTypes' BY <1>0, BotTypesNext
<1>2. ClaimsHold' /\ ClaimsAlone' BY <1>0, ClaimsNext
<1>3. OneReplyOnRecord' /\ RepliesAreFinite' BY <1>0, RecordNext
<1>4. ClaimedHasWorker' BY <1>0, ClaimedNext
<1>5. OwedHasWorker' BY <1>0, OwedNext
<1>6. ReleasedStops' BY <1>0, ReleasedNext
<1>7. SnapshotIsPast' BY <1>0, SnapshotNext
<1>8. life'.raced = FALSE => Sequential' BY <1>0, <1>1, <1>3, BotKinds, SequentialNext
<1> QED BY <1>1, <1>2, <1>3, <1>4, <1>5, <1>6, <1>7, <1>8 DEF BotIInv

(* The strengthening the theorems below rest on: who holds which claim, who  *)
(* pays what is owed, and, as long as turns do not overlap, how far the      *)
(* engagement has come.                                                      *)
THEOREM BotInvariant == BotSpec => []BotIInv
BY BotInitIInv, BotNextIInv, PTL DEF BotSpec

(* Every reachable state of the conversation, its turns and jobs is well     *)
(* typed.                                                                    *)
THEOREM BotTypeCorrect == BotSpec => []BotTypeOK
<1>1. BotIInv => BotTypeOK BY BotTypeParts DEF BotIInv
<1> QED BY <1>1, BotInvariant, PTL

(* However often ai.handle_inbound is delivered, crashes, stalls or throws,  *)
(* a message is answered once, and its bot_turns row says so: the insert of  *)
(* claimTurn is the only way to reply.                                       *)
THEOREM OneReplyPerMessage == BotSpec => []OneReplyOnRecord
<1>1. BotIInv => OneReplyOnRecord BY DEF BotIInv
<1> QED BY <1>1, BotInvariant, PTL

(* Without a crash or a failed query, a claimed message has a worker that    *)
(* will settle its row, unless the tenant was deleted, and whatever reply()  *)
(* or handOff() committed but has not enqueued has the worker that enqueues  *)
(* it, was refused by the queue, or is a routing of a deleted tenant.        *)
THEOREM TurnsAreNotHalfDone == BotSpec => []HalfDoneNeedsFault
<1>1. BotIInv => HalfDoneNeedsFault
  <2> SUFFICES ASSUME BotIInv, faults = 0 PROVE HalfDoneNeedsFault BY DEF HalfDoneNeedsFault
  <2>1. deleted \in BOOLEAN /\ ClaimedHasWorker /\ OwedHasWorker BY DEF BotIInv, BotTypes
  <2>2. ASSUME NEW m \in Messages, rows[m].out = "claimed", ~deleted
        PROVE  \E w \in Workers : worker[w].m = m /\ worker[w].own
    <3>1. deleted = FALSE BY <2>1, <2>2
    <3> QED BY <2>1, <2>2, <3>1 DEF ClaimedHasWorker
  <2>3. ASSUME NEW o \in owed \ refused, ~(o[2] = "route" /\ deleted)
        PROVE  \E w \in Workers : worker[w].m = o[1] /\ worker[w].pc \in {"dispatch", "follow"}
    <3>1. ~Stuck(o) BY <2>1, <2>3 DEF Stuck
    <3> QED BY <2>1, <2>3, <3>1 DEF OwedHasWorker
  <2> QED BY <2>2, <2>3 DEF HalfDoneNeedsFault
<1> QED BY <1>1, BotInvariant, PTL

(* For any number of messages, workers and retries: while turns do not       *)
(* overlap, the bot replies at most maxBotTurns times between two resets     *)
(* and sends one handoff message, although the count that enforces it is     *)
(* read before the model call and the stamp is written after it.             *)
THEOREM SequentialTurnsAreBounded == BotSpec => []SequentialTurnsBounded
<1>1. BotIInv => SequentialTurnsBounded
  <2> SUFFICES ASSUME BotIInv, ~life.raced PROVE life.replies <= MaxBotTurns /\ life.notices <= 1
    BY DEF SequentialTurnsBounded
  <2>1. life.replies \in Nat /\ life.notices \in Nat /\ life.raced \in BOOLEAN BY DEF BotIInv, BotTypes, Lives
  <2>2. life.raced = FALSE BY <2>1
  <2>3. NoticeEnds /\ UnstampedReply /\ StampedReplies BY <2>2 DEF BotIInv, Sequential
  <2>4. life.notices <= 1 BY <2>1, <2>3 DEF NoticeEnds
  <2>5. life.replies <= MaxBotTurns BY <2>1, <2>3, BoundsAssumption DEF UnstampedReply, StampedReplies
  <2> QED BY <2>4, <2>5
<1> QED BY <1>1, BotInvariant, PTL

(* No write of a turn, and no handoff recorded late, takes the thread from   *)
(* the person who has it: WHERE bot_state <> 'human_active' guards each one. *)
THEOREM ThreadStaysWithPerson == BotSpec => HumanKeepsThread
<1>1. BotIInv /\ [BotNext]_botVars =>
        [thread.bot = "human_active" => thread'.bot = "human_active" \/ SetStatus]_botVars
  <2> SUFFICES ASSUME BotIInv, [BotNext]_botVars, thread.bot = "human_active", ~SetStatus
               PROVE  thread'.bot = "human_active"
    OBVIOUS
  <2>1. BotTypes BY DEF BotIInv
  <2>2. BotKind /\ ~Resets BY <2>1, BotKinds DEF Resets
  <2>3. ASSUME NEW w \in Workers, NEW m \in Messages, Starts(w, m) PROVE thread' = thread
    BY <2>3 DEF Starts
  <2>4. ASSUME NEW w \in Workers,
               \/ Advances(w) \/ Abandons(w) \/ TakesClaim(w) \/ Speaks(w) \/ HandsOver(w)
               \/ EnqueuesDelivery(w) \/ EnqueuesRest(w)
        PROVE  thread' = thread
    BY <2>4 DEF Advances, Abandons, TakesClaim, Speaks, HandsOver, EnqueuesDelivery, EnqueuesRest
  <2>5. CASE Outside BY <2>5 DEF Outside
  <2> QED BY <2>2, <2>3, <2>4, <2>5 DEF BotKind
<1> QED BY <1>1, BotInvariant, PTL DEF BotSpec, HumanKeepsThread

=============================================================================
