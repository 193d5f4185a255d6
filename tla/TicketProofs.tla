------------------------------ MODULE TicketProofs ------------------------------
(***************************************************************************)
(* Proofs for the two components that own a ticket's first minutes:        *)
(* TicketLinker, which puts a message on a ticket, and TicketRouting, which *)
(* gives the ticket to somebody.                                           *)
(*                                                                         *)
(* Linking: for any number of messages, workers and requests, IInv is      *)
(* inductive, and with it the contact has one active ticket, numbers       *)
(* follow creation, no finished ticket comes back, and a completed job has *)
(* put its message on a ticket and told the SLA queue of what it opened,   *)
(* but for a deleted tenant, a refused enqueue and a crash.                *)
(*                                                                         *)
(* Routing: for any finite sets of tickets and routers, any agents and any *)
(* rules, RoutingIInv is inductive, and with it rotation fills an agent    *)
(* past its cap by at most one ticket per further router, a routed ticket  *)
(* has one verdict, and a removed user holds nothing it was not given late.*)
(***************************************************************************)
EXTENDS TicketLinker, TicketRouting, FiniteSetTheorems, WellFoundedInduction, TLAPS

-----------------------------------------------------------------------------
(* TicketLinker. *)

TicketRows == [st : Statuses \union {"none"}, number : Nat]
TriggerRows == [st : TriggerStates, tries : Nat]
LinkerRows == [pc : PCs, m : Messages \union {NoMessage}, attempt : 1..MaxLinkAttempts, t : Ids]
WriterRows == [busy : BOOLEAN, t : Ids, before : Statuses, to : Statuses]

(* The conjuncts of IInv that speak of one part of the state each. *)
TicketInv == OneActive /\ NumbersInOrder /\ NumbersAllocated
LinkInv == WorkersHaveMessages /\ DoneMeansLinked /\ SlaIsTold

(* The invariant by what its parts are about. *)
LEMMA IInvParts ==
  IInv <=> TypeOK /\ TicketInv /\ MovesAreLegal /\ LinkInv
BY DEF IInv, TicketInv, LinkInv

(* Changing the status of one row leaves its number and the other rows. *)
LEMMA SetStatusFrame ==
  ASSUME tickets \in [Ids -> TicketRows], NEW t \in Ids, NEW s \in Statuses, SetStatus(t, s)
  PROVE  /\ tickets' \in [Ids -> TicketRows]
         /\ tickets'[t].st = s /\ tickets'[t].number = tickets[t].number
         /\ \A u \in Ids \ {t} : tickets'[u] = tickets[u]
<1>1. \A x \in TicketRows : /\ [x EXCEPT !.st = s] \in TicketRows
                            /\ [x EXCEPT !.st = s].st = s
                            /\ [x EXCEPT !.st = s].number = x.number
  BY DEF TicketRows
<1>2. tickets[t] \in TicketRows OBVIOUS
<1> QED BY <1>1, <1>2 DEF SetStatus

(* A status change that makes no row active keeps what is true of the rows. *)
LEMMA StatusMoveKeeps ==
  ASSUME TypeOK, TicketInv, NEW t \in Ids, NEW s \in Statuses, SetStatus(t, s),
         UNCHANGED counter, tickets[t].st \in Statuses,
         s \in Active => tickets[t].st \in Active
  PROVE  TicketInv'
<1>t. tickets \in [Ids -> TicketRows] BY DEF TypeOK, TicketRows
<1>1. /\ tickets'[t].st = s /\ tickets'[t].number = tickets[t].number
      /\ \A u \in Ids \ {t} : tickets'[u] = tickets[u]
  BY <1>t, SetStatusFrame
<1>2. ActiveIds' \subseteq ActiveIds BY <1>1 DEF ActiveIds
<1>3. Unused' = Unused BY <1>1 DEF Unused, Statuses
<1>4. \A u \in Ids : tickets'[u].number = tickets[u].number BY <1>1
<1>5. OneActive' BY <1>2 DEF TicketInv, OneActive
<1>6. NumbersInOrder' BY <1>3, <1>4 DEF TicketInv, NumbersInOrder
<1>7. NumbersAllocated' BY <1>3, <1>4 DEF TicketInv, NumbersAllocated
<1> QED BY <1>5, <1>6, <1>7 DEF TicketInv

(* A number spent without a row changes nothing about the rows. *)
LEMMA SpentNumberKeeps ==
  ASSUME TypeOK, TicketInv, UNCHANGED tickets, counter' = counter \/ counter' = counter + 1
  PROVE  TicketInv'
<1>t. counter \in Nat /\ \A u \in Ids : tickets[u].number \in Nat BY DEF TypeOK
<1>1. OneActive' BY DEF TicketInv, OneActive, ActiveIds
<1>2. NumbersInOrder' BY DEF TicketInv, NumbersInOrder, Unused
<1>3. NumbersAllocated' BY <1>t DEF TicketInv, NumbersAllocated, Unused
<1> QED BY <1>1, <1>2, <1>3 DEF TicketInv

(* A worker's new state is typed, and the other workers keep theirs. *)
LEMMA SetLinkerFrame ==
  ASSUME linker \in [Linkers -> LinkerRows], NEW l \in Linkers, NEW x \in LinkerRows,
         SetLinker(l, x)
  PROVE  /\ linker' \in [Linkers -> LinkerRows]
         /\ linker'[l] = x
         /\ \A k \in Linkers \ {l} : linker'[k] = linker[k]
BY DEF SetLinker

(* A linker moves on. *)
LEMMA GotoFrame ==
  ASSUME linker \in [Linkers -> LinkerRows], NEW l \in Linkers, NEW p \in PCs, Goto(l, p)
  PROVE  /\ linker' \in [Linkers -> LinkerRows]
         /\ linker'[l].pc = p /\ linker'[l].m = linker[l].m
         /\ \A k \in Linkers \ {l} : linker'[k] = linker[k]
<1>1. \A x \in LinkerRows : /\ [x EXCEPT !.pc = p] \in LinkerRows
                            /\ [x EXCEPT !.pc = p].pc = p /\ [x EXCEPT !.pc = p].m = x.m
  BY DEF LinkerRows
<1>2. linker[l] \in LinkerRows OBVIOUS
<1>3. linker' = [linker EXCEPT ![l] = [linker[l] EXCEPT !.pc = p]]
  BY DEF Goto, SetLinker
<1> QED BY <1>1, <1>2, <1>3

(* A lost race goes back to the read or gives up, with the same message. *)
LEMMA LostRaceFrame ==
  ASSUME linker \in [Linkers -> LinkerRows], NEW l \in Linkers, LostRace(l)
  PROVE  /\ linker' \in [Linkers -> LinkerRows]
         /\ linker'[l].pc \in {"read", "throw"} /\ linker'[l].m = linker[l].m
         /\ \A k \in Linkers \ {l} : linker'[k] = linker[k]
<1>1. CASE linker[l].attempt < MaxLinkAttempts
  <2> DEFINE n == linker[l].attempt + 1
  <2>1. n \in 1..MaxLinkAttempts BY <1>1, BoundsAssumption DEF LinkerRows
  <2>2. linker' = [linker EXCEPT ![l] = [linker[l] EXCEPT !.pc = "read", !.attempt = n]]
    BY <1>1 DEF LostRace, SetLinker
  <2> HIDE DEF n
  <2>3. \A x \in LinkerRows : /\ [x EXCEPT !.pc = "read", !.attempt = n] \in LinkerRows
                              /\ [x EXCEPT !.pc = "read", !.attempt = n].pc = "read"
                              /\ [x EXCEPT !.pc = "read", !.attempt = n].m = x.m
    BY <2>1 DEF LinkerRows, PCs
  <2>4. linker[l] \in LinkerRows OBVIOUS
  <2> QED BY <2>2, <2>3, <2>4
<1>2. CASE ~(linker[l].attempt < MaxLinkAttempts)
  <2>1. Goto(l, "throw") BY <1>2 DEF LostRace, Goto, SetLinker
  <2>2. "throw" \in PCs BY DEF PCs
  <2> QED BY <2>1, <2>2, GotoFrame
<1> QED BY <1>1, <1>2

(* A worker that has put its message nowhere yet, and goes on, keeps LinkInv. *)
LEMMA WorkerStepKeeps ==
  ASSUME LinkInv, NEW l \in Linkers,
         UNCHANGED <<trigger, deleted, linked, opened, told, refused, repeats>>,
         \A k \in Linkers \ {l} : linker'[k] = linker[k], linker[l].pc # "tell",
         linker'[l].pc \notin {"tell", "return"}, linker'[l].pc = "idle" \/ linker'[l].m \in Messages
  PROVE  LinkInv'
<1>1. WorkersHaveMessages' /\ DoneMeansLinked'
  BY DEF LinkInv, WorkersHaveMessages, DoneMeansLinked, At
<1>2. \A k \in Linkers : At(k, "tell") => k # l /\ linker'[k] = linker[k]
  BY DEF At
<1>3. SlaIsTold' BY <1>2 DEF LinkInv, SlaIsTold, At
<1> QED BY <1>1, <1>3 DEF LinkInv

(* The worker's state after it has put its message on ticket t. *)
LEMMA LinkToFrame ==
  ASSUME linker \in [Linkers -> LinkerRows], NEW l \in Linkers, NEW t \in Ids, NEW o, LinkTo(l, t, o)
  PROVE  /\ linker' \in [Linkers -> LinkerRows]
         /\ linker'[l].pc = IF SlaReasonFor(o) THEN "tell" ELSE "return"
         /\ linker'[l].m = linker[l].m /\ linker'[l].t = t
         /\ \A k \in Linkers \ {l} : linker'[k] = linker[k]
<1>1. PICK p \in {"tell", "return"} : p = IF SlaReasonFor(o) THEN "tell" ELSE "return"
  OBVIOUS
<1>2. \A x \in LinkerRows : /\ [x EXCEPT !.t = t, !.pc = p] \in LinkerRows
                            /\ [x EXCEPT !.t = t, !.pc = p].pc = p
                            /\ [x EXCEPT !.t = t, !.pc = p].m = x.m
                            /\ [x EXCEPT !.t = t, !.pc = p].t = t
  BY DEF LinkerRows, PCs
<1>3. linker[l] \in LinkerRows OBVIOUS
<1>4. SetLinker(l, [linker[l] EXCEPT !.t = t, !.pc = p]) BY <1>1 DEF LinkTo
<1> QED BY <1>1, <1>2, <1>3, <1>4, SetLinkerFrame

(* A worker that puts its message on ticket t keeps LinkInv: it tells of t   *)
(* next if, and only if, it opened t.                                        *)
LEMMA LinkToKeeps ==
  ASSUME TypeOK, LinkInv, NEW l \in Linkers, NEW t \in Ids, NEW o, LinkTo(l, t, o),
         linker[l].pc \notin {"idle", "tell"},
         UNCHANGED <<trigger, deleted, told, refused, repeats>>,
         \/ SlaReasonFor(o) /\ Opens(linker[l].m, t)
         \/ ~SlaReasonFor(o) /\ UNCHANGED opened
  PROVE  /\ LinkInv'
         /\ linker' \in [Linkers -> LinkerRows] /\ linked' \in [Messages -> SUBSET Ids]
         /\ opened' \in [Messages -> SUBSET Ids]
<1>t. /\ linker \in [Linkers -> LinkerRows] /\ linked \in [Messages -> SUBSET Ids]
      /\ opened \in [Messages -> SUBSET Ids]
  BY DEF TypeOK, LinkerRows
<1>m. linker[l].m \in Messages BY DEF LinkInv, WorkersHaveMessages, At
<1>1. /\ linker' \in [Linkers -> LinkerRows]
      /\ linker'[l].pc = IF SlaReasonFor(o) THEN "tell" ELSE "return"
      /\ linker'[l].m = linker[l].m /\ linker'[l].t = t
      /\ \A k \in Linkers \ {l} : linker'[k] = linker[k]
  BY <1>t, LinkToFrame
<1>2. /\ linked' \in [Messages -> SUBSET Ids]
      /\ linked'[linker[l].m] # {}
      /\ \A m \in Messages : linked[m] \subseteq linked'[m]
  BY <1>t, <1>m DEF LinkTo
<1>3. /\ opened' \in [Messages -> SUBSET Ids]
      /\ \A m \in Messages : opened[m] \subseteq opened'[m]
      /\ SlaReasonFor(o) => t \in opened'[linker[l].m]
      /\ \A m \in Messages : \A u \in opened'[m] :
           u \in opened[m] \/ (SlaReasonFor(o) /\ m = linker[l].m /\ u = t)
  BY <1>t, <1>m DEF Opens
<1>4. WorkersHaveMessages'
  <2> SUFFICES ASSUME NEW k \in Linkers
               PROVE  /\ linker'[k].pc # "idle" => linker'[k].m \in Messages
                      /\ linker'[k].pc \in {"tell", "return"} => linked'[linker'[k].m] # {}
                      /\ linker'[k].pc = "tell" => linker'[k].t \in opened'[linker'[k].m]
    BY DEF WorkersHaveMessages, At
  <2>1. CASE k = l BY <2>1, <1>1, <1>2, <1>3, <1>m
  <2>2. CASE k # l
    <3>1. /\ linker[k].pc # "idle" => linker[k].m \in Messages
          /\ linker[k].pc \in {"tell", "return"} => linked[linker[k].m] # {}
          /\ linker[k].pc = "tell" => linker[k].t \in opened[linker[k].m]
      BY DEF LinkInv, WorkersHaveMessages, At
    <3> QED BY <3>1, <2>2, <1>1, <1>2, <1>3
  <2> QED BY <2>1, <2>2
<1>5. DoneMeansLinked' BY <1>2 DEF LinkInv, DoneMeansLinked
<1>6. SlaIsTold'
  <2>1. ASSUME NEW m \in Messages PROVE told'[m] \subseteq opened'[m]
    BY <1>3 DEF LinkInv, SlaIsTold
  <2>2. ASSUME NEW m \in Messages, repeats' = 0, m \notin refused', NEW u \in opened'[m] \ told'[m]
        PROVE  \E k \in Linkers : linker'[k].pc = "tell" /\ linker'[k].m = m /\ linker'[k].t = u
    <3>1. CASE u \in opened[m]
      <4>1. PICK k \in Linkers : linker[k].pc = "tell" /\ linker[k].m = m /\ linker[k].t = u
        BY <2>2, <3>1 DEF LinkInv, SlaIsTold, At
      <4> QED BY <4>1, <1>1
    <3>2. CASE SlaReasonFor(o) /\ m = linker[l].m /\ u = t
      BY <3>2, <1>1
    <3> QED BY <2>2, <3>1, <3>2, <1>3
  <2> QED BY <2>1, <2>2 DEF SlaIsTold, At
<1> QED BY <1>1, <1>2, <1>3, <1>4, <1>5, <1>6 DEF LinkInv

(* What a worker asks the SLA queue for, or is refused, keeps LinkInv.       *)
LEMMA TellKeeps ==
  ASSUME TypeOK, LinkInv, NEW l \in Linkers, TriggerSlaEvaluation(l)
  PROVE  /\ LinkInv'
         /\ linker' \in [Linkers -> LinkerRows] /\ told' \in [Messages -> SUBSET Ids]
         /\ refused' \subseteq Messages
<1>t. /\ linker \in [Linkers -> LinkerRows] /\ told \in [Messages -> SUBSET Ids]
      /\ refused \subseteq Messages
  BY DEF TypeOK, LinkerRows
<1>m. /\ linker[l].m \in Messages /\ linker[l].pc = "tell"
      /\ linked[linker[l].m] # {} /\ linker[l].t \in opened[linker[l].m]
  BY DEF LinkInv, WorkersHaveMessages, At, TriggerSlaEvaluation
<1>u. UNCHANGED <<trigger, deleted, linked, opened, repeats>>
  BY DEF TriggerSlaEvaluation, boundVars
<1>1. /\ linker' \in [Linkers -> LinkerRows]
      /\ linker'[l].pc = "return" /\ linker'[l].m = linker[l].m
      /\ \A k \in Linkers \ {l} : linker'[k] = linker[k]
  <2>1. "return" \in PCs BY DEF PCs
  <2> QED BY <2>1, <1>t, GotoFrame DEF TriggerSlaEvaluation
<1>2. linker[l].t \in Ids BY <1>t DEF LinkerRows
<1>3. /\ told' \in [Messages -> SUBSET Ids] /\ refused \subseteq refused' /\ refused' \subseteq Messages
      /\ linker[l].t \in told'[linker[l].m] \/ linker[l].m \in refused'
      /\ \A m \in Messages : told[m] \subseteq told'[m]
      /\ \A m \in Messages : \A u \in told'[m] : u \in told[m] \/ (m = linker[l].m /\ u = linker[l].t)
  BY <1>t, <1>m, <1>2 DEF TriggerSlaEvaluation
<1>4. WorkersHaveMessages' BY <1>1, <1>m, <1>u DEF LinkInv, WorkersHaveMessages, At
<1>5. DoneMeansLinked' BY <1>u DEF LinkInv, DoneMeansLinked
<1>6. SlaIsTold'
  <2>1. ASSUME NEW m \in Messages PROVE told'[m] \subseteq opened'[m]
    BY <1>3, <1>m, <1>u DEF LinkInv, SlaIsTold
  <2>2. ASSUME NEW m \in Messages, repeats' = 0, m \notin refused', NEW u \in opened'[m] \ told'[m]
        PROVE  \E k \in Linkers : linker'[k].pc = "tell" /\ linker'[k].m = m /\ linker'[k].t = u
    <3>1. u \in opened[m] \ told[m] /\ m \notin refused BY <2>2, <1>3, <1>u
    <3>2. PICK k \in Linkers : linker[k].pc = "tell" /\ linker[k].m = m /\ linker[k].t = u
      BY <2>2, <3>1, <1>u DEF LinkInv, SlaIsTold, At
    <3>3. k # l BY <2>2, <3>2, <1>3
    <3> QED BY <3>2, <3>3, <1>1
  <2> QED BY <2>1, <2>2 DEF SlaIsTold, At
<1> QED BY <1>1, <1>3, <1>4, <1>5, <1>6 DEF LinkInv

(* Initially there is no ticket and nobody is at work. *)
LEMMA InitIInv == Init => IInv
<1> SUFFICES ASSUME Init PROVE IInv OBVIOUS
<1> USE BoundsAssumption
<1>1. TypeOK
  <2>1. 1 \in Ids /\ 1 \in 1..MaxLinkAttempts BY DEF Ids
  <2>2. IdleLinker \in LinkerRows BY <2>1 DEF IdleLinker, LinkerRows, PCs
  <2>3. IdleWriter \in [busy : BOOLEAN, t : Ids, before : Statuses, to : Statuses]
    BY <2>1 DEF IdleWriter, Statuses
  <2>4. /\ linker \in [Linkers -> LinkerRows]
        /\ writer \in [Writers -> [busy : BOOLEAN, t : Ids, before : Statuses, to : Statuses]]
    BY <2>2, <2>3 DEF Init
  <2>5. NoTicket \in [st : Statuses \union {"none"}, number : Nat] BY DEF NoTicket
  <2>6. tickets \in [Ids -> [st : Statuses \union {"none"}, number : Nat]] BY <2>5 DEF Init
  <2>7. trigger \in [Messages -> [st : TriggerStates, tries : Nat]] BY DEF Init, TriggerStates
  <2>8. counter \in Nat \ {0} /\ repeats \in 0..MaxRepeats /\ acts \in 0..MaxActs BY DEF Init
  <2>9. /\ linked \in [Messages -> SUBSET Ids]
        /\ opened \in [Messages -> SUBSET Ids] /\ told \in [Messages -> SUBSET Ids]
        /\ refused \subseteq Messages /\ deleted \in BOOLEAN
    BY DEF Init
  <2> QED BY <2>4, <2>6, <2>7, <2>8, <2>9 DEF TypeOK, LinkerRows
<1>2. TicketInv
  <2>1. Unused = Ids /\ ActiveIds = {}
    BY DEF Init, NoTicket, Unused, ActiveIds, Active
  <2> QED BY <2>1 DEF TicketInv, OneActive, NumbersInOrder, NumbersAllocated
<1>3. MovesAreLegal BY DEF Init, IdleWriter, MovesAreLegal
<1>4. LinkInv
  BY DEF Init, IdleLinker, LinkInv, WorkersHaveMessages, DoneMeansLinked, SlaIsTold, At
<1> QED BY <1>1, <1>2, <1>3, <1>4, IInvParts

(* A job's new state is typed and leaves the other jobs. *)
LEMMA SetTriggerFrame ==
  ASSUME trigger \in [Messages -> TriggerRows], NEW m \in Messages, NEW st \in TriggerStates,
         NEW n \in Nat, SetTrigger(m, st, n)
  PROVE  /\ trigger' \in [Messages -> TriggerRows]
         /\ trigger'[m].st = st
         /\ \A k \in Messages \ {m} : trigger'[k] = trigger[k]
<1>1. [st |-> st, tries |-> n] \in TriggerRows /\ [st |-> st, tries |-> n].st = st
  BY DEF TriggerRows
<1> QED BY <1>1 DEF SetTrigger

(* A worker that drops a job, finished or not, keeps LinkInv. *)
LEMMA WorkerEndKeeps ==
  ASSUME TypeOK, LinkInv, NEW l \in Linkers, NEW st \in TriggerStates, NEW n \in Nat,
         ~At(l, "idle"), SetTrigger(linker[l].m, st, n), SetLinker(l, IdleLinker),
         UNCHANGED <<linked, deleted, opened, told, refused>>,
         st = "done" => At(l, "return") \/ deleted,
         repeats' = 0 => repeats = 0 /\ ~At(l, "tell")
  PROVE  /\ LinkInv'
         /\ trigger' \in [Messages -> TriggerRows] /\ linker' \in [Linkers -> LinkerRows]
<1>t. linker \in [Linkers -> LinkerRows] /\ trigger \in [Messages -> TriggerRows]
  BY DEF TypeOK, LinkerRows, TriggerRows
<1>m. linker[l].m \in Messages BY DEF LinkInv, WorkersHaveMessages
<1>i. IdleLinker \in LinkerRows /\ IdleLinker.pc = "idle"
  BY BoundsAssumption DEF IdleLinker, LinkerRows, PCs, Ids
<1>1. /\ linker' \in [Linkers -> LinkerRows] /\ linker'[l].pc = "idle"
      /\ \A k \in Linkers \ {l} : linker'[k] = linker[k]
  BY <1>t, <1>i, SetLinkerFrame
<1>2. /\ trigger' \in [Messages -> TriggerRows] /\ trigger'[linker[l].m].st = st
      /\ \A k \in Messages \ {linker[l].m} : trigger'[k] = trigger[k]
  BY <1>t, <1>m, SetTriggerFrame
<1>3. WorkersHaveMessages' BY <1>1 DEF LinkInv, WorkersHaveMessages, At
<1>4. DoneMeansLinked' BY <1>2 DEF LinkInv, WorkersHaveMessages, DoneMeansLinked, At
<1>5. SlaIsTold'
  <2>1. ASSUME repeats' = 0, NEW k \in Linkers, linker[k].pc = "tell" PROVE linker'[k] = linker[k]
    BY <2>1, <1>1 DEF At
  <2> QED BY <2>1 DEF LinkInv, SlaIsTold, At
<1> QED BY <1>1, <1>2, <1>3, <1>4, <1>5 DEF LinkInv

(* A worker that has read goes on to create, reopen or attach. *)
LEMMA ReadActiveFrame ==
  ASSUME linker \in [Linkers -> LinkerRows], NEW l \in Linkers, ReadActive(l), ~deleted
  PROVE  /\ linker' \in [Linkers -> LinkerRows]
         /\ linker'[l].pc \in {"create", "reopen", "attach"} /\ linker'[l].m = linker[l].m
         /\ \A k \in Linkers \ {l} : linker'[k] = linker[k]
<1>p. {"create", "reopen", "attach"} \subseteq PCs BY DEF PCs
<1>1. CASE Goto(l, "create") BY <1>1, <1>p, GotoFrame
<1>2. CASE \E t \in Ids, p \in {"reopen", "attach"} :
             linker' = [linker EXCEPT ![l] = [linker[l] EXCEPT !.t = t, !.pc = p]]
  <2>1. PICK t \in Ids, p \in {"reopen", "attach"} :
          linker' = [linker EXCEPT ![l] = [linker[l] EXCEPT !.t = t, !.pc = p]]
    BY <1>2
  <2>2. \A x \in LinkerRows : /\ [x EXCEPT !.t = t, !.pc = p] \in LinkerRows
                              /\ [x EXCEPT !.t = t, !.pc = p].pc = p
                              /\ [x EXCEPT !.t = t, !.pc = p].m = x.m
    BY <1>p DEF LinkerRows
  <2>3. linker[l] \in LinkerRows OBVIOUS
  <2> QED BY <2>1, <2>2, <2>3
<1> QED BY <1>1, <1>2 DEF ReadActive, SetLinker, ActiveIds

(* Every step keeps IInv. *)
LEMMA NextIInv == IInv /\ [Next]_vars => IInv'
<1> SUFFICES ASSUME IInv, [Next]_vars PROVE IInv'
  OBVIOUS
<1> USE BoundsAssumption
<1>i. TypeOK /\ TicketInv /\ MovesAreLegal /\ LinkInv BY IInvParts
<1>t. /\ tickets \in [Ids -> TicketRows] /\ counter \in Nat \ {0}
      /\ trigger \in [Messages -> TriggerRows] /\ linker \in [Linkers -> LinkerRows]
      /\ writer \in [Writers -> WriterRows] /\ linked \in [Messages -> SUBSET Ids]
      /\ opened \in [Messages -> SUBSET Ids] /\ told \in [Messages -> SUBSET Ids]
      /\ refused \subseteq Messages /\ deleted \in BOOLEAN
      /\ repeats \in 0..MaxRepeats /\ acts \in 0..MaxActs
  BY <1>i DEF TypeOK, TicketRows, TriggerRows, LinkerRows, WriterRows
<1>p. /\ PCs = {"idle", "read", "attach", "reopen", "create", "tell", "return", "throw"}
      /\ TriggerStates = {"none", "queued", "running", "done", "failed"}
      /\ Statuses = {"open", "pending", "resolved", "closed"} /\ Active = {"open", "pending"}
  BY DEF PCs, TriggerStates, Statuses, Active
<1>1. ASSUME NEW m \in Messages, Enqueue(m) PROVE IInv'
  <2>1. /\ UNCHANGED <<tickets, counter, linker, writer, deleted, linked, opened, told, refused>>
        /\ repeats' \in 0..MaxRepeats /\ acts' \in 0..MaxActs /\ SetTrigger(m, "queued", 0)
        /\ repeats' = 0 => repeats = 0
    BY <1>1, <1>t DEF Enqueue, ghostVars, boundVars, Repeat
  <2>2. /\ trigger' \in [Messages -> TriggerRows] /\ trigger'[m].st = "queued"
        /\ \A k \in Messages \ {m} : trigger'[k] = trigger[k]
    BY <2>1, <1>t, <1>p, SetTriggerFrame
  <2>3. TypeOK' BY <2>1, <2>2, <1>t DEF TypeOK, TicketRows, TriggerRows, LinkerRows, WriterRows
  <2>4. TicketInv' BY <2>1, <1>i, SpentNumberKeeps
  <2>5. MovesAreLegal' BY <2>1, <1>i DEF MovesAreLegal
  <2>6. LinkInv' BY <2>1, <2>2, <1>i DEF LinkInv, WorkersHaveMessages, DoneMeansLinked, SlaIsTold, At
  <2> QED BY <2>3, <2>4, <2>5, <2>6 DEF IInv, TicketInv, LinkInv
<1>2. ASSUME NEW l \in Linkers, NEW m \in Messages, ReadInboundTarget(l, m) PROVE IInv'
  <2>1. UNCHANGED <<tickets, counter, writer, deleted, linked, opened, told, refused, repeats, acts>>
    BY <1>2 DEF ReadInboundTarget, ghostVars, boundVars
  <2>6. TicketInv' BY <2>1, <1>i, SpentNumberKeeps
  <2>7. MovesAreLegal' BY <2>1, <1>i DEF MovesAreLegal
  <2>8. CASE ~deleted /\ At(l, "idle")
    <3> DEFINE row == [pc |-> "read", m |-> m, attempt |-> FirstAttempt, t |-> 1]
    <3>r. row \in LinkerRows /\ row.pc = "read" /\ row.m = m
      BY <1>p DEF LinkerRows, FirstAttempt, Ids
    <3>1. SetTrigger(m, "running", trigger[m].tries) /\ SetLinker(l, row)
      BY <1>2, <2>8 DEF ReadInboundTarget
    <3> HIDE DEF row
    <3>2. trigger[m].tries \in Nat BY <1>t DEF TriggerRows
    <3>3. /\ trigger' \in [Messages -> TriggerRows] /\ trigger'[m].st = "running"
          /\ \A k \in Messages \ {m} : trigger'[k] = trigger[k]
      BY <3>1, <3>2, <1>t, <1>p, SetTriggerFrame
    <3>4. /\ linker' \in [Linkers -> LinkerRows] /\ linker'[l].pc = "read" /\ linker'[l].m = m
          /\ \A k \in Linkers \ {l} : linker'[k] = linker[k]
      BY <3>1, <3>r, <1>t, SetLinkerFrame
    <3>5. TypeOK' BY <2>1, <3>3, <3>4, <1>t DEF TypeOK, TicketRows, TriggerRows, LinkerRows, WriterRows
    <3>6. WorkersHaveMessages' /\ DoneMeansLinked'
      BY <2>1, <3>3, <3>4, <1>i DEF LinkInv, WorkersHaveMessages, DoneMeansLinked, At
    <3>7. \A k \in Linkers : linker[k].pc = "tell" => linker'[k] = linker[k]
      BY <2>8, <3>4 DEF At
    <3>8. SlaIsTold' BY <2>1, <3>7, <1>i DEF LinkInv, SlaIsTold, At
    <3> QED BY <3>5, <2>6, <2>7, <3>6, <3>8 DEF IInv, TicketInv
  <2>9. CASE deleted /\ SetTrigger(m, "done", 0) /\ UNCHANGED linker
    <3>1. /\ trigger' \in [Messages -> TriggerRows] /\ trigger'[m].st = "done"
          /\ \A k \in Messages \ {m} : trigger'[k] = trigger[k]
      BY <2>9, <1>t, <1>p, SetTriggerFrame
    <3>2. TypeOK' BY <2>1, <2>9, <3>1, <1>t DEF TypeOK, TicketRows, TriggerRows, LinkerRows, WriterRows
    <3>3. LinkInv'
      BY <2>1, <2>9, <3>1, <1>i DEF LinkInv, WorkersHaveMessages, DoneMeansLinked, SlaIsTold, At
    <3> QED BY <3>2, <3>3, <2>6, <2>7 DEF IInv, TicketInv, LinkInv
  <2> QED BY <1>2, <2>8, <2>9 DEF ReadInboundTarget
<1>3. ASSUME NEW l \in Linkers, Return(l) \/ Throw(l) \/ Crash(l) PROVE IInv'
  <2>1. /\ UNCHANGED <<tickets, counter, writer, deleted, linked, opened, told, refused>>
        /\ repeats' \in 0..MaxRepeats /\ acts' \in 0..MaxActs
        /\ ~At(l, "idle") /\ SetLinker(l, IdleLinker)
    BY <1>3, <1>t DEF Return, Complete, Throw, Crash, ghostVars, boundVars, Repeat, At
  <2>9. repeats' = 0 => repeats = 0 /\ ~At(l, "tell")
    BY <1>3, <1>t DEF Return, Throw, Crash, boundVars, Repeat, At
  <2>2. linker[l].m \in Messages BY <2>1, <1>i DEF LinkInv, WorkersHaveMessages
  <2>3. trigger[linker[l].m].tries \in Nat BY <2>2, <1>t DEF TriggerRows
  <2>4. \E st \in TriggerStates, n \in Nat :
          SetTrigger(linker[l].m, st, n) /\ (st = "done" => At(l, "return") \/ deleted)
    <3>1. CASE Return(l) BY <3>1, <1>p DEF Return, Complete
    <3>2. CASE Throw(l)
      <4>1. trigger[linker[l].m].tries + 1 \in Nat BY <2>3
      <4>2. \/ SetTrigger(linker[l].m, "queued", trigger[linker[l].m].tries + 1)
            \/ SetTrigger(linker[l].m, "failed", 0)
        BY <3>2 DEF Throw
      <4> QED BY <4>1, <4>2, <1>p
    <3>3. CASE Crash(l) BY <3>3, <2>3, <1>p DEF Crash
    <3> QED BY <1>3, <3>1, <3>2, <3>3
  <2>5. /\ LinkInv' /\ trigger' \in [Messages -> TriggerRows]
        /\ linker' \in [Linkers -> LinkerRows]
    BY <2>1, <2>4, <2>9, <1>i, WorkerEndKeeps
  <2>6. TypeOK' BY <2>1, <2>5, <1>t DEF TypeOK, TicketRows, TriggerRows, LinkerRows, WriterRows
  <2>7. TicketInv' BY <2>1, <1>i, SpentNumberKeeps
  <2>8. MovesAreLegal' BY <2>1, <1>i DEF MovesAreLegal
  <2> QED BY <2>5, <2>6, <2>7, <2>8 DEF IInv, TicketInv, LinkInv
<1>4. ASSUME NEW l \in Linkers, ReadActive(l) PROVE IInv'
  <2>1. /\ UNCHANGED <<tickets, counter, writer, deleted, linked, opened, told, refused, repeats, acts>>
        /\ linker[l].pc = "read"
    BY <1>4 DEF ReadActive, ghostVars, boundVars, At
  <2>2. linker[l].m \in Messages BY <2>1, <1>i DEF LinkInv, WorkersHaveMessages, At
  <2>5. TicketInv' BY <2>1, <1>i, SpentNumberKeeps
  <2>6. MovesAreLegal' BY <2>1, <1>i DEF MovesAreLegal
  <2>7. CASE ~deleted
    <3>1. UNCHANGED trigger BY <1>4, <2>7 DEF ReadActive
    <3>2. /\ linker' \in [Linkers -> LinkerRows] /\ linker'[l].pc \in {"create", "reopen", "attach"}
          /\ linker'[l].m = linker[l].m
          /\ \A k \in Linkers \ {l} : linker'[k] = linker[k]
      BY <1>4, <2>7, <1>t, ReadActiveFrame
    <3>3. TypeOK' BY <2>1, <3>1, <3>2, <1>t DEF TypeOK, TicketRows, TriggerRows, LinkerRows, WriterRows
    <3>4. LinkInv' BY <2>1, <2>2, <3>1, <3>2, <1>i, WorkerStepKeeps
    <3> QED BY <3>3, <3>4, <2>5, <2>6 DEF IInv, TicketInv, LinkInv
  <2>8. CASE deleted
    <3>1. SetTrigger(linker[l].m, "done", 0) /\ SetLinker(l, IdleLinker) /\ ~At(l, "idle") /\ ~At(l, "tell")
      BY <1>4, <2>1, <2>8 DEF ReadActive, Complete, At
    <3>2. /\ LinkInv' /\ trigger' \in [Messages -> TriggerRows]
          /\ linker' \in [Linkers -> LinkerRows]
      BY <2>1, <2>8, <3>1, <1>i, <1>p, WorkerEndKeeps
    <3>3. TypeOK' BY <2>1, <3>2, <1>t DEF TypeOK, TicketRows, TriggerRows, LinkerRows, WriterRows
    <3> QED BY <3>2, <3>3, <2>5, <2>6 DEF IInv, TicketInv, LinkInv
  <2> QED BY <2>7, <2>8
<1>5. ASSUME NEW l \in Linkers, AttachOpen(l) PROVE IInv'
  <2>1. /\ UNCHANGED <<tickets, counter, trigger, writer, deleted, opened, told, refused, repeats, acts>>
        /\ linker[l].pc = "attach" /\ LinkTo(l, linker[l].t, "attached")
    BY <1>5 DEF AttachOpen, boundVars, At
  <2>2. linker[l].t \in Ids /\ ~SlaReasonFor("attached") BY <1>t DEF LinkerRows, SlaReasonFor
  <2>3. /\ LinkInv' /\ linker' \in [Linkers -> LinkerRows]
        /\ linked' \in [Messages -> SUBSET Ids]
    BY <2>1, <2>2, <1>i, LinkToKeeps
  <2>4. TypeOK' BY <2>1, <2>3, <1>t DEF TypeOK, TicketRows, TriggerRows, LinkerRows, WriterRows
  <2>5. TicketInv' BY <2>1, <1>i, SpentNumberKeeps
  <2>6. MovesAreLegal' BY <2>1, <1>i DEF MovesAreLegal
  <2> QED BY <2>3, <2>4, <2>5, <2>6 DEF IInv, TicketInv, LinkInv
<1>12. ASSUME NEW l \in Linkers, TriggerSlaEvaluation(l) PROVE IInv'
  <2>1. UNCHANGED <<tickets, counter, trigger, writer, deleted, linked, opened, repeats, acts>>
    BY <1>12 DEF TriggerSlaEvaluation, boundVars
  <2>2. /\ LinkInv' /\ linker' \in [Linkers -> LinkerRows] /\ told' \in [Messages -> SUBSET Ids]
        /\ refused' \subseteq Messages
    BY <1>12, <1>i, TellKeeps
  <2>3. TypeOK' BY <2>1, <2>2, <1>t DEF TypeOK, TicketRows, TriggerRows, LinkerRows, WriterRows
  <2>4. TicketInv' BY <2>1, <1>i, SpentNumberKeeps
  <2>5. MovesAreLegal' BY <2>1, <1>i DEF MovesAreLegal
  <2> QED BY <2>2, <2>3, <2>4, <2>5 DEF IInv, TicketInv, LinkInv
<1>6. ASSUME NEW l \in Linkers, Reopen(l) PROVE IInv'
  <2>1. /\ UNCHANGED <<counter, trigger, writer, deleted, told, refused, repeats, acts>>
        /\ linker[l].pc = "reopen"
    BY <1>6 DEF Reopen, boundVars, At
  <2>2. linker[l].t \in Ids /\ linker[l].m \in Messages /\ SlaReasonFor("reopened")
    BY <2>1, <1>t, <1>i DEF LinkerRows, LinkInv, WorkersHaveMessages, At, SlaReasonFor
  <2>3. MovesAreLegal' BY <2>1, <1>i DEF MovesAreLegal
  <2>4. CASE ReopenMatches(linker[l].t)
    <3>1. /\ SetStatus(linker[l].t, "open") /\ LinkTo(l, linker[l].t, "reopened")
          /\ Opens(linker[l].m, linker[l].t)
      BY <1>6, <2>4 DEF Reopen
    <3>2. tickets[linker[l].t].st = "pending" BY <2>4 DEF ReopenMatches
    <3>3. tickets' \in [Ids -> TicketRows] BY <3>1, <2>2, <1>t, <1>p, SetStatusFrame
    <3>4. TicketInv'
      BY <3>1, <3>2, <2>1, <2>2, <1>i, <1>p, StatusMoveKeeps
    <3>5. /\ LinkInv' /\ linker' \in [Linkers -> LinkerRows]
          /\ linked' \in [Messages -> SUBSET Ids] /\ opened' \in [Messages -> SUBSET Ids]
      BY <3>1, <2>1, <2>2, <1>i, LinkToKeeps
    <3>6. TypeOK'
      BY <3>3, <3>5, <2>1, <1>t DEF TypeOK, TicketRows, TriggerRows, LinkerRows, WriterRows
    <3> QED BY <3>4, <3>5, <3>6, <2>3 DEF IInv, TicketInv, LinkInv
  <2>5. CASE ~ReopenMatches(linker[l].t)
    <3>1. LostRace(l) /\ UNCHANGED <<tickets, opened, linked>>
      BY <1>6, <2>5 DEF Reopen
    <3>2. /\ linker' \in [Linkers -> LinkerRows]
          /\ linker'[l].pc \in {"read", "throw"} /\ linker'[l].m = linker[l].m
          /\ \A k \in Linkers \ {l} : linker'[k] = linker[k]
      BY <3>1, <1>t, LostRaceFrame
    <3>3. LinkInv' BY <3>1, <3>2, <2>1, <2>2, <1>i, WorkerStepKeeps
    <3>4. TicketInv' BY <3>1, <2>1, <1>i, SpentNumberKeeps
    <3>6. TypeOK'
      BY <3>1, <3>2, <2>1, <1>t DEF TypeOK, TicketRows, TriggerRows, LinkerRows, WriterRows
    <3> QED BY <3>3, <3>4, <3>6, <2>3 DEF IInv, TicketInv, LinkInv
  <2> QED BY <2>4, <2>5
<1>7. ASSUME NEW l \in Linkers, Create(l) PROVE IInv'
  <2>1. /\ UNCHANGED <<trigger, writer, deleted, told, refused, repeats, acts>>
        /\ counter' = counter + 1 /\ linker[l].pc = "create"
    BY <1>7 DEF Create, boundVars, At, NextNumber
  <2>2. linker[l].m \in Messages /\ SlaReasonFor("created")
    BY <2>1, <1>i DEF LinkInv, WorkersHaveMessages, At, SlaReasonFor
  <2>3. MovesAreLegal' BY <2>1, <1>i DEF MovesAreLegal
  <2>4. ASSUME NEW t \in Unused, Indexed = {}, \A u \in Unused : t <= u, LinkTo(l, t, "created"),
               Opens(linker[l].m, t),
               tickets' = [tickets EXCEPT ![t] = [st |-> "open", number |-> counter]]
        PROVE IInv'
    <3> DEFINE row == [st |-> "open", number |-> counter]
    <3>1. row \in TicketRows /\ row.st = "open" /\ row.number = counter
      BY <1>t, <1>p DEF TicketRows
    <3>2. t \in Ids /\ tickets[t].st = "none" BY DEF Unused
    <3> HIDE DEF row
    <3>3. /\ tickets' \in [Ids -> TicketRows] /\ tickets'[t] = row
          /\ \A u \in Ids \ {t} : tickets'[u] = tickets[u]
      BY <2>4, <3>1, <3>2, <1>t DEF row
    <3>4. /\ LinkInv' /\ linker' \in [Linkers -> LinkerRows]
          /\ linked' \in [Messages -> SUBSET Ids] /\ opened' \in [Messages -> SUBSET Ids]
      BY <2>4, <3>2, <2>1, <2>2, <1>i, LinkToKeeps
    <3>5. OneActive'
      <4>1. ActiveIds' \subseteq {t} BY <2>4, <3>3 DEF ActiveIds, Indexed
      <4> QED BY <4>1 DEF OneActive
    <3>6. Ids \subseteq Int BY DEF Ids
    <3>7. Unused' = Unused \ {t} BY <3>1, <3>2, <3>3 DEF Unused
    <3>8. \A u \in Ids \ Unused : tickets[u].number < counter /\ tickets[u].number \in Nat /\ u < t
      <4> SUFFICES ASSUME NEW u \in Ids \ Unused
                   PROVE  tickets[u].number < counter /\ tickets[u].number \in Nat /\ u < t
        OBVIOUS
      <4>1. tickets[u].number < counter /\ ~(t < u) BY <3>2, <1>i DEF TicketInv, NumbersAllocated
      <4>2. u # t BY <3>2
      <4>3. u \in Int /\ t \in Int BY <3>2, <3>6
      <4>4. tickets[u].number \in Nat BY <1>t DEF TicketRows
      <4> QED BY <4>1, <4>2, <4>3, <4>4
    <3>9. \A u \in Ids \ Unused' : u = t \/ (u \in Ids \ Unused /\ tickets'[u] = tickets[u])
      BY <3>3, <3>7
    <3>10. NumbersInOrder'
      <4> SUFFICES ASSUME NEW u \in Ids \ Unused', NEW v \in Ids \ Unused', u < v
                   PROVE  tickets'[u].number < tickets'[v].number
        BY DEF NumbersInOrder, Ids
      <4>1. CASE u = t
        <5>1. v < t \/ v = t BY <3>8, <3>9
        <5> QED BY <5>1, <4>1, <3>2, <3>6
      <4>2. CASE u # t /\ v = t BY <4>2, <3>1, <3>3, <3>8, <3>9
      <4>3. CASE u # t /\ v # t BY <4>3, <3>9, <1>i DEF TicketInv, NumbersInOrder
      <4> QED BY <4>1, <4>2, <4>3
    <3>11. NumbersAllocated'
      <4> SUFFICES ASSUME NEW u \in Ids \ Unused'
                   PROVE  /\ tickets'[u].number < counter'
                          /\ \A v \in Ids : v < u => v \notin Unused'
        BY DEF NumbersAllocated, Ids
      <4>1. CASE u = t
        <5>1. tickets'[u].number < counter' BY <4>1, <3>1, <3>3, <2>1, <1>t
        <5>2. ASSUME NEW v \in Ids, v < t PROVE v \notin Unused
          BY <2>4, <5>2, <3>2, <3>6
        <5> QED BY <4>1, <5>1, <5>2, <3>7
      <4>2. CASE u # t
        <5>1. u \in Ids \ Unused /\ tickets'[u] = tickets[u] BY <4>2, <3>9
        <5>2. tickets'[u].number < counter' BY <5>1, <3>8, <2>1, <1>t
        <5>3. \A v \in Ids : v < u => v \notin Unused
          BY <5>1, <1>i DEF TicketInv, NumbersAllocated
        <5> QED BY <5>2, <5>3, <3>7
      <4> QED BY <4>1, <4>2
    <3>12. counter' \in Nat \ {0} BY <2>1, <1>t
    <3>13. TypeOK'
      BY <3>3, <3>4, <3>12, <2>1, <1>t DEF TypeOK, TicketRows, TriggerRows, LinkerRows, WriterRows
    <3> QED BY <3>4, <3>5, <3>10, <3>11, <3>13, <2>3 DEF IInv, LinkInv
  <2>5. CASE LostRace(l) /\ UNCHANGED <<tickets, opened, linked>>
    <3>1. /\ linker' \in [Linkers -> LinkerRows]
          /\ linker'[l].pc \in {"read", "throw"} /\ linker'[l].m = linker[l].m
          /\ \A k \in Linkers \ {l} : linker'[k] = linker[k]
      BY <2>5, <1>t, LostRaceFrame
    <3>2. LinkInv' BY <2>5, <3>1, <2>1, <2>2, <1>i, WorkerStepKeeps
    <3>3. TicketInv' BY <2>5, <2>1, <1>i, SpentNumberKeeps
    <3>4. counter' \in Nat \ {0} BY <2>1, <1>t
    <3>5. TypeOK'
      BY <2>5, <3>1, <3>4, <2>1, <1>t DEF TypeOK, TicketRows, TriggerRows, LinkerRows, WriterRows
    <3> QED BY <3>2, <3>3, <3>5, <2>3 DEF IInv, TicketInv, LinkInv
  <2> QED BY <1>7, <2>4, <2>5 DEF Create
<1>8. ASSUME NEW a \in Writers, NEW t \in Ids, NEW to \in Statuses, RequireTicket(a, t, to)
      PROVE IInv'
  <2> DEFINE row == [busy |-> TRUE, t |-> t, before |-> tickets[t].st, to |-> to]
  <2>1. /\ UNCHANGED <<tickets, counter, trigger, linker, deleted, linked, opened, told, refused>>
        /\ repeats' = repeats /\ acts' \in 0..MaxActs
        /\ writer' = [writer EXCEPT ![a] = row]
        /\ CanAgentTransition(tickets[t].st, to) /\ tickets[t].st \in Statuses
    BY <1>8, <1>t DEF RequireTicket, ghostVars, Act
  <2>2. row \in WriterRows /\ row.before = tickets[t].st /\ row.to = to
    BY <2>1 DEF WriterRows
  <2> HIDE DEF row
  <2>3. /\ writer' \in [Writers -> WriterRows] /\ writer'[a] = row
        /\ \A b \in Writers \ {a} : writer'[b] = writer[b]
    BY <2>1, <2>2, <1>t
  <2>4. MovesAreLegal'
    <3>1. CanAgentTransition(writer'[a].before, writer'[a].to) BY <2>1, <2>2, <2>3
    <3> QED BY <2>3, <3>1, <1>i DEF MovesAreLegal
  <2>5. TypeOK' BY <2>1, <2>3, <1>t DEF TypeOK, TicketRows, TriggerRows, LinkerRows, WriterRows
  <2>6. TicketInv' BY <2>1, <1>i, SpentNumberKeeps
  <2>7. LinkInv'
    BY <2>1, <1>i DEF LinkInv, WorkersHaveMessages, DoneMeansLinked, SlaIsTold, At
  <2> QED BY <2>4, <2>5, <2>6, <2>7 DEF IInv, TicketInv, LinkInv
<1>9. ASSUME NEW a \in Writers, WriteStatus(a) PROVE IInv'
  <2>1. /\ UNCHANGED <<counter, trigger, linker, deleted, linked, opened, told, refused, repeats, acts>>
        /\ writer' = [writer EXCEPT ![a] = IdleWriter]
    BY <1>9 DEF WriteStatus, ghostVars, boundVars
  <2>2. IdleWriter \in WriterRows /\ IdleWriter.busy = FALSE
    BY <1>p DEF IdleWriter, WriterRows, Ids
  <2>3. /\ writer' \in [Writers -> WriterRows] /\ writer'[a] = IdleWriter
        /\ \A b \in Writers \ {a} : writer'[b] = writer[b]
    BY <2>1, <2>2, <1>t
  <2>4. MovesAreLegal' BY <2>2, <2>3, <1>i DEF MovesAreLegal
  <2>5. LinkInv'
    BY <2>1, <1>i DEF LinkInv, WorkersHaveMessages, DoneMeansLinked, SlaIsTold, At
  <2>6. /\ writer[a].t \in Ids /\ writer[a].to \in Statuses /\ writer[a].before \in Statuses
        /\ CanAgentTransition(writer[a].before, writer[a].to)
    BY <1>9, <1>t, <1>i DEF WriteStatus, WriterRows, MovesAreLegal
  <2>7. CASE tickets[writer[a].t].st = writer[a].before /\ SetStatus(writer[a].t, writer[a].to)
    <3>1. writer[a].to \in Active => writer[a].before \in Active
      BY <2>6, <1>p DEF CanAgentTransition
    <3>2. TicketInv' BY <2>1, <2>6, <2>7, <3>1, <1>i, StatusMoveKeeps
    <3>3. tickets' \in [Ids -> TicketRows] BY <2>6, <2>7, <1>t, SetStatusFrame
    <3>4. TypeOK'
      BY <2>1, <2>3, <3>3, <1>t DEF TypeOK, TicketRows, TriggerRows, LinkerRows, WriterRows
    <3> QED BY <3>2, <3>4, <2>4, <2>5 DEF IInv, TicketInv, LinkInv
  <2>8. CASE UNCHANGED tickets
    <3>1. TypeOK'
      BY <2>1, <2>3, <2>8, <1>t DEF TypeOK, TicketRows, TriggerRows, LinkerRows, WriterRows
    <3>2. TicketInv' BY <2>1, <2>8, <1>i, SpentNumberKeeps
    <3> QED BY <3>1, <3>2, <2>4, <2>5 DEF IInv, TicketInv, LinkInv
  <2> QED BY <1>9, <2>7, <2>8 DEF WriteStatus
<1>13. ASSUME DeleteTenant PROVE IInv'
  <2>1. /\ UNCHANGED <<tickets, counter, trigger, linker, writer, linked, opened, told, refused>>
        /\ repeats' = repeats /\ acts' \in 0..MaxActs /\ deleted' = TRUE
    BY <1>13, <1>t DEF DeleteTenant, ghostVars, Act
  <2>2. TypeOK' BY <2>1, <1>t DEF TypeOK, TicketRows, TriggerRows, LinkerRows, WriterRows
  <2>3. TicketInv' BY <2>1, <1>i, SpentNumberKeeps
  <2>4. LinkInv' /\ MovesAreLegal'
    BY <2>1, <1>i DEF LinkInv, WorkersHaveMessages, DoneMeansLinked, SlaIsTold, At, MovesAreLegal
  <2> QED BY <2>2, <2>3, <2>4 DEF IInv, TicketInv, LinkInv
<1>10. ASSUME NEW t \in Ids, PauseSla(t) PROVE IInv'
  <2>1. /\ UNCHANGED <<counter, trigger, linker, writer, deleted, linked, opened, told, refused>>
        /\ repeats' = repeats /\ acts' \in 0..MaxActs
        /\ tickets[t].st = "open" /\ SetStatus(t, "pending")
    BY <1>10, <1>t DEF PauseSla, ghostVars, Act
  <2>2. TicketInv' BY <2>1, <1>i, <1>p, StatusMoveKeeps
  <2>3. tickets' \in [Ids -> TicketRows] BY <2>1, <1>t, <1>p, SetStatusFrame
  <2>4. TypeOK' BY <2>1, <2>3, <1>t DEF TypeOK, TicketRows, TriggerRows, LinkerRows, WriterRows
  <2>5. LinkInv' /\ MovesAreLegal'
    BY <2>1, <1>i DEF LinkInv, WorkersHaveMessages, DoneMeansLinked, SlaIsTold, At, MovesAreLegal
  <2> QED BY <2>2, <2>4, <2>5 DEF IInv, TicketInv, LinkInv
<1>11. CASE UNCHANGED vars
  <2>1. UNCHANGED <<tickets, counter, trigger, linker, writer, deleted, linked, opened, told, refused, repeats, acts>>
    BY <1>11 DEF vars
  <2>2. TypeOK' BY <2>1, <1>i DEF TypeOK
  <2>3. TicketInv' BY <2>1, <1>i, SpentNumberKeeps
  <2>4. LinkInv' /\ MovesAreLegal'
    BY <2>1, <1>i DEF LinkInv, WorkersHaveMessages, DoneMeansLinked, SlaIsTold, At, MovesAreLegal
  <2> QED BY <2>2, <2>3, <2>4 DEF IInv, TicketInv, LinkInv
<1> QED
  BY <1>1, <1>2, <1>3, <1>4, <1>5, <1>6, <1>7, <1>8, <1>9, <1>10, <1>11, <1>12, <1>13 DEF Next, Link

(* IInv holds in every reachable state. *)
THEOREM IInvInvariant == Spec => []IInv
<1>1. IInv /\ [Next]_vars => IInv' BY NextIInv
<1> QED BY InitIInv, <1>1, PTL DEF Spec

(* Jobs, requests and the bot keep every variable in its type. *)
THEOREM TypeCorrect == Spec => []TypeOK
<1>1. IInv => TypeOK BY DEF IInv
<1> QED BY IInvInvariant, <1>1, PTL

(* The contact never has two active tickets: a row becomes active only when  *)
(* the partial unique index is empty, and every other move is judged on the  *)
(* status it compares with.                                                  *)
THEOREM AtMostOneActive == Spec => []OneActive
<1>1. IInv => OneActive BY DEF IInv
<1> QED BY IInvInvariant, <1>1, PTL

(* Ticket numbers are unique and follow the order of creation. *)
THEOREM NumbersFollowCreation == Spec => []NumbersInOrder
<1>1. IInv => NumbersInOrder BY DEF IInv
<1> QED BY IInvInvariant, <1>1, PTL

(* A ticket.ensure job that completed has put its message on a ticket: it is *)
(* dropped only of a deleted tenant.                                         *)
THEOREM DoneIsLinked == Spec => []DoneMeansLinked
<1>1. IInv => DoneMeansLinked BY DEF IInv
<1> QED BY IInvInvariant, <1>1, PTL

(* The SLA evaluation is asked for exactly of the tickets a message created  *)
(* or reopened, unless the queue refuses it or a worker crashes.             *)
THEOREM OpenedTicketsAreTold == Spec => []SlaIsTold
<1>1. IInv => SlaIsTold BY DEF IInv
<1> QED BY IInvInvariant, <1>1, PTL

(* No step brings a finished ticket back. *)
THEOREM FinishedIsFinal == Spec => FinishedStaysFinished
<1>1. ASSUME IInv, Next PROVE NoneComesBack
  <2>t. tickets \in [Ids -> TicketRows] BY <1>1 DEF IInv, TypeOK, TicketRows
  <2>p. /\ Statuses = {"open", "pending", "resolved", "closed"}
        /\ Finished = {"resolved", "closed"}
    BY DEF Statuses, Finished, Active
  <2>1. ASSUME UNCHANGED tickets PROVE NoneComesBack BY <2>1 DEF NoneComesBack
  <2>2. ASSUME NEW t \in Ids, NEW s \in Statuses, SetStatus(t, s),
               \/ tickets[t].st \notin Finished
               \/ tickets[t].st = "resolved" /\ s = "closed"
        PROVE NoneComesBack
    <3>1. tickets'[t].st = s /\ \A u \in Ids \ {t} : tickets'[u] = tickets[u]
      BY <2>2, <2>t, SetStatusFrame
    <3> QED BY <2>2, <3>1 DEF NoneComesBack
  <2>3. ASSUME NEW l \in Linkers, Reopen(l) PROVE NoneComesBack
    <3>1. linker[l].t \in Ids BY <1>1 DEF IInv, TypeOK
    <3>2. CASE ReopenMatches(linker[l].t)
      <4>1. SetStatus(linker[l].t, "open") /\ tickets[linker[l].t].st = "pending"
        BY <2>3, <3>2 DEF Reopen, ReopenMatches
      <4> QED BY <4>1, <3>1, <2>2, <2>p
    <3>3. CASE ~ReopenMatches(linker[l].t) BY <2>1, <2>3, <3>3 DEF Reopen
    <3> QED BY <3>2, <3>3
  <2>4. ASSUME NEW l \in Linkers, Create(l) PROVE NoneComesBack
    <3>1. ASSUME NEW t \in Unused,
                 tickets' = [tickets EXCEPT ![t] = [st |-> "open", number |-> counter]]
          PROVE NoneComesBack
      <4>1. /\ t \in Ids /\ tickets[t].st = "none"
            /\ \A u \in Ids \ {t} : tickets'[u] = tickets[u]
        BY <3>1, <2>t DEF Unused
      <4> QED BY <4>1, <2>p DEF NoneComesBack
    <3> QED BY <2>1, <2>4, <3>1 DEF Create
  <2>5. ASSUME NEW a \in Writers, WriteStatus(a) PROVE NoneComesBack
    <3>1. /\ writer[a].t \in Ids /\ writer[a].to \in Statuses /\ writer[a].before \in Statuses
          /\ CanAgentTransition(writer[a].before, writer[a].to)
      BY <1>1, <2>5 DEF IInv, TypeOK, WriteStatus, MovesAreLegal
    <3>2. CASE tickets[writer[a].t].st = writer[a].before /\ SetStatus(writer[a].t, writer[a].to)
      <4>1. \/ writer[a].before \notin Finished
            \/ writer[a].before = "resolved" /\ writer[a].to = "closed"
        BY <3>1, <2>p DEF CanAgentTransition
      <4> QED BY <3>1, <3>2, <4>1, <2>2
    <3> QED BY <2>1, <2>5, <3>2 DEF WriteStatus
  <2>6. ASSUME NEW t \in Ids, PauseSla(t) PROVE NoneComesBack
    BY <2>2, <2>6, <2>p DEF PauseSla
  <2>7. \/ UNCHANGED tickets
        \/ \E l \in Linkers : Reopen(l) \/ Create(l)
        \/ \E a \in Writers : WriteStatus(a)
        \/ \E t \in Ids : PauseSla(t)
    BY <1>1 DEF Next, Link, Enqueue, ReadInboundTarget, Return, Throw, Crash, ReadActive,
                AttachOpen, TriggerSlaEvaluation, RequireTicket, DeleteTenant
  <2> QED BY <2>1, <2>3, <2>4, <2>5, <2>6, <2>7
<1>2. IInv /\ [Next]_vars => [NoneComesBack]_vars BY <1>1
<1> QED BY IInvInvariant, <1>2, PTL DEF Spec, FinishedStaysFinished

(* A step of a worker that keeps its message and puts it nowhere.            *)
LEMMA FirstDeliveryAtWork ==
  ASSUME LinkInv, FirstDelivery, NEW l \in Linkers, UNCHANGED <<trigger, linked, repeats>>,
         linker[l].pc # "idle", linker'[l].pc # "idle",
         linker'[l].pc \in {"tell", "return"} \/ linker[l].pc \notin {"tell", "return"},
         linker'[l].m = linker[l].m,
         \A k \in Linkers \ {l} : linker'[k] = linker[k]
  PROVE  FirstDelivery'
<1>1. \A k \in Linkers : linker'[k].m = linker[k].m /\ (linker'[k].pc = "idle" <=> linker[k].pc = "idle")
  OBVIOUS
<1>2. \A k \in Linkers : linker'[k].pc \notin {"idle", "tell", "return"} => linker[k].pc \notin {"idle", "tell", "return"}
  OBVIOUS
<1> QED BY <1>1, <1>2 DEF FirstDelivery, At

(* The step that puts the message of a worker on its ticket.                 *)
LEMMA FirstDeliveryLinked ==
  ASSUME TypeOK, LinkInv, FirstDelivery, NEW l \in Linkers, NEW t \in Ids, NEW o, LinkTo(l, t, o),
         linker[l].pc \notin {"idle", "tell", "return"}, UNCHANGED <<trigger, repeats>>
  PROVE  FirstDelivery'
<1> SUFFICES ASSUME repeats = 0 PROVE FirstDelivery' BY DEF FirstDelivery
<1>t. linker \in [Linkers -> LinkerRows] /\ linked \in [Messages -> SUBSET Ids]
  BY DEF TypeOK, LinkerRows
<1>m. linker[l].m \in Messages /\ \A k \in Linkers : linker[k].pc # "idle" => linker[k].m \in Messages
  BY DEF LinkInv, WorkersHaveMessages, At
<1>1. /\ linker'[l].pc \in {"tell", "return"} /\ linker'[l].m = linker[l].m
      /\ \A k \in Linkers \ {l} : linker'[k] = linker[k]
  BY <1>t, LinkToFrame
<1>2. /\ linked[linker[l].m] = {} /\ linked'[linker[l].m] = {t}
      /\ \A m \in Messages \ {linker[l].m} : linked'[m] = linked[m]
  BY <1>t, <1>m DEF LinkTo, FirstDelivery
<1>3. trigger[linker[l].m].st = "running" BY DEF FirstDelivery, At
<1>4. \A k \in Linkers \ {l} : linker[k].pc # "idle" => linker[k].m # linker[l].m
  BY DEF FirstDelivery, At
<1>5. /\ \A k \in Linkers : ~At(k, "idle")' => trigger'[linker'[k].m].st = "running"
      /\ \A j, k \in Linkers :
           ~At(j, "idle")' /\ ~At(k, "idle")' /\ linker'[j].m = linker'[k].m => j = k
  BY <1>1, <1>3, <1>4 DEF FirstDelivery, At
<1>6. \A k \in Linkers : linker'[k].pc \notin {"idle", "tell", "return"} => linked'[linker'[k].m] = {}
  BY <1>1, <1>2, <1>4, <1>m DEF FirstDelivery
<1>7. /\ \A m \in Messages : trigger'[m].st \in {"none", "queued", "failed"} => linked'[m] = {}
      /\ \A m \in Messages : \A u, v \in linked'[m] : u = v
  BY <1>2, <1>3 DEF FirstDelivery
<1> QED BY <1>5, <1>6, <1>7 DEF FirstDelivery

(* The step that ends the work of a worker on a first delivery.              *)
LEMMA FirstDeliveryEnds ==
  ASSUME TypeOK, LinkInv, FirstDelivery, NEW l \in Linkers, NEW st \in TriggerStates, NEW n \in Nat,
         ~At(l, "idle"), SetTrigger(linker[l].m, st, n), SetLinker(l, IdleLinker),
         UNCHANGED <<linked, repeats>>,
         st = "done" \/ (~At(l, "tell") /\ ~At(l, "return") /\ st \in {"queued", "failed"})
  PROVE  FirstDelivery'
<1> SUFFICES ASSUME repeats = 0 PROVE FirstDelivery' BY DEF FirstDelivery
<1>t. linker \in [Linkers -> LinkerRows] /\ trigger \in [Messages -> TriggerRows]
  BY DEF TypeOK, LinkerRows, TriggerRows
<1>m. linker[l].m \in Messages /\ \A k \in Linkers : linker[k].pc # "idle" => linker[k].m \in Messages
  BY DEF LinkInv, WorkersHaveMessages, At
<1>i. IdleLinker \in LinkerRows /\ IdleLinker.pc = "idle"
  BY BoundsAssumption DEF IdleLinker, LinkerRows, PCs, Ids
<1>1. linker'[l].pc = "idle" /\ \A k \in Linkers \ {l} : linker'[k] = linker[k]
  BY <1>t, <1>i, SetLinkerFrame
<1>2. /\ trigger'[linker[l].m].st = st
      /\ \A k \in Messages \ {linker[l].m} : trigger'[k] = trigger[k]
  BY <1>t, <1>m, SetTriggerFrame
<1>3. \A k \in Linkers \ {l} : linker[k].pc # "idle" => linker[k].m # linker[l].m
  BY DEF FirstDelivery, At
<1>4. st # "done" => linked[linker[l].m] = {} BY DEF FirstDelivery, At
<1>5. /\ \A k \in Linkers : ~At(k, "idle")' => trigger'[linker'[k].m].st = "running"
      /\ \A j, k \in Linkers :
           ~At(j, "idle")' /\ ~At(k, "idle")' /\ linker'[j].m = linker'[k].m => j = k
      /\ \A k \in Linkers : linker'[k].pc \notin {"idle", "tell", "return"} => linked'[linker'[k].m] = {}
  BY <1>1, <1>2, <1>3, <1>m DEF FirstDelivery, At
<1>6. /\ \A m \in Messages : trigger'[m].st \in {"none", "queued", "failed"} => linked'[m] = {}
      /\ \A m \in Messages : \A u, v \in linked'[m] : u = v
  BY <1>2, <1>4 DEF FirstDelivery
<1> QED BY <1>5, <1>6 DEF FirstDelivery

(* Every step keeps FirstDelivery. *)
LEMMA NextFirstDelivery == IInv /\ FirstDelivery /\ [Next]_vars => FirstDelivery'
<1> SUFFICES ASSUME IInv, FirstDelivery, [Next]_vars PROVE FirstDelivery'
  OBVIOUS
<1>i. TypeOK /\ LinkInv BY IInvParts
<1>t. /\ trigger \in [Messages -> TriggerRows] /\ linker \in [Linkers -> LinkerRows]
      /\ linked \in [Messages -> SUBSET Ids] /\ repeats \in Nat
  BY <1>i, BoundsAssumption DEF TypeOK, TriggerRows, LinkerRows
<1>p. /\ PCs = {"idle", "read", "attach", "reopen", "create", "tell", "return", "throw"}
      /\ TriggerStates = {"none", "queued", "running", "done", "failed"}
  BY DEF PCs, TriggerStates
<1>r. ASSUME Repeat PROVE FirstDelivery' BY <1>r, <1>t DEF Repeat, FirstDelivery
<1>u. ASSUME UNCHANGED <<trigger, linker, linked, repeats>> PROVE FirstDelivery'
  BY <1>u DEF FirstDelivery, At
<1>1. ASSUME NEW m \in Messages, Enqueue(m) PROVE FirstDelivery'
  <2>1. CASE Repeat BY <2>1, <1>r
  <2>2. CASE trigger[m].st = "none" /\ UNCHANGED boundVars
    <3>1. UNCHANGED <<linker, linked, repeats>> /\ SetTrigger(m, "queued", 0)
      BY <1>1, <2>2 DEF Enqueue, ghostVars, boundVars
    <3>2. trigger'[m].st = "queued" /\ \A k \in Messages \ {m} : trigger'[k] = trigger[k]
      BY <3>1, <1>t, <1>p, SetTriggerFrame
    <3>3. \A k \in Linkers : ~At(k, "idle") => linker[k].m \in Messages
      BY <1>i DEF LinkInv, WorkersHaveMessages
    <3> QED BY <2>2, <3>1, <3>2, <3>3 DEF FirstDelivery, At
  <2> QED BY <1>1, <2>1, <2>2 DEF Enqueue
<1>2. ASSUME NEW l \in Linkers, NEW m \in Messages, ReadInboundTarget(l, m) PROVE FirstDelivery'
  <2>1. CASE ~deleted /\ At(l, "idle")
    <3> DEFINE row == [pc |-> "read", m |-> m, attempt |-> FirstAttempt, t |-> 1]
    <3>r. row \in LinkerRows /\ row.pc = "read" /\ row.m = m
      BY <1>p, BoundsAssumption DEF LinkerRows, FirstAttempt, Ids
    <3>1. /\ UNCHANGED <<linked, repeats>> /\ linker[l].pc = "idle" /\ trigger[m].st = "queued"
          /\ SetTrigger(m, "running", trigger[m].tries) /\ SetLinker(l, row)
      BY <1>2, <2>1 DEF ReadInboundTarget, ghostVars, boundVars, At
    <3> HIDE DEF row
    <3>2. trigger[m].tries \in Nat BY <1>t DEF TriggerRows
    <3>3. trigger'[m].st = "running" /\ \A k \in Messages \ {m} : trigger'[k] = trigger[k]
      BY <3>1, <3>2, <1>t, <1>p, SetTriggerFrame
    <3>4. /\ linker'[l].pc = "read" /\ linker'[l].m = m
          /\ \A k \in Linkers \ {l} : linker'[k] = linker[k]
      BY <3>1, <3>r, <1>t, SetLinkerFrame
    <3> SUFFICES ASSUME repeats = 0 PROVE FirstDelivery' BY <3>1 DEF FirstDelivery
    <3>5. linked[m] = {} /\ \A k \in Linkers : linker[k].pc # "idle" => linker[k].m # m
      BY <3>1 DEF FirstDelivery, At
    <3>6. \A k \in Linkers : linker[k].pc # "idle" => linker[k].m \in Messages
      BY <1>i DEF LinkInv, WorkersHaveMessages, At
    <3>7. /\ \A k \in Linkers : ~At(k, "idle")' => trigger'[linker'[k].m].st = "running"
          /\ \A j, k \in Linkers :
               ~At(j, "idle")' /\ ~At(k, "idle")' /\ linker'[j].m = linker'[k].m => j = k
          /\ \A k \in Linkers : linker'[k].pc \notin {"idle", "tell", "return"} => linked'[linker'[k].m] = {}
      BY <3>1, <3>3, <3>4, <3>5, <3>6 DEF FirstDelivery, At
    <3>8. /\ \A k \in Messages : trigger'[k].st \in {"none", "queued", "failed"} => linked'[k] = {}
          /\ \A k \in Messages : \A u, v \in linked'[k] : u = v
      BY <3>1, <3>3 DEF FirstDelivery
    <3> QED BY <3>7, <3>8 DEF FirstDelivery
  <2>2. CASE deleted /\ SetTrigger(m, "done", 0) /\ UNCHANGED linker
    <3>1. UNCHANGED <<linked, repeats>> /\ trigger[m].st = "queued"
      BY <1>2 DEF ReadInboundTarget, ghostVars, boundVars
    <3>2. trigger'[m].st = "done" /\ \A k \in Messages \ {m} : trigger'[k] = trigger[k]
      BY <2>2, <1>t, <1>p, SetTriggerFrame
    <3>3. \A k \in Linkers : linker[k].pc # "idle" => linker[k].m \in Messages
      BY <1>i DEF LinkInv, WorkersHaveMessages, At
    <3> QED BY <2>2, <3>1, <3>2, <3>3 DEF FirstDelivery, At
  <2> QED BY <1>2, <2>1, <2>2 DEF ReadInboundTarget
<1>3. ASSUME NEW l \in Linkers, Return(l) PROVE FirstDelivery'
  <2>1. /\ UNCHANGED <<linked, repeats>> /\ ~At(l, "idle") /\ SetLinker(l, IdleLinker)
        /\ SetTrigger(linker[l].m, "done", 0)
    BY <1>3 DEF Return, Complete, ghostVars, boundVars, At
  <2> QED BY <2>1, <1>i, <1>p, FirstDeliveryEnds
<1>4. ASSUME NEW l \in Linkers, Throw(l) PROVE FirstDelivery'
  <2>1. /\ UNCHANGED <<linked, repeats>> /\ ~At(l, "idle") /\ ~At(l, "tell") /\ ~At(l, "return")
        /\ SetLinker(l, IdleLinker)
        /\ \/ SetTrigger(linker[l].m, "queued", trigger[linker[l].m].tries + 1)
           \/ SetTrigger(linker[l].m, "failed", 0)
    BY <1>4 DEF Throw, ghostVars, boundVars, At
  <2>2. linker[l].m \in Messages BY <2>1, <1>i DEF LinkInv, WorkersHaveMessages
  <2>3. trigger[linker[l].m].tries + 1 \in Nat BY <2>2, <1>t DEF TriggerRows
  <2> QED BY <2>1, <2>3, <1>i, <1>p, FirstDeliveryEnds
<1>5. ASSUME NEW l \in Linkers, Crash(l) PROVE FirstDelivery'
  BY <1>5, <1>r DEF Crash
<1>6. ASSUME NEW l \in Linkers, ReadActive(l) PROVE FirstDelivery'
  <2>1. UNCHANGED <<linked, repeats>> /\ linker[l].pc = "read"
    BY <1>6 DEF ReadActive, ghostVars, boundVars, At
  <2>2. CASE ~deleted
    <3>1. UNCHANGED trigger BY <1>6, <2>2 DEF ReadActive
    <3>2. /\ linker'[l].pc # "idle" /\ linker'[l].m = linker[l].m
          /\ \A k \in Linkers \ {l} : linker'[k] = linker[k]
      BY <1>6, <2>2, <1>t, ReadActiveFrame
    <3> QED BY <2>1, <3>1, <3>2, <1>i, FirstDeliveryAtWork
  <2>3. CASE deleted
    <3>1. SetTrigger(linker[l].m, "done", 0) /\ SetLinker(l, IdleLinker) /\ ~At(l, "idle")
      BY <1>6, <2>1, <2>3 DEF ReadActive, Complete, At
    <3> QED BY <2>1, <3>1, <1>i, <1>p, FirstDeliveryEnds
  <2> QED BY <2>2, <2>3
<1>11. ASSUME NEW l \in Linkers, TriggerSlaEvaluation(l) PROVE FirstDelivery'
  <2>1. UNCHANGED <<trigger, linked, repeats>> /\ linker[l].pc = "tell" /\ Goto(l, "return")
    BY <1>11 DEF TriggerSlaEvaluation, boundVars, At
  <2>2. /\ linker'[l].pc = "return" /\ linker'[l].m = linker[l].m
        /\ \A k \in Linkers \ {l} : linker'[k] = linker[k]
    BY <2>1, <1>t, <1>p, GotoFrame
  <2> QED BY <2>1, <2>2, <1>i, FirstDeliveryAtWork
<1>7. ASSUME NEW l \in Linkers, AttachOpen(l) PROVE FirstDelivery'
  <2>1. /\ UNCHANGED <<trigger, repeats>> /\ linker[l].pc = "attach" /\ LinkTo(l, linker[l].t, "attached")
    BY <1>7 DEF AttachOpen, boundVars, At
  <2>2. linker[l].t \in Ids BY <1>t DEF LinkerRows
  <2> QED BY <2>1, <2>2, <1>i, FirstDeliveryLinked
<1>l. ASSUME NEW l \in Linkers, linker[l].pc \in {"reopen", "create"}, LostRace(l),
             UNCHANGED <<trigger, linked, repeats>>
      PROVE  FirstDelivery'
  <2>1. /\ linker'[l].pc # "idle" /\ linker'[l].m = linker[l].m
        /\ \A k \in Linkers \ {l} : linker'[k] = linker[k]
    BY <1>l, <1>t, LostRaceFrame
  <2> QED BY <2>1, <1>l, <1>i, FirstDeliveryAtWork
<1>8. ASSUME NEW l \in Linkers, Reopen(l) PROVE FirstDelivery'
  <2>1. /\ UNCHANGED <<trigger, repeats>> /\ linker[l].pc = "reopen"
        /\ LinkTo(l, linker[l].t, "reopened") \/ (LostRace(l) /\ UNCHANGED linked)
    BY <1>8 DEF Reopen, boundVars, At
  <2>2. linker[l].t \in Ids BY <1>t DEF LinkerRows
  <2>3. CASE LinkTo(l, linker[l].t, "reopened") BY <2>1, <2>2, <2>3, <1>i, FirstDeliveryLinked
  <2>4. CASE LostRace(l) /\ UNCHANGED linked BY <2>1, <2>4, <1>l
  <2> QED BY <2>1, <2>3, <2>4
<1>9. ASSUME NEW l \in Linkers, Create(l) PROVE FirstDelivery'
  <2>1. /\ UNCHANGED <<trigger, repeats>> /\ linker[l].pc = "create"
        /\ (\E t \in Ids : LinkTo(l, t, "created")) \/ (LostRace(l) /\ UNCHANGED linked)
    BY <1>9 DEF Create, boundVars, At, Unused
  <2>2. CASE \E t \in Ids : LinkTo(l, t, "created") BY <2>1, <2>2, <1>i, FirstDeliveryLinked
  <2>3. CASE LostRace(l) /\ UNCHANGED linked BY <2>1, <2>3, <1>l
  <2> QED BY <2>1, <2>2, <2>3
<1>10. CASE \/ \E a \in Writers : WriteStatus(a) \/ \E t \in Ids, to \in Statuses : RequireTicket(a, t, to)
            \/ \E t \in Ids : PauseSla(t)
            \/ DeleteTenant \/ UNCHANGED vars
  BY <1>10, <1>u DEF WriteStatus, RequireTicket, PauseSla, DeleteTenant, Act, ghostVars, boundVars, vars
<1> QED BY <1>1, <1>2, <1>3, <1>4, <1>5, <1>6, <1>7, <1>8, <1>9, <1>10, <1>11 DEF Next, Link

(* A message is on a second ticket only if its job was delivered again.      *)
THEOREM SecondTicketsNeedRepeats == Spec => []SecondTicketNeedsRepeat
<1>1. Init => FirstDelivery
  <2> SUFFICES ASSUME Init PROVE FirstDelivery OBVIOUS
  <2>1. /\ \A l \in Linkers : linker[l].pc = "idle"
        /\ \A m \in Messages : linked[m] = {}
    BY DEF Init, IdleLinker
  <2> QED BY <2>1 DEF FirstDelivery, At
<1>2. IInv /\ FirstDelivery /\ [Next]_vars => FirstDelivery' BY NextFirstDelivery
<1>3. FirstDelivery => SecondTicketNeedsRepeat BY DEF FirstDelivery, SecondTicketNeedsRepeat
<1> QED BY IInvInvariant, <1>1, <1>2, <1>3, PTL DEF Spec

(* Wherever a job is not queued, failed or done, a worker has it. *)
RunningHasWorker ==
  \A m \in Messages : trigger[m].st = "running" => \E l \in Linkers : linker[l].pc # "idle" /\ linker[l].m = m
(* A message whose trigger was enqueued is on a ticket, or its job waits, is in a worker's hands, *)
(* has failed where it is monitored, or was dropped of a deleted tenant. *)
TriggerIsCarried ==
  \A m \in Messages : trigger[m].st # "none" =>
    \/ linked[m] # {} \/ trigger[m].st \in {"queued", "failed"}
    \/ trigger[m].st = "done" /\ deleted
    \/ \E l \in Linkers : linker[l].pc # "idle" /\ linker[l].m = m

(* A worker lets go of a job only together with a new state of the job. *)
LEMMA NextRunning == IInv /\ RunningHasWorker /\ [Next]_vars => RunningHasWorker'
<1> SUFFICES ASSUME IInv, RunningHasWorker, [Next]_vars PROVE RunningHasWorker'
  OBVIOUS
<1>i. TypeOK /\ LinkInv BY IInvParts
<1>t. trigger \in [Messages -> TriggerRows] /\ linker \in [Linkers -> LinkerRows]
  BY <1>i DEF TypeOK, TriggerRows, LinkerRows
<1>h. \A l \in Linkers : linker[l].pc # "idle" => linker[l].m \in Messages
  BY <1>i DEF LinkInv, WorkersHaveMessages, At
<1>u. ASSUME UNCHANGED <<trigger, linker>> PROVE RunningHasWorker' BY <1>u DEF RunningHasWorker
(* A worker that goes on keeps its message. *)
<1>k. ASSUME NEW l \in Linkers, trigger' = trigger, linker[l].pc # "idle",
             NEW s, linker' = [linker EXCEPT ![l] = s], s.pc # "idle", s.m = linker[l].m
      PROVE  RunningHasWorker'
  BY <1>k, <1>t DEF RunningHasWorker
(* One that stops has told the queue. *)
<1>s. ASSUME NEW l \in Linkers, linker[l].pc # "idle", SetLinker(l, IdleLinker),
             NEW st \in TriggerStates \ {"running"}, NEW n, SetTrigger(linker[l].m, st, n)
      PROVE  RunningHasWorker'
  <2>1. PICK r : r = [st |-> st, tries |-> n] OBVIOUS
  <2>2. r.st # "running" /\ trigger' = [trigger EXCEPT ![linker[l].m] = r]
    BY <1>s, <2>1 DEF SetTrigger
  <2>3. ASSUME NEW m \in Messages, trigger'[m].st = "running"
        PROVE  \E k \in Linkers : linker'[k].pc # "idle" /\ linker'[k].m = m
    <3>1. m # linker[l].m /\ trigger[m].st = "running" BY <2>2, <2>3, <1>t
    <3>2. PICK k \in Linkers : linker[k].pc # "idle" /\ linker[k].m = m BY <3>1 DEF RunningHasWorker
    <3>3. k # l /\ linker'[k] = linker[k] BY <3>1, <3>2, <1>s, <1>t DEF SetLinker
    <3> QED BY <3>2, <3>3
  <2> QED BY <2>3 DEF RunningHasWorker
<1>1. ASSUME NEW m \in Messages, Enqueue(m) PROVE RunningHasWorker'
  BY <1>1, <1>t DEF Enqueue, SetTrigger, RunningHasWorker
<1>2. ASSUME NEW l \in Linkers, NEW m \in Messages, ReadInboundTarget(l, m) PROVE RunningHasWorker'
  <2>1. PICK s : s = [pc |-> "read", m |-> m, attempt |-> FirstAttempt, t |-> 1] OBVIOUS
  <2>2. s.pc = "read" /\ s.m = m /\ linker[l].pc = "idle"
    BY <1>2, <2>1 DEF ReadInboundTarget, At
  <2>3. \A k \in Messages \ {m} : trigger'[k] = trigger[k]
    BY <1>2, <1>t DEF ReadInboundTarget, SetTrigger
  <2>4. CASE linker' = [linker EXCEPT ![l] = s] BY <2>2, <2>3, <2>4, <1>t DEF RunningHasWorker
  <2>5. CASE SetTrigger(m, "done", 0) /\ UNCHANGED linker
    <3>1. trigger'[m].st = "done" BY <2>5, <1>t DEF SetTrigger
    <3> QED BY <2>3, <2>5, <3>1 DEF RunningHasWorker
  <2> QED BY <1>2, <2>1, <2>4, <2>5 DEF ReadInboundTarget, SetLinker
<1>g. ASSUME NEW l \in Linkers, NEW p \in PCs \ {"idle"}, Goto(l, p), linker[l].pc # "idle", trigger' = trigger
      PROVE  RunningHasWorker'
  <2>1. PICK s : s = [linker[l] EXCEPT !.pc = p] OBVIOUS
  <2>2. s.pc = p /\ s.m = linker[l].m BY <2>1, <1>t DEF LinkerRows
  <2> QED BY <2>1, <2>2, <1>g, <1>k DEF Goto, SetLinker
<1>l. ASSUME NEW l \in Linkers, LostRace(l), linker[l].pc # "idle", trigger' = trigger PROVE RunningHasWorker'
  <2>1. PICK s : s = IF linker[l].attempt < MaxLinkAttempts
                     THEN [linker[l] EXCEPT !.pc = "read", !.attempt = linker[l].attempt + 1]
                     ELSE [linker[l] EXCEPT !.pc = "throw"]
    OBVIOUS
  <2>2. s.pc \in {"read", "throw"} /\ s.m = linker[l].m BY <2>1, <1>t DEF LinkerRows
  <2>3. linker' = [linker EXCEPT ![l] = s] BY <1>l, <2>1 DEF LostRace, SetLinker
  <2> QED BY <2>2, <2>3, <1>l, <1>k
<1>3. ASSUME NEW l \in Linkers, ReadActive(l) PROVE RunningHasWorker'
  <2>1. linker[l].pc # "idle" BY <1>3 DEF ReadActive, At
  <2>2. CASE Goto(l, "create") /\ trigger' = trigger BY <2>1, <2>2, <1>g DEF PCs
  <2>3. ASSUME NEW t \in ActiveIds,
               SetLinker(l, [linker[l] EXCEPT !.t = t,
                               !.pc = IF tickets[t].st = "pending" THEN "reopen" ELSE "attach"]),
               trigger' = trigger
        PROVE  RunningHasWorker'
    <3>1. PICK p \in {"reopen", "attach"} : p = IF tickets[t].st = "pending" THEN "reopen" ELSE "attach"
      OBVIOUS
    <3>2. PICK s : s = [linker[l] EXCEPT !.t = t, !.pc = p] OBVIOUS
    <3>3. s.pc = p /\ s.m = linker[l].m BY <3>2, <1>t DEF LinkerRows
    <3>4. linker' = [linker EXCEPT ![l] = s] BY <2>3, <3>1, <3>2 DEF SetLinker
    <3> QED BY <2>1, <2>3, <3>1, <3>3, <3>4, <1>k
  <2>4. CASE Complete(l) BY <2>1, <2>4, <1>s DEF Complete, TriggerStates
  <2> QED BY <1>3, <2>2, <2>3, <2>4 DEF ReadActive
<1>o. ASSUME NEW l \in Linkers, NEW t \in Ids, NEW o, LinkTo(l, t, o), linker[l].pc # "idle",
             trigger' = trigger
      PROVE  RunningHasWorker'
  <2>1. linker'[l].pc # "idle" /\ linker'[l].m = linker[l].m /\ \A k \in Linkers \ {l} : linker'[k] = linker[k]
    BY <1>o, <1>t, LinkToFrame
  <2> QED BY <2>1, <1>o DEF RunningHasWorker
<1>4. ASSUME NEW l \in Linkers, AttachOpen(l) PROVE RunningHasWorker'
  <2>1. linker[l].t \in Ids BY <1>t DEF LinkerRows
  <2> QED BY <1>4, <2>1, <1>o DEF AttachOpen, At
<1>5. ASSUME NEW l \in Linkers, Reopen(l) PROVE RunningHasWorker'
  <2>1. linker[l].t \in Ids BY <1>t DEF LinkerRows
  <2> QED BY <1>5, <2>1, <1>o, <1>l DEF Reopen, At
<1>6. ASSUME NEW l \in Linkers, Create(l) PROVE RunningHasWorker'
  BY <1>6, <1>o, <1>l DEF Create, At, Unused
<1>7. ASSUME NEW l \in Linkers, Return(l) PROVE RunningHasWorker'
  BY <1>7, <1>s DEF Return, Complete, At, TriggerStates
<1>11. ASSUME NEW l \in Linkers, TriggerSlaEvaluation(l) PROVE RunningHasWorker'
  BY <1>11, <1>g DEF TriggerSlaEvaluation, At, PCs
<1>8. ASSUME NEW l \in Linkers, Throw(l) PROVE RunningHasWorker'
  <2>1. linker[l].pc # "idle" /\ SetLinker(l, IdleLinker) BY <1>8 DEF Throw, At
  <2>2. CASE SetTrigger(linker[l].m, "queued", trigger[linker[l].m].tries + 1)
    BY <2>1, <2>2, <1>s DEF TriggerStates
  <2>3. CASE SetTrigger(linker[l].m, "failed", 0) BY <2>1, <2>3, <1>s DEF TriggerStates
  <2> QED BY <1>8, <2>2, <2>3 DEF Throw
<1>9. ASSUME NEW l \in Linkers, Crash(l) PROVE RunningHasWorker'
  BY <1>9, <1>s DEF Crash, At, TriggerStates
<1>10. ASSUME \/ \E a \in Writers, t \in Ids, to \in Statuses : RequireTicket(a, t, to)
              \/ \E a \in Writers : WriteStatus(a)
              \/ \E t \in Ids : PauseSla(t)
              \/ DeleteTenant \/ UNCHANGED vars
       PROVE  RunningHasWorker'
  BY <1>10, <1>u DEF WriteStatus, RequireTicket, PauseSla, DeleteTenant, vars
<1> QED BY <1>1, <1>2, <1>3, <1>4, <1>5, <1>6, <1>7, <1>8, <1>9, <1>10, <1>11 DEF Next, Link

(* The safety half of EventuallyLinked: no retry, lost race or crash drops a *)
(* trigger; until its message is on a ticket, its job waits, is in a         *)
(* worker's hands, or has used up its attempts and is in the failed set.     *)
(* Only the deletion of the tenant drops it.                                 *)
THEOREM NoTriggerIsDropped == Spec => []TriggerIsCarried
<1>1. Init => RunningHasWorker BY DEF Init, RunningHasWorker
<1>2. IInv /\ RunningHasWorker => TriggerIsCarried
  BY DEF IInv, TypeOK, TriggerStates, DoneMeansLinked, RunningHasWorker, TriggerIsCarried
<1> QED BY IInvInvariant, <1>1, <1>2, NextRunning, PTL DEF Spec

-----------------------------------------------------------------------------
(* TicketRouting. *)

RoutedRows == [active : BOOLEAN, user : Owners, team : BOOLEAN, routing : RoutingStates, since : Nat]
RouterStates == [pc : RouterPCs, t : SUBSET Tickets, to : Columns]
RouteJobs == {"none", "queued", "running", "held"}
Sources == {"none", "rule", "rotation", "person", "released"}

RouterIsSound(s) == IF s.pc = "idle" THEN s = IdleRouter ELSE \E t \in Tickets : s.t = {t}
TicketIsTimed(r) == (r.routing = "deferred") = (r.since > 0)

(* A non-empty set of naturals has a least element. *)
LEMMA LeastNatural ==
  ASSUME NEW T \in SUBSET Nat, T # {}
  PROVE  \E x \in T : \A y \in T : x <= y
<1>1. PICK x \in T : \A y \in T : ~(<<y, x>> \in OpToRel(<, Nat))
  BY NatLessThanWellFounded, WFMin
<1>2. \A y \in T : ~(y < x)
  BY <1>1 DEF OpToRel
<1>3. \A y \in T : x <= y BY <1>2
<1> QED BY <1>3

(* Nobody, the idle router and the empty desk. *)
LEMMA ConstantRows ==
  /\ NoAgent \notin Agents /\ NoAgent \in Owners /\ Agents \subseteq Owners /\ Agents \subseteq Nat
  /\ Unowned \in Columns /\ Unowned.user = NoAgent /\ Unowned.team = FALSE
  /\ IdleRouter \in RouterStates /\ IdleRouter.pc = "idle" /\ IdleRouter.t = {} /\ IdleRouter.to = Unowned
  /\ NoRequest \in [t : SUBSET Tickets, to : Columns] /\ NoRequest.t = {} /\ NoRequest.to = Unowned
  /\ RouterIsSound(IdleRouter)
<1>1. /\ NoAgent \notin Agents /\ NoAgent \in Owners /\ Agents \subseteq Owners /\ Agents \subseteq Nat
  BY AgentsAssumption DEF Owners, NoAgent
<1>2. Unowned \in Columns /\ Unowned.user = NoAgent /\ Unowned.team = FALSE
  BY <1>1 DEF Unowned, Columns
<1>3. IdleRouter \in RouterStates /\ IdleRouter.pc = "idle" /\ IdleRouter.t = {} /\ IdleRouter.to = Unowned
  BY <1>2 DEF IdleRouter, RouterStates, RouterPCs
<1>4. NoRequest \in [t : SUBSET Tickets, to : Columns] /\ NoRequest.t = {} /\ NoRequest.to = Unowned
  BY <1>2 DEF NoRequest
<1> QED BY <1>1, <1>2, <1>3, <1>4 DEF RouterIsSound

(* The load of an agent is a number. *)
LEMMA LoadIsNatural ==
  ASSUME NEW a
  PROVE  Load(a) \in Nat
<1> DEFINE S == {t \in Tickets : ticket[t].user = a /\ ticket[t].active}
<1>1. IsFiniteSet(S) BY FiniteAssumption, FS_Subset
<1>2. Cardinality(S) \in Nat BY <1>1, FS_CardinalityType
<1> QED BY <1>2 DEF Load

(* The order in which readCandidates lists the eligible agents has a first: *)
(* whenever somebody is eligible, somebody eligible is chosen.              *)
LEMMA ChosenIsEligible ==
  ASSUME cursor \in Owners, here \subseteq Agents, Eligible # {}
  PROVE  Chosen \in Eligible
<1> DEFINE E == Eligible
           after(a) == cursor # NoAgent /\ a > cursor
<1>1. E \subseteq Agents /\ Agents \subseteq Nat BY ConstantRows DEF Eligible, Candidates
<1>c. cursor \in Nat BY AgentsAssumption DEF Owners, NoAgent
<1>2. \A a : Load(a) \in Nat BY LoadIsNatural
<1>3. PICK n \in {Load(a) : a \in E} : \A k \in {Load(a) : a \in E} : n <= k
  <2>1. {Load(a) : a \in E} \in SUBSET Nat /\ {Load(a) : a \in E} # {} BY <1>2
  <2> QED BY <2>1, LeastNatural
<1> DEFINE L == {a \in E : Load(a) = n}
           R == {a \in L : after(a)}
           F == IF R # {} THEN R ELSE L
<1>4. L # {} /\ L \subseteq E BY <1>3
<1>5. F # {} /\ F \in SUBSET Nat /\ F \subseteq L BY <1>1, <1>4
<1> HIDE DEF F
<1>6. PICK a \in F : \A b \in F : a <= b BY <1>5, LeastNatural
<1> USE DEF F
<1>7. a \in E /\ Load(a) = n BY <1>6
<1>8. ASSUME NEW b \in E \ {a} PROVE Before(a, b)
  <2>1. a \in Nat /\ b \in Nat /\ a # b BY <1>1, <1>7, <1>8
  <2>2. n <= Load(b) /\ Load(b) \in Nat /\ n \in Nat BY <1>2, <1>3, <1>7
  <2>3. CASE Load(b) # n BY <2>2, <2>3, <1>7 DEF Before
  <2>4. CASE Load(b) = n /\ b \in F
    <3>1. a < b BY <1>6, <2>1, <2>4
    <3>2. after(a) = after(b) BY <2>4, <1>6
    <3> QED BY <3>1, <3>2, <2>4, <1>7 DEF Before
  <2>5. CASE Load(b) = n /\ b \notin F
    <3>1. after(a) /\ ~after(b) BY <2>5, <1>6
    <3> QED BY <3>1, <2>5, <1>7, <2>1, <1>c DEF Before
  <2> QED BY <2>3, <2>4, <2>5
<1> HIDE DEF F, L, R, E
<1>9. \E x \in Eligible : \A b \in Eligible \ {x} : Before(x, b) BY <1>7, <1>8 DEF E
<1> QED BY <1>9 DEF Chosen

(* The target of a rule is a pair of columns. *)
LEMMA ColumnsForType ==
  ASSUME NEW x \in Agents \cup {Team}
  PROVE  /\ ColumnsFor(x) \in Columns
         /\ x \in Agents => ColumnsFor(x).user = x
<1>1. CASE x = Team BY <1>1, ConstantRows, RulesAssumption DEF ColumnsFor, Columns
<1>2. CASE x \in Agents
  <2>1. x # Team /\ x \in Owners BY <1>2, ConstantRows, RulesAssumption
  <2> QED BY <2>1 DEF ColumnsFor, Columns
<1> QED BY <1>1, <1>2

(* RoutingTypeOK, in terms of the sets above. *)
RoutingTypes ==
  /\ ticket \in [Tickets -> RoutedRows]
  /\ job \in [Tickets -> RouteJobs]
  /\ router \in [Routers -> RouterStates]
  /\ \A w \in Routers : RouterIsSound(router[w])
  /\ desk \in [t : SUBSET Tickets, to : Columns]
  /\ desk = NoRequest \/ \E t \in Tickets : desk.t = {t}
  /\ removed \subseteq Agents /\ here \subseteq Agents \ removed /\ cursor \in Owners
  /\ by \in [Tickets -> Sources]
  /\ deferrals \in [Tickets -> Nat]
  /\ crossed \subseteq Tickets /\ outdated \subseteq Tickets
  /\ peopleActs \in 0..MaxPeopleActs /\ faults \in 0..MaxFaults
  /\ \A t \in Tickets : TicketIsTimed(ticket[t])

(* The types by rows. *)
LEMMA RoutingTypeParts == RoutingTypeOK <=> RoutingTypes
BY DEF RoutingTypeOK, RoutingTypes, RoutedRows, RouteJobs, RouterStates, RouterIsSound, Sources,
       TicketIsTimed, RouterAt, WorksOn

(* One router changes. *)
LEMMA SetRouterFrame ==
  ASSUME router \in [Routers -> RouterStates], NEW w \in Routers, NEW s \in RouterStates,
         SetRouter(w, s)
  PROVE  /\ router' \in [Routers -> RouterStates] /\ router'[w] = s
         /\ \A v \in Routers \ {w} : router'[v] = router[v]
BY DEF SetRouter

(* One ticket changes. *)
LEMMA SetTicketFrame ==
  ASSUME ticket \in [Tickets -> RoutedRows], NEW t \in Tickets, NEW r \in RoutedRows,
         SetTicket(t, r)
  PROVE  /\ ticket' \in [Tickets -> RoutedRows] /\ ticket'[t] = r
         /\ \A u \in Tickets \ {t} : ticket'[u] = ticket[u]
BY DEF SetTicket

(* The end of a routing job. *)
LEMMA FinishFrame ==
  ASSUME router \in [Routers -> RouterStates], job \in [Tickets -> RouteJobs],
         NEW w \in Routers, Finish(w)
  PROVE  /\ router' \in [Routers -> RouterStates] /\ router'[w] = IdleRouter
         /\ \A v \in Routers \ {w} : router'[v] = router[v]
         /\ job' \in [Tickets -> RouteJobs]
         /\ \A t \in Tickets : job'[t] = IF router[w].t = {t} /\ job[t] = "running" THEN "held" ELSE job[t]
<1>1. SetRouter(w, IdleRouter) BY DEF Finish
<1>2. job' = [t \in Tickets |-> IF WorksOn(w, t) /\ job[t] = "running" THEN "held" ELSE job[t]]
  BY DEF Finish
<1> QED BY <1>1, <1>2, SetRouterFrame, ConstantRows DEF WorksOn, RouteJobs

(* What Placed writes. *)
LEMMA PlacedFields ==
  ASSUME ticket \in [Tickets -> RoutedRows], NEW t \in Tickets, NEW to \in Columns,
         NEW st \in RoutingStates \ {"deferred"}
  PROVE  /\ Placed(t, to, st) \in RoutedRows
         /\ Placed(t, to, st).active = ticket[t].active
         /\ Placed(t, to, st).user = to.user /\ Placed(t, to, st).team = to.team
         /\ Placed(t, to, st).routing = st
         /\ TicketIsTimed(Placed(t, to, st))
<1>1. ticket[t] \in RoutedRows OBVIOUS
<1>2. to.user \in Owners /\ to.team \in BOOLEAN BY DEF Columns
<1>3. Placed(t, to, st) = [ticket[t] EXCEPT !.user = to.user, !.team = to.team, !.routing = st, !.since = 0]
  BY DEF Placed
<1>4. PICK r : r = ticket[t] OBVIOUS
<1>5. PICK p : p = [r EXCEPT !.user = to.user, !.team = to.team, !.routing = st, !.since = 0] OBVIOUS
<1>6. p \in RoutedRows BY <1>1, <1>2, <1>4, <1>5 DEF RoutedRows
<1>7. p.active = r.active /\ p.user = to.user /\ p.team = to.team /\ p.routing = st /\ p.since = 0
  BY <1>1, <1>4, <1>5 DEF RoutedRows
<1>8. p = Placed(t, to, st) BY <1>3, <1>4, <1>5
<1>9. TicketIsTimed(p) BY <1>7 DEF TicketIsTimed
<1> QED BY <1>4, <1>6, <1>7, <1>8, <1>9

(* Who owns a ticket, by its columns. *)
LEMMA OwnerFields ==
  ASSUME NEW t \in Tickets
  PROVE  /\ OwnerOf(t) = Unowned <=> ticket[t].user = NoAgent /\ ticket[t].team = FALSE
         /\ OwnerOf(t).user = ticket[t].user /\ OwnerOf(t).team = ticket[t].team
BY DEF OwnerOf, Unowned

-----------------------------------------------------------------------------
(* What a step of the routing model does, by kind. *)

Rotating == {"advance", "applyRotation"}
RoutersBut(w) == /\ router' \in [Routers -> RouterStates]
                 /\ \A v \in Routers \ {w} : router'[v] = router[v]
TicketsBut(t) == /\ ticket' \in [Tickets -> RoutedRows]
                 /\ \A u \in Tickets \ {t} : ticket'[u] = ticket[u]
SameOwner(t) == ticket'[t].user = ticket[t].user /\ ticket'[t].team = ticket[t].team
Ends(w) ==
  /\ RoutersBut(w) /\ router[w].pc # "idle" /\ router'[w] = IdleRouter
  /\ job' \in [Tickets -> RouteJobs]
  /\ \A t \in Tickets : job'[t] = IF router[w].t = {t} /\ job[t] = "running" THEN "held" ELSE job[t]

(* A router takes a job up. *)
Takes(w, t) ==
  /\ RoutersBut(w) /\ router'[w].pc = "rules" /\ router'[w].t = {t}
  /\ job[t] = "queued" /\ job' = [job EXCEPT ![t] = "running"]
  /\ OwnerOf(t) = Unowned
  /\ UNCHANGED <<ticket, desk, peopleVars, cursor, events, routingGhosts, routingBounds>>
(* It skips one. *)
Skips(t) ==
  /\ job[t] = "queued" /\ job' = [job EXCEPT ![t] = "held"]
  /\ ~(ticket[t].active /\ OwnerOf(t) = Unowned)
  /\ UNCHANGED <<ticket, router, desk, peopleVars, cursor, events, routingGhosts, routingBounds>>
(* It reads, and decides where to go on; rotation names an agent with room.  *)
Thinks(w) ==
  /\ RoutersBut(w) /\ router'[w].pc # "idle" /\ router'[w].t = router[w].t /\ router[w].pc # "idle"
  /\ router'[w].pc \in Rotating =>
       \/ router[w].pc \in Rotating /\ router'[w].to = router[w].to
       \/ router'[w].to.user \in Agents /\ HasRoom(router'[w].to.user)
  /\ cursor' \in Owners
  /\ UNCHANGED <<ticket, job, desk, peopleVars, events, routingGhosts, routingBounds>>
(* It assigns the ticket. *)
Places(w, t, source) ==
  /\ Ends(w) /\ router[w].t = {t} /\ (source = "rotation" => router[w].pc \in Rotating)
  /\ OwnerOf(t) = Unowned
  /\ TicketsBut(t) /\ ticket'[t].active = ticket[t].active
  /\ ticket'[t].user = router[w].to.user /\ ticket'[t].team = router[w].to.team
  /\ ticket'[t].routing = "assigned" /\ TicketIsTimed(ticket'[t])
  /\ crossed' = crossed \cup {u \in {t} : \E v \in Routers \ {w} : WorksOn(v, u)}
  /\ outdated' = Outdates(t, router[w].to)
  /\ by' = [by EXCEPT ![t] = source]
  /\ UNCHANGED <<desk, peopleVars, cursor, deferrals, routingBounds>>
(* It gives up: somebody holds the ticket, or a query failed. *)
Drops(w) ==
  /\ Ends(w)
  /\ faults' > 0 \/ \A t \in Tickets : router[w].t = {t} => OwnerOf(t) # Unowned
  /\ faults' \in 0..MaxFaults /\ faults' >= faults /\ peopleActs' = peopleActs
  /\ UNCHANGED <<ticket, desk, peopleVars, cursor, events, routingGhosts>>
(* It defers the ticket. *)
Postpones(w, t) ==
  /\ Ends(w) /\ router[w].t = {t}
  /\ TicketsBut(t) /\ ticket'[t].active = ticket[t].active /\ SameOwner(t)
  /\ ticket'[t].routing = "deferred" /\ TicketIsTimed(ticket'[t])
  /\ deferrals' \in [Tickets -> Nat]
  /\ UNCHANGED <<desk, peopleVars, cursor, by, routingGhosts, routingBounds>>
(* Its job is delivered again. *)
Repeats(w) ==
  /\ RoutersBut(w) /\ (router'[w] = router[w] \/ router'[w] = IdleRouter)
  /\ job' \in [Tickets -> RouteJobs]
  /\ \A t \in Tickets : job'[t] = job[t] \/ job'[t] = "queued"
  /\ faults' \in 0..MaxFaults /\ faults' > 0 /\ peopleActs' = peopleActs
  /\ UNCHANGED <<ticket, desk, peopleVars, cursor, events, routingGhosts>>
(* A ticket is to be routed again. *)
Asks ==
  /\ job' \in [Tickets -> RouteJobs]
  /\ \A t \in Tickets : job'[t] = job[t] \/ (job[t] = "none" /\ job'[t] = "queued")
  /\ peopleActs' \in 0..MaxPeopleActs /\ faults' = faults
  /\ UNCHANGED <<ticket, router, desk, peopleVars, cursor, events, routingGhosts>>
(* A person assigns or releases the ticket. *)
Writes(t) ==
  /\ TicketsBut(t) /\ ticket'[t].active = ticket[t].active
  /\ desk.t = {t} /\ desk' = NoRequest
  /\ ticket'[t].user = desk.to.user /\ ticket'[t].team = desk.to.team
  /\ ticket'[t].routing = (IF desk.to = Unowned THEN "pending" ELSE "manual")
  /\ TicketIsTimed(ticket'[t])
  /\ crossed' = Crosses(t) /\ outdated' = Outdates(t, desk.to)
  /\ by' = [by EXCEPT ![t] = IF desk.to = Unowned THEN "released" ELSE "person"]
  /\ UNCHANGED <<job, router, peopleVars, cursor, deferrals, routingBounds>>
(* A person finishes it. *)
Closes(t) ==
  /\ TicketsBut(t) /\ ticket'[t].active = FALSE /\ SameOwner(t)
  /\ ticket'[t].routing = ticket[t].routing /\ TicketIsTimed(ticket'[t])
  /\ peopleActs' \in 0..MaxPeopleActs /\ faults' = faults
  /\ UNCHANGED <<job, router, desk, peopleVars, cursor, events, routingGhosts>>
(* A user is removed. *)
Removes(a) ==
  /\ a \notin removed /\ removed' = removed \cup {a} /\ here' = here \ {a}
  /\ cursor' \in Owners
  /\ ticket' \in [Tickets -> RoutedRows]
  /\ \A t \in Tickets :
       /\ ticket'[t].active = ticket[t].active /\ ticket'[t].team = ticket[t].team
       /\ ticket'[t].routing = ticket[t].routing /\ TicketIsTimed(ticket'[t])
       /\ ticket'[t].user = IF ticket[t].user = a THEN NoAgent ELSE ticket[t].user
  /\ peopleActs' \in 0..MaxPeopleActs /\ faults' = faults
  /\ UNCHANGED <<job, router, desk, events, routingGhosts>>
(* Nothing that matters to a ticket. *)
Waits ==
  /\ here' \subseteq Agents \ removed
  /\ desk' \in [t : SUBSET Tickets, to : Columns]
  /\ desk' = NoRequest \/ \E t \in Tickets : desk'.t = {t}
  /\ peopleActs' \in 0..MaxPeopleActs /\ faults' = faults
  /\ UNCHANGED <<ticket, job, router, removed, cursor, events, routingGhosts>>

RoutingKind ==
  \/ \E w \in Routers : Thinks(w) \/ Drops(w) \/ Repeats(w)
  \/ \E w \in Routers, t \in Tickets : Takes(w, t) \/ Postpones(w, t)
  \/ \E w \in Routers, t \in Tickets, source \in {"rule", "rotation"} : Places(w, t, source)
  \/ \E t \in Tickets : Skips(t) \/ Writes(t) \/ Closes(t)
  \/ \E a \in Agents : Removes(a)
  \/ Asks \/ Waits

(* Matching and rotating only read and remember, ... *)
LEMMA KindOfThinking ==
  ASSUME RoutingTypeOK, NEW w \in Routers, MatchRules(w) \/ ResolveFallback(w) \/ AdvanceCursor(w)
  PROVE  Thinks(w)
<1>t. /\ router \in [Routers -> RouterStates] /\ cursor \in Owners /\ here \subseteq Agents /\ removed \subseteq Agents
  BY RoutingTypeParts DEF RoutingTypes
<1>w. PICK s : s = router[w] OBVIOUS
<1>s. s \in RouterStates BY <1>t, <1>w
<1>1. CASE MatchRules(w)
  <2>1. /\ UNCHANGED <<ticket, job, desk, peopleVars, cursor, events, routingGhosts, routingBounds>>
        /\ s.pc = "rules"
    BY <1>1, <1>w DEF MatchRules, RouterAt
  <2>2. PICK matching \in SUBSET ActiveRules :
          LET usable == {i \in matching : IsTargetUsable(Rules[i])}
          IN SetRouter(w, IF usable = {} THEN [s EXCEPT !.pc = "rotate"]
                          ELSE [s EXCEPT !.pc = "applyRule", !.to = ColumnsFor(Rules[Min(usable)])])
    BY <1>1, <1>w DEF MatchRules
  <2> DEFINE usable == {i \in matching : IsTargetUsable(Rules[i])}
  <2>3. CASE usable = {}
    <3>1. PICK n : n = [s EXCEPT !.pc = "rotate"] OBVIOUS
    <3>2. n \in RouterStates /\ n.pc = "rotate" /\ n.t = s.t BY <1>s, <3>1 DEF RouterStates, RouterPCs
    <3>3. SetRouter(w, n) BY <2>2, <2>3, <3>1
    <3>4. RoutersBut(w) /\ router'[w] = n BY <3>2, <3>3, <1>t, SetRouterFrame DEF RoutersBut
    <3> QED BY <3>2, <3>4, <2>1, <1>w, <1>t DEF Thinks, Rotating
  <2>4. CASE usable # {}
    <3>1. usable \in SUBSET DOMAIN Rules /\ DOMAIN Rules \subseteq Nat
      BY RulesAssumption DEF ActiveRules
    <3> HIDE DEF usable
    <3>2. \E x \in usable : \A y \in usable : x <= y BY <2>4, <3>1, LeastNatural
    <3>3. Min(usable) \in usable BY <3>2 DEF Min
    <3>4. Rules[Min(usable)] \in Agents \cup {Team} BY <3>1, <3>3, RulesAssumption
    <3>5. PICK c : c = ColumnsFor(Rules[Min(usable)]) OBVIOUS
    <3>6. c \in Columns BY <3>4, <3>5, ColumnsForType
    <3>7. PICK n : n = [s EXCEPT !.pc = "applyRule", !.to = c] OBVIOUS
    <3>8. n \in RouterStates /\ n.pc = "applyRule" /\ n.t = s.t BY <1>s, <3>6, <3>7 DEF RouterStates, RouterPCs
    <3>9. SetRouter(w, n) BY <2>2, <2>4, <3>5, <3>7 DEF usable
    <3>10. RoutersBut(w) /\ router'[w] = n BY <3>8, <3>9, <1>t, SetRouterFrame DEF RoutersBut
    <3> QED BY <3>8, <3>10, <2>1, <1>w, <1>t DEF Thinks, Rotating
  <2> QED BY <2>3, <2>4
<1>2. CASE ResolveFallback(w)
  <2>1. /\ UNCHANGED <<ticket, job, desk, peopleVars, cursor, events, routingGhosts, routingBounds>>
        /\ s.pc = "rotate"
        /\ SetRouter(w, IF Eligible = {} THEN [s EXCEPT !.pc = "defer"]
                        ELSE [s EXCEPT !.pc = "advance", !.to = ColumnsFor(Chosen)])
    BY <1>2, <1>w DEF ResolveFallback, RouterAt
  <2>2. CASE Eligible = {}
    <3>1. PICK n : n = [s EXCEPT !.pc = "defer"] OBVIOUS
    <3>2. n \in RouterStates /\ n.pc = "defer" /\ n.t = s.t BY <1>s, <3>1 DEF RouterStates, RouterPCs
    <3>3. SetRouter(w, n) BY <2>1, <2>2, <3>1
    <3>4. RoutersBut(w) /\ router'[w] = n BY <3>2, <3>3, <1>t, SetRouterFrame DEF RoutersBut
    <3> QED BY <3>2, <3>4, <2>1, <1>w, <1>t DEF Thinks, Rotating
  <2>3. CASE Eligible # {}
    <3>1. PICK a : a = Chosen OBVIOUS
    <3>2. a \in Agents /\ HasRoom(a)
      BY <3>1, <2>3, <1>t, ChosenIsEligible DEF Eligible, Candidates
    <3>3. PICK c : c = ColumnsFor(a) OBVIOUS
    <3>4. c \in Columns /\ c.user = a BY <3>2, <3>3, ColumnsForType
    <3>5. PICK n : n = [s EXCEPT !.pc = "advance", !.to = c] OBVIOUS
    <3>6. n \in RouterStates /\ n.pc = "advance" /\ n.t = s.t /\ n.to = c
      BY <1>s, <3>4, <3>5 DEF RouterStates, RouterPCs
    <3>7. SetRouter(w, n) BY <2>1, <2>3, <3>1, <3>3, <3>5
    <3>8. RoutersBut(w) /\ router'[w] = n BY <3>6, <3>7, <1>t, SetRouterFrame DEF RoutersBut
    <3> QED BY <3>2, <3>4, <3>6, <3>8, <2>1, <1>w, <1>t DEF Thinks, Rotating
  <2> QED BY <2>2, <2>3
<1>3. CASE AdvanceCursor(w)
  <2>1. /\ UNCHANGED <<ticket, job, desk, peopleVars, events, routingGhosts, routingBounds>>
        /\ s.pc = "advance" /\ cursor' = s.to.user /\ SetRouter(w, [s EXCEPT !.pc = "applyRotation"])
    BY <1>3, <1>w DEF AdvanceCursor, RouterAt
  <2>2. PICK n : n = [s EXCEPT !.pc = "applyRotation"] OBVIOUS
  <2>3. n \in RouterStates /\ n.pc = "applyRotation" /\ n.t = s.t /\ n.to = s.to
    BY <1>s, <2>2 DEF RouterStates, RouterPCs
  <2>4. RoutersBut(w) /\ router'[w] = n BY <2>1, <2>2, <2>3, <1>t, SetRouterFrame DEF RoutersBut
  <2>5. s.to.user \in Owners BY <1>s DEF RouterStates, Columns
  <2> QED BY <2>1, <2>3, <2>4, <2>5, <1>w DEF Thinks, Rotating
<1> QED BY <1>1, <1>2, <1>3

(* ... a job is taken up or found without object, ... *)
LEMMA KindOfTaking ==
  ASSUME RoutingTypeOK, NEW w \in Routers, NEW t \in Tickets, RouteTicket(w, t)
  PROVE  Takes(w, t) \/ Skips(t)
<1>t. router \in [Routers -> RouterStates] BY RoutingTypeParts DEF RoutingTypes
<1>1. /\ UNCHANGED <<ticket, desk, peopleVars, cursor, events, routingGhosts, routingBounds>>
      /\ job[t] = "queued"
  BY DEF RouteTicket, routingGhosts
<1>2. CASE ticket[t].active /\ OwnerOf(t) = Unowned
  <2>1. PICK n : n = [IdleRouter EXCEPT !.pc = "rules", !.t = {t}] OBVIOUS
  <2>2. n \in RouterStates /\ n.pc = "rules" /\ n.t = {t}
    BY <2>1, ConstantRows DEF IdleRouter, RouterStates, RouterPCs
  <2>3. SetRouter(w, n) /\ job' = [job EXCEPT ![t] = "running"] BY <1>2, <2>1 DEF RouteTicket
  <2>4. RoutersBut(w) /\ router'[w] = n BY <2>2, <2>3, <1>t, SetRouterFrame DEF RoutersBut
  <2> QED BY <1>1, <1>2, <2>2, <2>3, <2>4 DEF Takes
<1>3. CASE ~(ticket[t].active /\ OwnerOf(t) = Unowned)
  BY <1>1, <1>3 DEF RouteTicket, Skips
<1> QED BY <1>2, <1>3

(* A router that is not idle has one ticket. *)
LEMMA BusyHasTicket ==
  ASSUME RoutingTypeOK, NEW w \in Routers, router[w].pc # "idle"
  PROVE  \E t \in Tickets : router[w].t = {t}
BY RoutingTypeParts DEF RoutingTypes, RouterIsSound

(* ... an assignment lands or finds the ticket taken, ... *)
LEMMA KindOfPlacing ==
  ASSUME RoutingTypeOK, NEW w \in Routers, NEW source \in {"rule", "rotation"}, Assign(w, source)
  PROVE  Drops(w) \/ \E t \in Tickets : Places(w, t, source)
<1>t. /\ router \in [Routers -> RouterStates] /\ ticket \in [Tickets -> RoutedRows] /\ job \in [Tickets -> RouteJobs]
      /\ faults \in 0..MaxFaults
  BY RoutingTypeParts DEF RoutingTypes
<1>1. /\ UNCHANGED <<desk, peopleVars, cursor, deferrals, routingBounds>>
      /\ router[w].pc = (IF source = "rule" THEN "applyRule" ELSE "applyRotation")
      /\ Finish(w)
  BY DEF Assign, RouterAt
<1>2. Ends(w) BY <1>1, <1>t, FinishFrame DEF Ends, RoutersBut
<1>3. PICK t \in Tickets : router[w].t = {t} BY <1>1, BusyHasTicket
<1>4. IF Takeable(t)
      THEN /\ SetTicket(t, Placed(t, router[w].to, "assigned"))
           /\ crossed' = crossed \cup {u \in {t} : \E v \in Routers \ {w} : WorksOn(v, u)}
           /\ outdated' = Outdates(t, router[w].to)
           /\ by' = [by EXCEPT ![t] = source]
      ELSE UNCHANGED <<ticket, crossed, outdated, by>>
  BY <1>3 DEF Assign
<1>5. CASE Takeable(t)
  <2>1. router[w].to \in Columns BY <1>t DEF RouterStates
  <2>2. "assigned" \in RoutingStates \ {"deferred"} BY DEF RoutingStates
  <2>3. PICK p : p = Placed(t, router[w].to, "assigned") OBVIOUS
  <2>4. /\ p \in RoutedRows /\ p.active = ticket[t].active /\ p.user = router[w].to.user
        /\ p.team = router[w].to.team /\ p.routing = "assigned" /\ TicketIsTimed(p)
    BY <2>1, <2>2, <2>3, <1>t, PlacedFields
  <2>5. TicketsBut(t) /\ ticket'[t] = p BY <1>4, <1>5, <2>3, <2>4, <1>t, SetTicketFrame DEF TicketsBut
  <2>6. OwnerOf(t) = Unowned BY <1>5 DEF Takeable
  <2>7. source = "rotation" => router[w].pc \in Rotating BY <1>1 DEF Rotating
  <2>8. Places(w, t, source) BY <1>1, <1>2, <1>3, <1>4, <1>5, <2>4, <2>5, <2>6, <2>7 DEF Places
  <2> QED BY <2>8
<1>6. CASE ~Takeable(t)
  <2>1. UNCHANGED <<ticket, crossed, outdated, by>> BY <1>4, <1>6
  <2>2. \A u \in Tickets : router[w].t = {u} => OwnerOf(u) # Unowned BY <1>3, <1>6 DEF Takeable
  <2>3. faults' = faults /\ peopleActs' = peopleActs BY <1>1 DEF routingBounds
  <2>4. faults' \in 0..MaxFaults /\ faults' >= faults BY <2>3, <1>t
  <2>5. UNCHANGED <<ticket, desk, peopleVars, cursor, events, routingGhosts>>
    BY <1>1, <2>1 DEF events, routingGhosts
  <2> QED BY <1>2, <2>2, <2>3, <2>4, <2>5 DEF Drops
<1> QED BY <1>5, <1>6

(* ... a ticket is put off, ... *)
LEMMA KindOfDeferring ==
  ASSUME RoutingTypeOK, NEW w \in Routers, Defer(w)
  PROVE  \E t \in Tickets : Postpones(w, t)
<1>t. /\ router \in [Routers -> RouterStates] /\ ticket \in [Tickets -> RoutedRows] /\ job \in [Tickets -> RouteJobs]
      /\ deferrals \in [Tickets -> Nat] /\ \A t \in Tickets : TicketIsTimed(ticket[t])
  BY RoutingTypeParts DEF RoutingTypes
<1>1. /\ UNCHANGED <<desk, peopleVars, cursor, by, routingGhosts, routingBounds>>
      /\ router[w].pc = "defer" /\ Finish(w)
  BY DEF Defer, RouterAt
<1>2. Ends(w) BY <1>1, <1>t, FinishFrame DEF Ends, RoutersBut
<1>3. PICK t \in Tickets : router[w].t = {t} BY <1>1, BusyHasTicket
<1>4. SetTicket(t, Deferred(t)) /\ deferrals' = [deferrals EXCEPT ![t] = @ + 1] BY <1>3 DEF Defer
<1>5. PICK r : r = ticket[t] OBVIOUS
<1>6. r \in RoutedRows /\ deferrals[t] + 1 \in Nat /\ deferrals[t] + 1 > 0 /\ TicketIsTimed(r) BY <1>5, <1>t
<1>7. PICK p : p = Deferred(t) OBVIOUS
<1>8. /\ p \in RoutedRows /\ p.active = r.active /\ p.user = r.user /\ p.team = r.team
      /\ p.routing = "deferred" /\ TicketIsTimed(p)
  <2>1. CASE Deferrable(t)
    <3>1. p = [r EXCEPT !.routing = "deferred", !.since = deferrals[t] + 1]
      BY <1>5, <1>7, <2>1 DEF Deferred
    <3>2. p \in RoutedRows /\ p.since = deferrals[t] + 1 /\ p.active = r.active /\ p.user = r.user
          /\ p.team = r.team /\ p.routing = "deferred"
      BY <3>1, <1>6 DEF RoutedRows, RoutingStates
    <3> QED BY <3>2, <1>6 DEF TicketIsTimed
  <2>2. CASE ~Deferrable(t)
    <3>1. p = r /\ r.routing = "deferred" BY <1>5, <1>7, <2>2 DEF Deferred, Deferrable
    <3> QED BY <3>1, <1>6
  <2> QED BY <2>1, <2>2
<1>9. TicketsBut(t) /\ ticket'[t] = p BY <1>4, <1>7, <1>8, <1>t, SetTicketFrame DEF TicketsBut
<1>10. deferrals' \in [Tickets -> Nat] BY <1>4, <1>6, <1>t
<1>11. Postpones(w, t) BY <1>1, <1>2, <1>3, <1>5, <1>8, <1>9, <1>10 DEF Postpones, SameOwner
<1> QED BY <1>11

(* ... a fault drops the job or delivers it again, ... *)
LEMMA KindOfFault ==
  ASSUME RoutingTypeOK, NEW w \in Routers, RouteFail(w) \/ \E dies \in BOOLEAN : Stall(w, dies)
  PROVE  Drops(w) \/ Repeats(w)
<1>t. /\ router \in [Routers -> RouterStates] /\ job \in [Tickets -> RouteJobs] /\ faults \in 0..MaxFaults
  BY RoutingTypeParts DEF RoutingTypes
<1>f. Fault => faults' \in 0..MaxFaults /\ faults' > 0 /\ faults' >= faults /\ peopleActs' = peopleActs
  BY <1>t, CapAssumption DEF Fault
<1>1. CASE RouteFail(w)
  <2>1. /\ router[w].pc # "idle" /\ Fault /\ Finish(w)
        /\ UNCHANGED <<ticket, desk, peopleVars, cursor, events, routingGhosts>>
    BY <1>1 DEF RouteFail, RouterAt
  <2>2. Ends(w) BY <2>1, <1>t, FinishFrame DEF Ends, RoutersBut
  <2> QED BY <1>f, <2>1, <2>2 DEF Drops
<1>2. ASSUME NEW dies \in BOOLEAN, Stall(w, dies) PROVE Repeats(w)
  <2>1. /\ Fault /\ UNCHANGED <<ticket, desk, peopleVars, cursor, events, routingGhosts>>
        /\ IF dies THEN SetRouter(w, IdleRouter) ELSE UNCHANGED router
        /\ job' = [t \in Tickets |-> IF WorksOn(w, t) /\ job[t] = "running" THEN "queued" ELSE job[t]]
    BY <1>2 DEF Stall
  <2>2. job' \in [Tickets -> RouteJobs] /\ \A t \in Tickets : job'[t] = job[t] \/ job'[t] = "queued"
    BY <2>1, <1>t DEF RouteJobs
  <2>3. RoutersBut(w) /\ (router'[w] = router[w] \/ router'[w] = IdleRouter)
    <3>1. CASE dies BY <3>1, <2>1, <1>t, SetRouterFrame, ConstantRows DEF RoutersBut
    <3>2. CASE ~dies BY <3>2, <2>1, <1>t DEF RoutersBut
    <3> QED BY <3>1, <3>2
  <2> QED BY <1>f, <2>1, <2>2, <2>3 DEF Repeats
<1> QED BY <1>1, <1>2

(* ... and people do one of the rest. *)
LEMMA KindOfPeople ==
  ASSUME RoutingTypeOK, PeopleStep
  PROVE  RoutingKind
<1>t. /\ ticket \in [Tickets -> RoutedRows] /\ job \in [Tickets -> RouteJobs]
      /\ desk \in [t : SUBSET Tickets, to : Columns] /\ (desk = NoRequest \/ \E t \in Tickets : desk.t = {t})
      /\ removed \subseteq Agents /\ here \subseteq Agents \ removed /\ cursor \in Owners
      /\ peopleActs \in 0..MaxPeopleActs /\ \A t \in Tickets : TicketIsTimed(ticket[t])
  BY RoutingTypeParts DEF RoutingTypes
<1>a. PeopleAct => peopleActs' \in 0..MaxPeopleActs /\ faults' = faults
  BY <1>t, CapAssumption DEF PeopleAct
<1>1. ASSUME NEW t \in Tickets, NEW user \in Owners, NEW team \in BOOLEAN, AssignRequest(t, user, team)
      PROVE  Waits
  <2>1. /\ PeopleAct /\ desk' = [t |-> {t}, to |-> [user |-> user, team |-> team]]
        /\ UNCHANGED <<ticket, job, router, peopleVars, cursor, events, routingGhosts>>
    BY <1>1 DEF AssignRequest
  <2>2. desk' \in [t : SUBSET Tickets, to : Columns] /\ desk'.t = {t} BY <2>1 DEF Columns
  <2> QED BY <2>1, <2>2, <1>a, <1>t DEF Waits, peopleVars
<1>2. ASSUME WriteAssignment PROVE \E t \in Tickets : Writes(t)
  <2>1. PICK t \in Tickets : desk.t = {t} BY <1>2, <1>t DEF WriteAssignment
  <2>2. PICK st : st = IF desk.to = Unowned THEN "pending" ELSE "manual" OBVIOUS
  <2>3. st \in RoutingStates \ {"deferred"} /\ desk.to \in Columns BY <2>2, <1>t DEF RoutingStates
  <2>4. /\ SetTicket(t, Placed(t, desk.to, st))
        /\ crossed' = Crosses(t) /\ outdated' = Outdates(t, desk.to)
        /\ by' = [by EXCEPT ![t] = IF desk.to = Unowned THEN "released" ELSE "person"]
        /\ desk' = NoRequest
        /\ UNCHANGED <<job, router, peopleVars, cursor, deferrals, routingBounds>>
    BY <1>2, <2>1, <2>2 DEF WriteAssignment
  <2>5. PICK p : p = Placed(t, desk.to, st) OBVIOUS
  <2>6. /\ p \in RoutedRows /\ p.active = ticket[t].active /\ p.user = desk.to.user
        /\ p.team = desk.to.team /\ p.routing = st /\ TicketIsTimed(p)
    BY <2>3, <2>5, <1>t, PlacedFields
  <2>7. TicketsBut(t) /\ ticket'[t] = p BY <2>4, <2>5, <2>6, <1>t, SetTicketFrame DEF TicketsBut
  <2>8. Writes(t) BY <2>1, <2>2, <2>4, <2>6, <2>7 DEF Writes
  <2> QED BY <2>8
<1>3. ASSUME NEW t \in Tickets, FinishTicket(t) PROVE Closes(t)
  <2>1. /\ PeopleAct /\ SetTicket(t, [ticket[t] EXCEPT !.active = FALSE])
        /\ UNCHANGED <<job, router, desk, peopleVars, cursor, events, routingGhosts>>
    BY <1>3 DEF FinishTicket
  <2>2. PICK r : r = ticket[t] OBVIOUS
  <2>3. r \in RoutedRows /\ TicketIsTimed(r) BY <2>2, <1>t
  <2>4. PICK p : p = [r EXCEPT !.active = FALSE] OBVIOUS
  <2>5. /\ p \in RoutedRows /\ p.active = FALSE /\ p.user = r.user /\ p.team = r.team
        /\ p.routing = r.routing /\ p.since = r.since
    BY <2>3, <2>4 DEF RoutedRows
  <2>6. TicketsBut(t) /\ ticket'[t] = p BY <2>1, <2>2, <2>4, <2>5, <1>t, SetTicketFrame DEF TicketsBut
  <2>7. TicketIsTimed(p) BY <2>3, <2>5 DEF TicketIsTimed
  <2> QED BY <2>1, <2>2, <2>5, <2>6, <2>7, <1>a DEF Closes, SameOwner
<1>4. ASSUME NEW t \in Tickets, RequestRoutingIfUnowned(t) PROVE Asks
  <2>1. /\ PeopleAct /\ job' = [job EXCEPT ![t] = IF @ = "none" THEN "queued" ELSE @]
        /\ UNCHANGED <<ticket, router, desk, peopleVars, cursor, events, routingGhosts>>
    BY <1>4 DEF RequestRoutingIfUnowned, EnqueueRoute, routingGhosts
  <2>2. /\ job' \in [Tickets -> RouteJobs]
        /\ \A u \in Tickets : job'[u] = job[u] \/ (job[u] = "none" /\ job'[u] = "queued")
    <3>1. PICK j : j = IF job[t] = "none" THEN "queued" ELSE job[t] OBVIOUS
    <3>2. job' = [job EXCEPT ![t] = j] BY <2>1, <3>1
    <3>3. j \in RouteJobs BY <3>1, <1>t DEF RouteJobs
    <3>4. job' \in [Tickets -> RouteJobs] BY <3>2, <3>3, <1>t
    <3>5. ASSUME NEW u \in Tickets PROVE job'[u] = job[u] \/ (job[u] = "none" /\ job'[u] = "queued")
      <4>1. CASE u = t
        <5>1. job'[u] = j BY <3>2, <4>1, <1>t
        <5> QED BY <5>1, <4>1, <3>1
      <4>2. CASE u # t BY <3>2, <4>2, <1>t
      <4> QED BY <4>1, <4>2
    <3> QED BY <3>4, <3>5
  <2> QED BY <2>1, <2>2, <1>a DEF Asks
<1>5. ASSUME NEW a \in Agents, ComeOrGo(a) PROVE Waits
  <2>1. /\ PeopleAct /\ here' = (IF a \in here THEN here \ {a} ELSE here \cup {a}) /\ a \notin removed
        /\ UNCHANGED <<ticket, job, router, desk, removed, cursor, events, routingGhosts>>
    BY <1>5 DEF ComeOrGo
  <2> QED BY <2>1, <1>a, <1>t DEF Waits
<1>6. ASSUME NEW a \in Agents, RemoveUser(a) PROVE Removes(a)
  <2>1. /\ PeopleAct /\ a \notin removed /\ ticket' = ReleasedFrom(a)
        /\ cursor' = (IF cursor = a THEN NoAgent ELSE cursor)
        /\ removed' = removed \cup {a} /\ here' = here \ {a}
        /\ UNCHANGED <<job, router, desk, events, routingGhosts>>
    BY <1>6 DEF RemoveUser
  <2>2. cursor' \in Owners BY <2>1, <1>t, ConstantRows
  <2>3. ASSUME NEW t \in Tickets
        PROVE  /\ ticket'[t] \in RoutedRows
               /\ ticket'[t].active = ticket[t].active /\ ticket'[t].team = ticket[t].team
               /\ ticket'[t].routing = ticket[t].routing /\ TicketIsTimed(ticket'[t])
               /\ ticket'[t].user = IF ticket[t].user = a THEN NoAgent ELSE ticket[t].user
    <3>1. PICK r : r = ticket[t] OBVIOUS
    <3>2. r \in RoutedRows /\ TicketIsTimed(r) BY <3>1, <1>t
    <3>3. PICK p : p = [r EXCEPT !.user = NoAgent] OBVIOUS
    <3>4. /\ p \in RoutedRows /\ p.active = r.active /\ p.user = NoAgent /\ p.team = r.team
          /\ p.routing = r.routing /\ p.since = r.since
      BY <3>2, <3>3, ConstantRows DEF RoutedRows
    <3>5. ticket'[t] = IF r.user = a THEN p ELSE r BY <2>1, <3>1, <3>3 DEF ReleasedFrom
    <3>6. TicketIsTimed(p) BY <3>2, <3>4 DEF TicketIsTimed
    <3> QED BY <3>1, <3>2, <3>4, <3>5, <3>6
  <2>4. ticket' \in [Tickets -> RoutedRows]
    <3>1. ticket' = [t \in Tickets |-> ticket'[t]] BY <2>1 DEF ReleasedFrom
    <3> QED BY <3>1, <2>3
  <2> QED BY <2>1, <2>2, <2>3, <2>4, <1>a DEF Removes
<1> QED BY <1>1, <1>2, <1>3, <1>4, <1>5, <1>6 DEF PeopleStep, RoutingKind

(* Every step of the specification is of one of the kinds. *)
LEMMA RoutingKinds ==
  ASSUME RoutingTypeOK, [RoutingNext]_routingVars
  PROVE  RoutingKind
<1>1. ASSUME NEW w \in Routers, RouterStep(w) PROVE RoutingKind
  <2>1. \A t \in Tickets : RouteTicket(w, t) => RoutingKind BY KindOfTaking DEF RoutingKind
  <2>2. MatchRules(w) \/ ResolveFallback(w) \/ AdvanceCursor(w) => RoutingKind BY KindOfThinking DEF RoutingKind
  <2>3. Defer(w) => RoutingKind BY KindOfDeferring DEF RoutingKind
  <2>4. \A source \in {"rule", "rotation"} : Assign(w, source) => RoutingKind BY KindOfPlacing DEF RoutingKind
  <2> QED BY <1>1, <2>1, <2>2, <2>3, <2>4 DEF RouterStep
<1>2. ASSUME NEW w \in Routers, RouteFail(w) \/ \E dies \in BOOLEAN : Stall(w, dies) PROVE RoutingKind
  BY <1>2, KindOfFault DEF RoutingKind
<1>3. PeopleStep => RoutingKind BY KindOfPeople
<1>4. CASE UNCHANGED routingVars
  <2>1. Waits BY <1>4, RoutingTypeParts DEF RoutingTypes, Waits, routingVars, events, routingGhosts
  <2> QED BY <2>1 DEF RoutingKind
<1> QED BY <1>1, <1>2, <1>3, <1>4 DEF RoutingNext

-----------------------------------------------------------------------------
(* The inductive invariant. *)

(* The routers that are about to give a to a ticket by rotation. *)
Promised(a) == {w \in Routers : router[w].pc \in Rotating /\ router[w].to.user = a}
(* What is placed and what is promised, together. *)
RotationAccount ==
  \A a \in Agents : Cardinality(Rotated(a)) + Cardinality(Promised(a)) <= Cap + Cardinality(Routers) - 1
(* A ticket that somebody holds while a router works on it is marked so. *)
WorkIsCrossed ==
  \A w \in Routers, t \in Tickets : WorksOn(w, t) /\ OwnerOf(t) # Unowned => t \in crossed
(* Without a fault only the router whose job it is works on a ticket, alone. *)
WorkIsRunning ==
  \A w \in Routers, t \in Tickets : WorksOn(w, t) => job[t] = "running" \/ faults > 0
WorkIsAlone ==
  \A v, w \in Routers, t \in Tickets : WorksOn(v, t) /\ WorksOn(w, t) => v = w \/ faults > 0
PendingIsUnowned == \A t \in Tickets : ticket[t].routing = "pending" => OwnerOf(t) = Unowned
HeldIsDecided ==
  \A t \in Tickets : job[t] = "held" /\ ticket[t].active /\ ticket[t].routing = "pending"
                       => faults > 0 \/ by[t] = "released"
DeferredIsCrossed ==
  \A t \in Tickets : ticket[t].routing = "deferred" /\ OwnerOf(t) # Unowned => t \in crossed

RoutingIInv ==
  /\ RoutingTypeOK /\ RotationAccount /\ WorkIsCrossed /\ WorkIsRunning /\ WorkIsAlone
  /\ PendingIsUnowned /\ HeldIsDecided /\ DeferredIsCrossed /\ RemovedHoldsNothing

(* The types after a step. *)
LEMMA RoutingTypesAfter ==
  ASSUME RoutingTypes, RoutingKind
  PROVE  RoutingTypes'
<1> USE DEF peopleVars, events, routingGhosts, routingBounds
<1>e. ASSUME NEW w \in Routers, Ends(w)
      PROVE  /\ router' \in [Routers -> RouterStates] /\ \A v \in Routers : RouterIsSound(router'[v])
             /\ job' \in [Tickets -> RouteJobs]
  BY <1>e, ConstantRows DEF RoutingTypes, Ends, RoutersBut
<1>b. ASSUME NEW t \in Tickets, TicketsBut(t), TicketIsTimed(ticket'[t])
      PROVE  ticket' \in [Tickets -> RoutedRows] /\ \A u \in Tickets : TicketIsTimed(ticket'[u])
  BY <1>b DEF RoutingTypes, TicketsBut
<1>c. ASSUME NEW t \in Tickets PROVE (\A to : Outdates(t, to) \subseteq Tickets) /\ Crosses(t) \subseteq Tickets
  BY DEF RoutingTypes, Outdates, Crosses
<1>1. ASSUME NEW w \in Routers, Thinks(w) PROVE RoutingTypes'
  <2>1. router' \in [Routers -> RouterStates] /\ \A v \in Routers : RouterIsSound(router'[v])
    BY <1>1 DEF RoutingTypes, Thinks, RoutersBut, RouterIsSound
  <2> QED BY <1>1, <2>1 DEF Thinks, RoutingTypes
<1>2. ASSUME NEW w \in Routers, Drops(w) PROVE RoutingTypes'
  <2>1. Ends(w) BY <1>2 DEF Drops
  <2> QED BY <1>2, <2>1, <1>e DEF Drops, RoutingTypes
<1>3. ASSUME NEW w \in Routers, Repeats(w) PROVE RoutingTypes'
  <2>1. router' \in [Routers -> RouterStates] /\ \A v \in Routers : RouterIsSound(router'[v])
    BY <1>3, ConstantRows DEF RoutingTypes, Repeats, RoutersBut
  <2> QED BY <1>3, <2>1 DEF Repeats, RoutingTypes
<1>4. ASSUME NEW w \in Routers, NEW t \in Tickets, Takes(w, t) PROVE RoutingTypes'
  <2>1. router' \in [Routers -> RouterStates] /\ \A v \in Routers : RouterIsSound(router'[v])
    BY <1>4 DEF RoutingTypes, Takes, RoutersBut, RouterIsSound
  <2>2. job' \in [Tickets -> RouteJobs] BY <1>4 DEF RoutingTypes, Takes, RouteJobs
  <2> QED BY <1>4, <2>1, <2>2 DEF Takes, RoutingTypes
<1>5. ASSUME NEW w \in Routers, NEW t \in Tickets, Postpones(w, t) PROVE RoutingTypes'
  <2>1. Ends(w) /\ TicketsBut(t) /\ TicketIsTimed(ticket'[t]) BY <1>5 DEF Postpones
  <2>2. ticket' \in [Tickets -> RoutedRows] /\ \A u \in Tickets : TicketIsTimed(ticket'[u]) BY <2>1, <1>b
  <2> QED BY <1>5, <2>1, <2>2, <1>e DEF Postpones, RoutingTypes
<1>6. ASSUME NEW w \in Routers, NEW t \in Tickets, NEW source \in {"rule", "rotation"}, Places(w, t, source)
      PROVE  RoutingTypes'
  <2>1. Ends(w) /\ TicketsBut(t) /\ TicketIsTimed(ticket'[t]) BY <1>6 DEF Places
  <2>2. ticket' \in [Tickets -> RoutedRows] /\ \A u \in Tickets : TicketIsTimed(ticket'[u]) BY <2>1, <1>b
  <2>3. by' \in [Tickets -> Sources] BY <1>6 DEF Places, RoutingTypes, Sources
  <2>4. crossed' \subseteq Tickets /\ outdated' \subseteq Tickets BY <1>6, <1>c DEF Places, RoutingTypes
  <2> QED BY <1>6, <2>1, <2>2, <2>3, <2>4, <1>e DEF Places, RoutingTypes
<1>7. ASSUME NEW t \in Tickets, Skips(t) PROVE RoutingTypes'
  <2>1. job' \in [Tickets -> RouteJobs] BY <1>7 DEF RoutingTypes, Skips, RouteJobs
  <2> QED BY <1>7, <2>1 DEF Skips, RoutingTypes
<1>8. ASSUME NEW t \in Tickets, Writes(t) PROVE RoutingTypes'
  <2>1. TicketsBut(t) /\ TicketIsTimed(ticket'[t]) BY <1>8 DEF Writes
  <2>2. ticket' \in [Tickets -> RoutedRows] /\ \A u \in Tickets : TicketIsTimed(ticket'[u]) BY <2>1, <1>b
  <2>3. by' \in [Tickets -> Sources] BY <1>8 DEF Writes, RoutingTypes, Sources
  <2>4. crossed' \subseteq Tickets /\ outdated' \subseteq Tickets BY <1>8, <1>c DEF Writes
  <2> QED BY <1>8, <2>2, <2>3, <2>4, ConstantRows DEF Writes, RoutingTypes
<1>9. ASSUME NEW t \in Tickets, Closes(t) PROVE RoutingTypes'
  <2>1. TicketsBut(t) /\ TicketIsTimed(ticket'[t]) BY <1>9 DEF Closes
  <2>2. ticket' \in [Tickets -> RoutedRows] /\ \A u \in Tickets : TicketIsTimed(ticket'[u]) BY <2>1, <1>b
  <2> QED BY <1>9, <2>2 DEF Closes, RoutingTypes
<1>10. ASSUME NEW a \in Agents, Removes(a) PROVE RoutingTypes'
  BY <1>10 DEF Removes, RoutingTypes
<1>11. CASE Asks BY <1>11 DEF Asks, RoutingTypes
<1>12. CASE Waits BY <1>12 DEF Waits, RoutingTypes
<1> QED BY <1>1, <1>2, <1>3, <1>4, <1>5, <1>6, <1>7, <1>8, <1>9, <1>10, <1>11, <1>12 DEF RoutingKind

(* Who owns a ticket after a step, by its columns. *)
LEMMA OwnerFieldsAfter ==
  ASSUME NEW t \in Tickets
  PROVE  OwnerOf(t)' = Unowned <=> ticket'[t].user = NoAgent /\ ticket'[t].team = FALSE
BY DEF OwnerOf, Unowned

(* A ticket that is taken while a router works on it is marked as crossed.   *)
LEMMA WorkIsCrossedAfter ==
  ASSUME RoutingTypes, RoutingTypes', WorkIsCrossed, RoutingKind
  PROVE  WorkIsCrossed'
<1> SUFFICES ASSUME NEW v \in Routers, NEW u \in Tickets, router'[v].t = {u}, OwnerOf(u)' # Unowned
             PROVE  u \in crossed'
  BY DEF WorkIsCrossed, WorksOn
<1> USE DEF peopleVars, events, routingGhosts, routingBounds
<1>o. /\ OwnerOf(u) = Unowned <=> ticket[u].user = NoAgent /\ ticket[u].team = FALSE
      /\ OwnerOf(u)' = Unowned <=> ticket'[u].user = NoAgent /\ ticket'[u].team = FALSE
  BY OwnerFields, OwnerFieldsAfter
<1>i. router[v].t = {u} /\ OwnerOf(u) # Unowned => u \in crossed BY DEF WorkIsCrossed, WorksOn
<1>e. ASSUME NEW w \in Routers, Ends(w) PROVE v # w /\ router[v].t = {u}
  <2>1. IdleRouter.t # {u} BY ConstantRows
  <2> QED BY <1>e, <2>1 DEF Ends, RoutersBut
<1>1. ASSUME NEW w \in Routers, Thinks(w) PROVE u \in crossed'
  BY <1>1, <1>o, <1>i DEF Thinks, RoutersBut
<1>2. ASSUME NEW w \in Routers, Drops(w) PROVE u \in crossed'
  <2>1. Ends(w) BY <1>2 DEF Drops
  <2> QED BY <1>2, <2>1, <1>e, <1>o, <1>i DEF Drops
<1>3. ASSUME NEW w \in Routers, Repeats(w) PROVE u \in crossed'
  <2>1. IdleRouter.t # {u} BY ConstantRows
  <2>2. router[v].t = {u} BY <1>3, <2>1 DEF Repeats, RoutersBut
  <2> QED BY <1>3, <2>2, <1>o, <1>i DEF Repeats
<1>4. ASSUME NEW w \in Routers, NEW t \in Tickets, Takes(w, t) PROVE u \in crossed'
  <2>1. CASE v = w
    <3>1. u = t BY <2>1, <1>4 DEF Takes
    <3> QED BY <3>1, <1>4, <1>o DEF Takes
  <2>2. CASE v # w BY <2>2, <1>4, <1>o, <1>i DEF Takes, RoutersBut
  <2> QED BY <2>1, <2>2
<1>5. ASSUME NEW w \in Routers, NEW t \in Tickets, Postpones(w, t) PROVE u \in crossed'
  <2>1. router[v].t = {u} BY <1>5, <1>e DEF Postpones
  <2>2. ticket'[u].user = ticket[u].user /\ ticket'[u].team = ticket[u].team
    BY <1>5 DEF Postpones, TicketsBut, SameOwner
  <2> QED BY <1>5, <2>1, <2>2, <1>o, <1>i DEF Postpones
<1>6. ASSUME NEW w \in Routers, NEW t \in Tickets, NEW source \in {"rule", "rotation"}, Places(w, t, source)
      PROVE  u \in crossed'
  <2>1. router[v].t = {u} /\ v # w BY <1>6, <1>e DEF Places
  <2>2. CASE u = t BY <1>6, <2>1, <2>2 DEF Places, WorksOn
  <2>3. CASE u # t BY <1>6, <2>1, <2>3, <1>o, <1>i DEF Places, TicketsBut
  <2> QED BY <2>2, <2>3
<1>7. ASSUME NEW t \in Tickets, Skips(t) PROVE u \in crossed'
  BY <1>7, <1>o, <1>i DEF Skips
<1>8. ASSUME NEW t \in Tickets, Writes(t) PROVE u \in crossed'
  <2>1. router[v].t = {u} BY <1>8 DEF Writes
  <2>2. CASE u = t BY <1>8, <2>1, <2>2 DEF Writes, Crosses, WorksOn
  <2>3. CASE u # t BY <1>8, <2>1, <2>3, <1>o, <1>i DEF Writes, TicketsBut, Crosses
  <2> QED BY <2>2, <2>3
<1>9. ASSUME NEW t \in Tickets, Closes(t) PROVE u \in crossed'
  BY <1>9, <1>o, <1>i DEF Closes, TicketsBut, SameOwner
<1>10. ASSUME NEW a \in Agents, Removes(a) PROVE u \in crossed'
  BY <1>10, <1>o, <1>i DEF Removes
<1>11. CASE Asks BY <1>11, <1>o, <1>i DEF Asks
<1>12. CASE Waits BY <1>12, <1>o, <1>i DEF Waits
<1> QED BY <1>1, <1>2, <1>3, <1>4, <1>5, <1>6, <1>7, <1>8, <1>9, <1>10, <1>11, <1>12 DEF RoutingKind

(* Without a fault the job of a router runs, and no other router has it.     *)
LEMMA WorkIsRunningAfter ==
  ASSUME RoutingTypes, RoutingTypes', WorkIsRunning, WorkIsAlone, RoutingKind
  PROVE  WorkIsRunning' /\ WorkIsAlone'
<1> USE DEF peopleVars, events, routingGhosts, routingBounds
<1>f. faults \in Nat /\ faults' \in Nat BY CapAssumption DEF RoutingTypes
<1>k. job \in [Tickets -> RouteJobs] BY DEF RoutingTypes
<1>r. \A w \in Routers, t \in Tickets : router[w].t = {t} => job[t] = "running" \/ faults > 0
  BY DEF WorkIsRunning, WorksOn
<1>a. \A v, w \in Routers, t \in Tickets : router[v].t = {t} /\ router[w].t = {t} => v = w \/ faults > 0
  BY DEF WorkIsAlone, WorksOn
<1>d. \A t \in Tickets : IdleRouter.t # {t} BY ConstantRows
<1> SUFFICES ASSUME faults' = 0
             PROVE  \A v \in Routers, u \in Tickets : router'[v].t = {u} =>
                      job'[u] = "running" /\ \A w \in Routers : router'[w].t = {u} => v = w
  BY <1>f DEF WorkIsRunning, WorkIsAlone, WorksOn
<1> DEFINE Alone == \A v \in Routers, u \in Tickets : router'[v].t = {u} =>
                      job'[u] = "running" /\ \A w \in Routers : router'[w].t = {u} => v = w
<1>e. ASSUME NEW w \in Routers, Ends(w), faults' >= faults PROVE Alone
  <2>0. faults = 0 BY <1>e, <1>f
  <2> SUFFICES ASSUME NEW v \in Routers, NEW u \in Tickets, router'[v].t = {u}
               PROVE  job'[u] = "running" /\ \A x \in Routers : router'[x].t = {u} => v = x
    OBVIOUS
  <2>1. \A x \in Routers : router'[x].t = {u} => x # w /\ router[x].t = {u}
    BY <1>e, <1>d DEF Ends, RoutersBut
  <2>2. job[u] = "running" /\ router[w].t # {u} BY <2>0, <2>1, <1>r, <1>a
  <2>3. job'[u] = "running" BY <1>e, <2>2 DEF Ends
  <2> QED BY <2>0, <2>1, <2>3, <1>a
<1>1. ASSUME NEW w \in Routers, Thinks(w) PROVE Alone
  <2>1. faults = 0 /\ job' = job BY <1>1 DEF Thinks
  <2>2. \A x \in Routers : router'[x].t = router[x].t BY <1>1 DEF Thinks, RoutersBut
  <2> QED BY <2>1, <2>2, <1>r, <1>a
<1>2. ASSUME NEW w \in Routers, Drops(w) PROVE Alone
  BY <1>2, <1>e DEF Drops
<1>3. ASSUME NEW w \in Routers, Repeats(w) PROVE Alone
  BY <1>3 DEF Repeats
<1>4. ASSUME NEW w \in Routers, NEW t \in Tickets, Takes(w, t) PROVE Alone
  <2>1. faults = 0 /\ job[t] = "queued" /\ job' = [job EXCEPT ![t] = "running"] BY <1>4 DEF Takes
  <2>2. \A x \in Routers : router[x].t # {t} BY <2>1, <1>r
  <2>3. /\ router'[w].t = {t} /\ \A x \in Routers \ {w} : router'[x].t = router[x].t
    BY <1>4 DEF Takes, RoutersBut
  <2>4. job'[t] = "running" /\ \A u \in Tickets \ {t} : job'[u] = job[u] BY <2>1, <1>k
  <2> SUFFICES ASSUME NEW v \in Routers, NEW u \in Tickets, router'[v].t = {u}
               PROVE  job'[u] = "running" /\ \A x \in Routers : router'[x].t = {u} => v = x
    OBVIOUS
  <2>5. CASE u = t BY <2>2, <2>3, <2>4, <2>5
  <2>6. CASE u # t
    <3>1. {u} # {t} BY <2>6
    <3>2. v # w /\ \A x \in Routers : router'[x].t = {u} => x # w BY <2>3, <3>1
    <3>3. router[v].t = {u} /\ \A x \in Routers : router'[x].t = {u} => router[x].t = {u}
      BY <2>3, <3>2
    <3> QED BY <2>1, <2>4, <2>6, <3>3, <1>r, <1>a
  <2> QED BY <2>5, <2>6
<1>5. ASSUME NEW w \in Routers, NEW t \in Tickets, Postpones(w, t) PROVE Alone
  <2>1. Ends(w) /\ faults' >= faults BY <1>5, <1>f DEF Postpones
  <2> QED BY <2>1, <1>e
<1>6. ASSUME NEW w \in Routers, NEW t \in Tickets, NEW source \in {"rule", "rotation"}, Places(w, t, source)
      PROVE  Alone
  <2>1. Ends(w) /\ faults' >= faults BY <1>6, <1>f DEF Places
  <2> QED BY <2>1, <1>e
<1>7. ASSUME NEW t \in Tickets, Skips(t) PROVE Alone
  <2>1. faults = 0 /\ job[t] = "queued" /\ job' = [job EXCEPT ![t] = "held"] /\ router' = router
    BY <1>7 DEF Skips
  <2>2. \A u \in Tickets : job[u] = "running" => job'[u] = "running" BY <2>1, <1>k
  <2> QED BY <2>1, <2>2, <1>r, <1>a
<1>8. ASSUME NEW t \in Tickets, Writes(t) PROVE Alone
  BY <1>8, <1>r, <1>a DEF Writes
<1>9. ASSUME NEW t \in Tickets, Closes(t) PROVE Alone
  BY <1>9, <1>r, <1>a DEF Closes
<1>10. ASSUME NEW a \in Agents, Removes(a) PROVE Alone
  BY <1>10, <1>r, <1>a DEF Removes
<1>11. CASE Asks
  <2>1. faults = 0 /\ router' = router BY <1>11 DEF Asks
  <2>2. \A u \in Tickets : job[u] = "running" => job'[u] = "running" BY <1>11 DEF Asks
  <2> QED BY <2>1, <2>2, <1>r, <1>a
<1>12. CASE Waits
  <2>1. faults = 0 /\ router' = router /\ job' = job BY <1>12 DEF Waits
  <2> QED BY <2>1, <1>r, <1>a
<1> QED BY <1>1, <1>2, <1>3, <1>4, <1>5, <1>6, <1>7, <1>8, <1>9, <1>10, <1>11, <1>12 DEF RoutingKind

(* The verdicts stay decided. *)
LEMMA VerdictsAfter ==
  ASSUME RoutingTypes, RoutingTypes', WorkIsCrossed, WorkIsRunning, PendingIsUnowned, HeldIsDecided,
         DeferredIsCrossed, RoutingKind
  PROVE  PendingIsUnowned' /\ HeldIsDecided' /\ DeferredIsCrossed'
<1> USE DEF peopleVars, events, routingGhosts, routingBounds
<1>f. faults \in Nat /\ faults' \in Nat BY CapAssumption DEF RoutingTypes
<1>k. job \in [Tickets -> RouteJobs] /\ by \in [Tickets -> Sources] BY DEF RoutingTypes
<1> DEFINE owned(u) == ~(ticket[u].user = NoAgent /\ ticket[u].team = FALSE)
           owned2(u) == ~(ticket'[u].user = NoAgent /\ ticket'[u].team = FALSE)
           P(u) == ticket'[u].routing = "pending" => ~owned2(u)
           H(u) == job'[u] = "held" /\ ticket'[u].active /\ ticket'[u].routing = "pending"
                     => faults' > 0 \/ by'[u] = "released"
           D(u) == ticket'[u].routing = "deferred" /\ owned2(u) => u \in crossed'
<1>o. \A u \in Tickets : (OwnerOf(u) = Unowned <=> ~owned(u)) /\ (OwnerOf(u)' = Unowned <=> ~owned2(u))
  BY OwnerFields, OwnerFieldsAfter
<1>p. \A u \in Tickets : ticket[u].routing = "pending" => ~owned(u) BY <1>o DEF PendingIsUnowned
<1>h. \A u \in Tickets : job[u] = "held" /\ ticket[u].active /\ ticket[u].routing = "pending"
                           => faults > 0 \/ by[u] = "released"
  BY DEF HeldIsDecided
<1>d. \A u \in Tickets : ticket[u].routing = "deferred" /\ owned(u) => u \in crossed
  BY <1>o DEF DeferredIsCrossed
<1>c. \A w \in Routers, u \in Tickets : router[w].t = {u} /\ owned(u) => u \in crossed
  BY <1>o DEF WorkIsCrossed, WorksOn
<1>z. SUFFICES ASSUME NEW u \in Tickets PROVE P(u) /\ H(u) /\ D(u)
  BY <1>o DEF PendingIsUnowned, HeldIsDecided, DeferredIsCrossed
(* A ticket that keeps its row keeps what is said of it, if its job does too. *)
<1>s. ASSUME ticket'[u].active => ticket[u].active, ticket'[u].routing = ticket[u].routing,
             owned2(u) => owned(u), by'[u] = by[u], crossed \subseteq crossed', faults > 0 => faults' > 0,
             job'[u] = "held" => \/ job[u] = "held"
                                 \/ ~ticket[u].active \/ owned(u) \/ faults' > 0
      PROVE  P(u) /\ H(u) /\ D(u)
  <2>1. P(u) BY <1>s, <1>p
  <2>2. D(u) BY <1>s, <1>d
  <2>3. H(u) BY <1>s, <1>h, <1>p
  <2> QED BY <2>1, <2>2, <2>3
<1> HIDE DEF P, H, D
<1>1. ASSUME NEW w \in Routers, Thinks(w) PROVE P(u) /\ H(u) /\ D(u)
  <2>1. UNCHANGED <<ticket, by, crossed, faults, job>> BY <1>1 DEF Thinks
  <2> QED BY <2>1, <1>s
<1>2. ASSUME NEW w \in Routers, Drops(w) PROVE P(u) /\ H(u) /\ D(u)
  <2>1. job'[u] = "held" => job[u] = "held" \/ router[w].t = {u} BY <1>2 DEF Drops, Ends
  <2>2. router[w].t = {u} => faults' > 0 \/ owned(u) BY <1>2, <1>o DEF Drops
  <2>3. UNCHANGED <<ticket, by, crossed>> /\ faults' >= faults BY <1>2 DEF Drops
  <2>4. faults > 0 => faults' > 0 BY <2>3, <1>f
  <2> QED BY <2>1, <2>2, <2>3, <2>4, <1>s
<1>3. ASSUME NEW w \in Routers, Repeats(w) PROVE P(u) /\ H(u) /\ D(u)
  <2>1. faults' > 0 /\ UNCHANGED <<ticket, by, crossed>> BY <1>3 DEF Repeats
  <2>2. H(u) BY <2>1 DEF H
  <2>3. P(u) BY <2>1, <1>p DEF P
  <2>4. D(u) BY <2>1, <1>d DEF D
  <2> QED BY <2>2, <2>3, <2>4
<1>4. ASSUME NEW w \in Routers, NEW t \in Tickets, Takes(w, t) PROVE P(u) /\ H(u) /\ D(u)
  <2>1. job'[u] = "held" => job[u] = "held" BY <1>4, <1>k DEF Takes
  <2>2. UNCHANGED <<ticket, by, crossed, faults>> BY <1>4 DEF Takes
  <2> QED BY <2>1, <2>2, <1>s
<1>5. ASSUME NEW w \in Routers, NEW t \in Tickets, Postpones(w, t) PROVE P(u) /\ H(u) /\ D(u)
  <2>1. UNCHANGED <<by, crossed, faults>> /\ router[w].t = {t} BY <1>5 DEF Postpones
  <2>2. CASE u = t
    <3>1. ticket'[u].routing = "deferred" /\ (owned2(u) => owned(u)) BY <1>5, <2>2 DEF Postpones, SameOwner
    <3>2. owned(u) => u \in crossed BY <2>1, <2>2, <1>c
    <3> QED BY <2>1, <3>1, <3>2 DEF P, H, D
  <2>3. CASE u # t
    <3>1. ticket'[u] = ticket[u] BY <1>5, <2>3 DEF Postpones, TicketsBut
    <3>2. {t} # {u} BY <2>3
    <3>3. job'[u] = job[u] BY <1>5, <2>1, <3>2 DEF Postpones, Ends
    <3> QED BY <2>1, <3>1, <3>3, <1>s
  <2> QED BY <2>2, <2>3
<1>6. ASSUME NEW w \in Routers, NEW t \in Tickets, NEW source \in {"rule", "rotation"}, Places(w, t, source)
      PROVE  P(u) /\ H(u) /\ D(u)
  <2>1. faults' = faults /\ crossed \subseteq crossed' /\ router[w].t = {t} BY <1>6 DEF Places
  <2>2. CASE u = t
    <3>1. ticket'[u].routing = "assigned" BY <1>6, <2>2 DEF Places
    <3> QED BY <3>1 DEF P, H, D
  <2>3. CASE u # t
    <3>1. ticket'[u] = ticket[u] BY <1>6, <2>3 DEF Places, TicketsBut
    <3>2. {t} # {u} BY <2>3
    <3>3. job'[u] = job[u] BY <1>6, <2>1, <3>2 DEF Places, Ends
    <3>4. by'[u] = by[u] BY <1>6, <2>3, <1>k DEF Places
    <3> QED BY <2>1, <3>1, <3>3, <3>4, <1>s
  <2> QED BY <2>2, <2>3
<1>7. ASSUME NEW t \in Tickets, Skips(t) PROVE P(u) /\ H(u) /\ D(u)
  <2>1. UNCHANGED <<ticket, by, crossed, faults>> BY <1>7 DEF Skips
  <2>2. CASE u = t BY <1>7, <2>1, <2>2, <1>s, <1>o DEF Skips
  <2>3. CASE u # t
    <3>1. job'[u] = job[u] BY <1>7, <2>3, <1>k DEF Skips
    <3> QED BY <3>1, <2>1, <1>s
  <2> QED BY <2>2, <2>3
<1>8. ASSUME NEW t \in Tickets, Writes(t) PROVE P(u) /\ H(u) /\ D(u)
  <2>1. UNCHANGED <<job, faults>> /\ crossed \subseteq crossed' BY <1>8 DEF Writes, Crosses
  <2>2. CASE u = t
    <3>1. CASE desk.to = Unowned
      <4>1. ticket'[u].routing = "pending" /\ ~owned2(u) /\ by'[u] = "released"
        BY <1>8, <2>2, <3>1, <1>k, ConstantRows DEF Writes
      <4> QED BY <4>1 DEF P, H, D
    <3>2. CASE desk.to # Unowned
      <4>1. ticket'[u].routing = "manual" BY <1>8, <2>2, <3>2 DEF Writes
      <4> QED BY <4>1 DEF P, H, D
    <3> QED BY <3>1, <3>2
  <2>3. CASE u # t
    <3>1. ticket'[u] = ticket[u] BY <1>8, <2>3 DEF Writes, TicketsBut
    <3>2. by'[u] = by[u] BY <1>8, <2>3, <1>k DEF Writes
    <3> QED BY <2>1, <3>1, <3>2, <1>s
  <2> QED BY <2>2, <2>3
<1>9. ASSUME NEW t \in Tickets, Closes(t) PROVE P(u) /\ H(u) /\ D(u)
  <2>1. UNCHANGED <<job, by, crossed, faults>> BY <1>9 DEF Closes
  <2>2. /\ ticket'[u].active => ticket[u].active
        /\ ticket'[u].routing = ticket[u].routing /\ (owned2(u) => owned(u))
    BY <1>9 DEF Closes, TicketsBut, SameOwner
  <2> QED BY <2>1, <2>2, <1>s
<1>10. ASSUME NEW a \in Agents, Removes(a) PROVE P(u) /\ H(u) /\ D(u)
  <2>1. UNCHANGED <<job, by, crossed, faults>> BY <1>10 DEF Removes
  <2>2. /\ ticket'[u].active => ticket[u].active
        /\ ticket'[u].routing = ticket[u].routing /\ (owned2(u) => owned(u))
    BY <1>10, ConstantRows DEF Removes
  <2> QED BY <2>1, <2>2, <1>s
<1>11. ASSUME Asks PROVE P(u) /\ H(u) /\ D(u)
  <2>1. UNCHANGED <<ticket, by, crossed, faults>> /\ (job'[u] = "held" => job[u] = "held") BY <1>11 DEF Asks
  <2> QED BY <2>1, <1>s
<1>12. ASSUME Waits PROVE P(u) /\ H(u) /\ D(u)
  <2>1. UNCHANGED <<ticket, by, crossed, faults, job>> BY <1>12 DEF Waits
  <2> QED BY <2>1, <1>s
<1> QED BY <1>1, <1>2, <1>3, <1>4, <1>5, <1>6, <1>7, <1>8, <1>9, <1>10, <1>11, <1>12 DEF RoutingKind

(* Only a reading older than the removal gives a removed user something.     *)
LEMMA RemovedHoldsNothingAfter ==
  ASSUME RoutingTypes, RoutingTypes', RemovedHoldsNothing, RoutingKind
  PROVE  RemovedHoldsNothing'
<1> USE DEF peopleVars, events, routingGhosts, routingBounds
<1> SUFFICES ASSUME NEW u \in Tickets, ticket'[u].user \in removed' PROVE u \in outdated'
  BY DEF RemovedHoldsNothing
<1>i. ticket[u].user \in removed => u \in outdated BY DEF RemovedHoldsNothing
<1>1. ASSUME NEW w \in Routers, Thinks(w) \/ Drops(w) \/ Repeats(w) PROVE u \in outdated'
  BY <1>1, <1>i DEF Thinks, Drops, Repeats
<1>2. ASSUME NEW w \in Routers, NEW t \in Tickets, Takes(w, t) \/ Postpones(w, t) PROVE u \in outdated'
  BY <1>2, <1>i DEF Takes, Postpones, TicketsBut, SameOwner
<1>3. ASSUME NEW w \in Routers, NEW t \in Tickets, NEW source \in {"rule", "rotation"}, Places(w, t, source)
      PROVE  u \in outdated'
  BY <1>3, <1>i DEF Places, TicketsBut, Outdates
<1>4. ASSUME NEW t \in Tickets, Skips(t) \/ Closes(t) PROVE u \in outdated'
  BY <1>4, <1>i DEF Skips, Closes, TicketsBut, SameOwner
<1>5. ASSUME NEW t \in Tickets, Writes(t) PROVE u \in outdated'
  BY <1>5, <1>i DEF Writes, TicketsBut, Outdates
<1>6. ASSUME NEW a \in Agents, Removes(a) PROVE u \in outdated'
  <2>1. NoAgent \notin removed' /\ outdated' = outdated
    BY <1>6, ConstantRows DEF Removes, RoutingTypes
  <2> QED BY <1>6, <2>1, <1>i DEF Removes
<1>7. CASE Asks \/ Waits BY <1>7, <1>i DEF Asks, Waits
<1> QED BY <1>1, <1>2, <1>3, <1>4, <1>5, <1>6, <1>7 DEF RoutingKind

(* Subsets of finite sets are finite and no larger. *)
LEMMA SmallerAccount ==
  ASSUME NEW R, NEW S, NEW P, NEW Q, IsFiniteSet(S), IsFiniteSet(Q), R \subseteq S, P \subseteq Q
  PROVE  /\ Cardinality(R) \in Nat /\ Cardinality(P) \in Nat
         /\ Cardinality(S) \in Nat /\ Cardinality(Q) \in Nat
         /\ Cardinality(R) <= Cardinality(S) /\ Cardinality(P) <= Cardinality(Q)
<1>1. IsFiniteSet(R) /\ Cardinality(R) <= Cardinality(S) BY FS_Subset
<1>2. IsFiniteSet(P) /\ Cardinality(P) <= Cardinality(Q) BY FS_Subset
<1> QED BY <1>1, <1>2, FS_CardinalityType

(* The account: what rotation gave an agent plus what routers are about to.  *)
LEMMA RotationAccountAfter ==
  ASSUME RoutingTypes, RoutingTypes', RotationAccount, RoutingKind
  PROVE  RotationAccount'
<1> USE DEF peopleVars, events, routingGhosts, routingBounds
<1> SUFFICES ASSUME NEW a \in Agents
             PROVE  Cardinality(Rotated(a)') + Cardinality(Promised(a)') <= Cap + Cardinality(Routers) - 1
  BY DEF RotationAccount
<1>n. Cap \in Nat /\ Cap > 0 /\ Cardinality(Routers) \in Nat
  BY CapAssumption, FiniteAssumption, FS_CardinalityType
<1>a. a # NoAgent BY ConstantRows
<1>k. by \in [Tickets -> Sources] BY DEF RoutingTypes
<1>1. PICK R : R = Rotated(a) OBVIOUS
<1>2. PICK Q : Q = Promised(a) OBVIOUS
<1>3. PICK R2 : R2 = Rotated(a)' OBVIOUS
<1>4. PICK Q2 : Q2 = Promised(a)' OBVIOUS
<1>5. Cardinality(R) + Cardinality(Q) <= Cap + Cardinality(Routers) - 1
  BY <1>1, <1>2 DEF RotationAccount
<1>6. R \subseteq Tickets /\ R2 \subseteq Tickets BY <1>1, <1>3 DEF Rotated
<1>7. Q \subseteq Routers /\ Q2 \subseteq Routers BY <1>2, <1>4 DEF Promised
<1>8. IsFiniteSet(R) /\ IsFiniteSet(R2) /\ IsFiniteSet(Q) /\ IsFiniteSet(Q2)
  BY <1>6, <1>7, FiniteAssumption, FS_Subset
<1>g. SUFFICES Cardinality(R2) + Cardinality(Q2) <= Cap + Cardinality(Routers) - 1
  BY <1>3, <1>4
<1>r. \A u : u \in R <=> u \in Tickets /\ ticket[u].user = a /\ ticket[u].active /\ by[u] = "rotation"
  BY <1>1 DEF Rotated
<1>s. \A u : u \in R2 <=> u \in Tickets /\ ticket'[u].user = a /\ ticket'[u].active /\ by'[u] = "rotation"
  BY <1>3 DEF Rotated
<1>p. \A v : v \in Q <=> v \in Routers /\ router[v].pc \in Rotating /\ router[v].to.user = a
  BY <1>2 DEF Promised
<1>q. \A v : v \in Q2 <=> v \in Routers /\ router'[v].pc \in Rotating /\ router'[v].to.user = a
  BY <1>4 DEF Promised
<1>m. ASSUME R2 \subseteq R, Q2 \subseteq Q
      PROVE  Cardinality(R2) + Cardinality(Q2) <= Cap + Cardinality(Routers) - 1
  <2>1. /\ Cardinality(R2) \in Nat /\ Cardinality(Q2) \in Nat
        /\ Cardinality(R) \in Nat /\ Cardinality(Q) \in Nat
        /\ Cardinality(R2) <= Cardinality(R) /\ Cardinality(Q2) <= Cardinality(Q)
    BY <1>m, <1>8, SmallerAccount
  <2> QED BY <2>1, <1>5, <1>n
<1>i. IdleRouter.pc \notin Rotating BY ConstantRows DEF Rotating
<1>e. ASSUME NEW w \in Routers, Ends(w) PROVE Q2 \subseteq Q \ {w}
  BY <1>e, <1>i, <1>p, <1>q DEF Ends, RoutersBut
<1> HIDE <1>1, <1>2, <1>3, <1>4
<1>11. ASSUME NEW w \in Routers, Thinks(w)
       PROVE  Cardinality(R2) + Cardinality(Q2) <= Cap + Cardinality(Routers) - 1
  <2>1. R2 = R BY <1>11, <1>r, <1>s DEF Thinks
  <2>2. \A v \in Routers \ {w} : v \in Q2 => v \in Q BY <1>11, <1>p, <1>q DEF Thinks, RoutersBut
  <2>3. CASE w \in Q2 /\ w \notin Q
    <3>1. HasRoom(a) BY <1>11, <2>3, <1>p, <1>q DEF Thinks
    <3>2. PICK L : L = {t \in Tickets : ticket[t].user = a /\ ticket[t].active} OBVIOUS
    <3>3. Cardinality(L) < Cap BY <3>1, <3>2 DEF HasRoom, Load
    <3>4. IsFiniteSet(L) /\ R \subseteq L
      <4>1. L \subseteq Tickets BY <3>2
      <4>2. IsFiniteSet(L) BY <4>1, FiniteAssumption, FS_Subset
      <4> QED BY <4>2, <3>2, <1>r
    <3>5. /\ Cardinality(R) \in Nat /\ Cardinality(Q2) \in Nat /\ Cardinality(L) \in Nat
          /\ Cardinality(R) <= Cardinality(L) /\ Cardinality(Q2) <= Cardinality(Routers)
      BY <3>4, <1>7, FiniteAssumption, SmallerAccount
    <3> QED BY <2>1, <3>3, <3>5, <1>n
  <2>4. CASE ~(w \in Q2 /\ w \notin Q)
    <3>1. Q2 \subseteq Q BY <2>2, <2>4, <1>7
    <3> QED BY <2>1, <3>1, <1>m
  <2> QED BY <2>3, <2>4
<1>12. ASSUME NEW w \in Routers, Drops(w)
       PROVE  Cardinality(R2) + Cardinality(Q2) <= Cap + Cardinality(Routers) - 1
  <2>1. Q2 \subseteq Q BY <1>12, <1>e DEF Drops
  <2>2. R2 \subseteq R BY <1>12, <1>r, <1>s DEF Drops
  <2> QED BY <2>1, <2>2, <1>m
<1>13. ASSUME NEW w \in Routers, Repeats(w)
       PROVE  Cardinality(R2) + Cardinality(Q2) <= Cap + Cardinality(Routers) - 1
  <2>1. Q2 \subseteq Q BY <1>13, <1>i, <1>p, <1>q DEF Repeats, RoutersBut
  <2>2. R2 \subseteq R BY <1>13, <1>r, <1>s DEF Repeats
  <2> QED BY <2>1, <2>2, <1>m
<1>14. ASSUME NEW w \in Routers, NEW t \in Tickets, Takes(w, t)
       PROVE  Cardinality(R2) + Cardinality(Q2) <= Cap + Cardinality(Routers) - 1
  <2>1. Q2 \subseteq Q BY <1>14, <1>p, <1>q DEF Takes, RoutersBut, Rotating
  <2>2. R2 \subseteq R BY <1>14, <1>r, <1>s DEF Takes
  <2> QED BY <2>1, <2>2, <1>m
<1>15. ASSUME NEW w \in Routers, NEW t \in Tickets, Postpones(w, t)
       PROVE  Cardinality(R2) + Cardinality(Q2) <= Cap + Cardinality(Routers) - 1
  <2>1. Q2 \subseteq Q BY <1>15, <1>e DEF Postpones
  <2>2. R2 \subseteq R BY <1>15, <1>r, <1>s DEF Postpones, TicketsBut, SameOwner
  <2> QED BY <2>1, <2>2, <1>m
<1>16. ASSUME NEW w \in Routers, NEW t \in Tickets, NEW source \in {"rule", "rotation"}, Places(w, t, source)
       PROVE  Cardinality(R2) + Cardinality(Q2) <= Cap + Cardinality(Routers) - 1
  <2>1. Q2 \subseteq Q \ {w} BY <1>16, <1>e DEF Places
  <2>2. \A u \in Tickets \ {t} : u \in R2 => u \in R
    BY <1>16, <1>r, <1>s, <1>k DEF Places, TicketsBut
  <2>4. t \in R2 => w \in Q BY <1>16, <1>s, <1>p, <1>k DEF Places
  <2>5. CASE t \in R2
    <3>1. R2 \ {t} \subseteq R BY <2>2, <2>5, <1>6
    <3>2. /\ Cardinality(R2 \ {t}) \in Nat /\ Cardinality(Q2) \in Nat
          /\ Cardinality(R) \in Nat /\ Cardinality(R2 \ {t}) <= Cardinality(R)
      BY <3>1, <1>7, <1>8, FiniteAssumption, SmallerAccount
    <3>3. Cardinality(R2 \ {t}) = Cardinality(R2) - 1 /\ Cardinality(R2) \in Nat
      BY <2>5, <1>8, FS_RemoveElement, FS_CardinalityType
    <3>4. /\ Cardinality(Q \ {w}) = Cardinality(Q) - 1 /\ Cardinality(Q) \in Nat /\ IsFiniteSet(Q \ {w})
      BY <2>4, <2>5, <1>8, FS_RemoveElement, FS_CardinalityType
    <3>5. Cardinality(Q2) <= Cardinality(Q \ {w}) BY <2>1, <3>4, FS_Subset
    <3> QED BY <3>2, <3>3, <3>4, <3>5, <1>5, <1>n
  <2>6. CASE t \notin R2
    <3>1. R2 \subseteq R /\ Q2 \subseteq Q BY <2>1, <2>2, <2>6, <1>6
    <3> QED BY <3>1, <1>m
  <2> QED BY <2>5, <2>6
<1>17. ASSUME NEW t \in Tickets, Skips(t) \/ Writes(t) \/ Closes(t)
       PROVE  Cardinality(R2) + Cardinality(Q2) <= Cap + Cardinality(Routers) - 1
  <2>1. router' = router BY <1>17 DEF Skips, Writes, Closes
  <2>2. Q2 \subseteq Q BY <2>1, <1>p, <1>q
  <2>3. CASE Skips(t)
    <3>1. R2 \subseteq R BY <2>3, <1>r, <1>s DEF Skips
    <3> QED BY <2>2, <3>1, <1>m
  <2>4. CASE Writes(t)
    <3>1. by'[t] # "rotation" BY <2>4, <1>k DEF Writes
    <3>2. \A u \in Tickets \ {t} : ticket'[u] = ticket[u] /\ by'[u] = by[u]
      BY <2>4, <1>k DEF Writes, TicketsBut
    <3>3. R2 \subseteq R BY <3>1, <3>2, <1>r, <1>s, <1>6
    <3> QED BY <2>2, <3>3, <1>m
  <2>5. CASE Closes(t)
    <3>1. R2 \subseteq R BY <2>5, <1>r, <1>s DEF Closes, TicketsBut, SameOwner
    <3> QED BY <2>2, <3>1, <1>m
  <2> QED BY <1>17, <2>3, <2>4, <2>5
<1>18. ASSUME NEW b \in Agents, Removes(b)
       PROVE  Cardinality(R2) + Cardinality(Q2) <= Cap + Cardinality(Routers) - 1
  <2>1. Q2 \subseteq Q BY <1>18, <1>p, <1>q DEF Removes
  <2>2. R2 \subseteq R BY <1>18, <1>r, <1>s, <1>a DEF Removes
  <2> QED BY <2>1, <2>2, <1>m
<1>19. ASSUME Asks \/ Waits
       PROVE  Cardinality(R2) + Cardinality(Q2) <= Cap + Cardinality(Routers) - 1
  <2>1. UNCHANGED <<ticket, router, by>> BY <1>19 DEF Asks, Waits
  <2>2. R2 \subseteq R /\ Q2 \subseteq Q BY <2>1, <1>p, <1>q, <1>r, <1>s
  <2> QED BY <2>2, <1>m
<1> QED BY <1>11, <1>12, <1>13, <1>14, <1>15, <1>16, <1>17, <1>18, <1>19 DEF RoutingKind

(* Initially nothing is routed. *)
LEMMA RoutingInitIInv == RoutingInit => RoutingIInv
<1> SUFFICES ASSUME RoutingInit PROVE RoutingIInv
  OBVIOUS
<1>1. PICK r : r = [active |-> TRUE, user |-> NoAgent, team |-> FALSE, routing |-> "pending", since |-> 0]
  OBVIOUS
<1>2. /\ r \in RoutedRows /\ r.user = NoAgent /\ r.team = FALSE /\ r.routing = "pending" /\ r.since = 0
  BY <1>1, ConstantRows DEF RoutedRows, RoutingStates
<1>3. TicketIsTimed(r) BY <1>2 DEF TicketIsTimed
<1>4. /\ ticket = [t \in Tickets |-> r] /\ job \in [Tickets -> {"queued", "none"}]
      /\ router = [w \in Routers |-> IdleRouter] /\ desk = NoRequest /\ here \in SUBSET Agents
      /\ removed = {} /\ cursor = NoAgent /\ by = [t \in Tickets |-> "none"]
      /\ deferrals = [t \in Tickets |-> 0] /\ crossed = {} /\ outdated = {} /\ peopleActs = 0 /\ faults = 0
  BY <1>1 DEF RoutingInit
<1>5. RoutingTypes
  <2>1. job \in [Tickets -> RouteJobs] BY <1>4 DEF RouteJobs
  <2>2. by \in [Tickets -> Sources] BY <1>4 DEF Sources
  <2>3. peopleActs \in 0..MaxPeopleActs /\ faults \in 0..MaxFaults BY <1>4, CapAssumption
  <2> QED BY <1>2, <1>3, <1>4, <2>1, <2>2, <2>3, ConstantRows DEF RoutingTypes
<1>6. \A w \in Routers : router[w].pc = "idle" /\ router[w].t = {} BY <1>4, ConstantRows
<1>7. WorkIsCrossed /\ WorkIsRunning /\ WorkIsAlone
  BY <1>6 DEF WorkIsCrossed, WorkIsRunning, WorkIsAlone, WorksOn
<1>8. PendingIsUnowned /\ DeferredIsCrossed
  BY <1>2, <1>4, OwnerFields DEF PendingIsUnowned, DeferredIsCrossed
<1>9. HeldIsDecided BY <1>4 DEF HeldIsDecided
<1>10. RemovedHoldsNothing BY <1>4 DEF RemovedHoldsNothing
<1>11. RotationAccount
  <2> SUFFICES ASSUME NEW a \in Agents
               PROVE  Cardinality(Rotated(a)) + Cardinality(Promised(a)) <= Cap + Cardinality(Routers) - 1
    BY DEF RotationAccount
  <2>1. Rotated(a) = {} BY <1>4 DEF Rotated
  <2>2. Promised(a) = {} BY <1>6 DEF Promised, Rotating
  <2>3. Cardinality(Routers) \in Nat BY FiniteAssumption, FS_CardinalityType
  <2> QED BY <2>1, <2>2, <2>3, FS_EmptySet, CapAssumption
<1> QED BY <1>5, <1>7, <1>8, <1>9, <1>10, <1>11, RoutingTypeParts DEF RoutingIInv

(* The same after a step. *)
LEMMA RoutingTypePartsAfter == RoutingTypeOK' <=> RoutingTypes'
BY RoutingTypeParts, PTL

(* Every kind of step keeps the inductive invariant. *)
LEMMA RoutingNextIInv == RoutingIInv /\ [RoutingNext]_routingVars => RoutingIInv'
<1> SUFFICES ASSUME RoutingIInv, [RoutingNext]_routingVars PROVE RoutingIInv'
  OBVIOUS
<1>1. RoutingTypeOK /\ RoutingTypes BY RoutingTypeParts DEF RoutingIInv
<1>2. RoutingKind BY <1>1, RoutingKinds
<1>3. RoutingTypes' BY <1>1, <1>2, RoutingTypesAfter
<1>4. RoutingTypeOK' BY <1>3, RoutingTypePartsAfter
<1>5. WorkIsCrossed' BY <1>1, <1>2, <1>3, WorkIsCrossedAfter DEF RoutingIInv
<1>6. WorkIsRunning' /\ WorkIsAlone' BY <1>1, <1>2, <1>3, WorkIsRunningAfter DEF RoutingIInv
<1>7. PendingIsUnowned' /\ HeldIsDecided' /\ DeferredIsCrossed'
  BY <1>1, <1>2, <1>3, VerdictsAfter DEF RoutingIInv
<1>8. RemovedHoldsNothing' BY <1>1, <1>2, <1>3, RemovedHoldsNothingAfter DEF RoutingIInv
<1>9. RotationAccount' BY <1>1, <1>2, <1>3, RotationAccountAfter DEF RoutingIInv
<1> QED BY <1>4, <1>5, <1>6, <1>7, <1>8, <1>9 DEF RoutingIInv

(* The inductive invariant holds of every behaviour. *)
THEOREM RoutingInvariant == RoutingSpec => []RoutingIInv
BY RoutingInitIInv, RoutingNextIInv, PTL DEF RoutingSpec

(* Tickets, jobs, routers and the desk are well typed in every reachable     *)
(* state of the routing model.                                               *)
THEOREM RoutingTypeCorrect == RoutingSpec => []RoutingTypeOK
<1>1. RoutingIInv => RoutingTypeOK BY DEF RoutingIInv
<1> QED BY <1>1, RoutingInvariant, PTL

(* An agent is filled past its cap by at most one ticket per further router, *)
(* however the readings of the loads and the assignments interleave.         *)
THEOREM RotationOvershootIsBounded == RoutingSpec => []OvershootBounded
<1>1. RoutingIInv => OvershootBounded
  <2> SUFFICES ASSUME RoutingIInv, NEW a \in Agents
               PROVE  Cardinality(Rotated(a)) <= Cap + Cardinality(Routers) - 1
    BY DEF OvershootBounded
  <2>1. Cardinality(Rotated(a)) + Cardinality(Promised(a)) <= Cap + Cardinality(Routers) - 1
    BY DEF RoutingIInv, RotationAccount
  <2>2. Rotated(a) \subseteq Tickets /\ Promised(a) \subseteq Routers BY DEF Rotated, Promised
  <2>3. Cardinality(Rotated(a)) \in Nat /\ Cardinality(Promised(a)) \in Nat /\ Cardinality(Routers) \in Nat
    BY <2>2, FiniteAssumption, SmallerAccount
  <2> QED BY <2>1, <2>3, CapAssumption
<1> QED BY <1>1, RoutingInvariant, PTL

(* A routed ticket is placed or flagged as stuck, and not both, save for the *)
(* exceptions OneVerdict names.                                              *)
THEOREM RoutingGivesOneVerdict == RoutingSpec => []OneVerdict
<1>1. RoutingIInv => OneVerdict
  BY DEF RoutingIInv, HeldIsDecided, DeferredIsCrossed, OneVerdict
<1> QED BY <1>1, RoutingInvariant, PTL

(* A removed user holds only what was written after a lookup before it.      *)
THEOREM RemovedUserHoldsNothing == RoutingSpec => []RemovedHoldsNothing
<1>1. RoutingIInv => RemovedHoldsNothing BY DEF RoutingIInv
<1> QED BY <1>1, RoutingInvariant, PTL

(* No step takes a ticket from its owner but a person's or a removal.        *)
LEMMA OwnerChangesByPeople ==
  ASSUME RoutingTypes, RoutingKind, NEW t \in Tickets, OwnerOf(t) # Unowned, OwnerOf(t)' # OwnerOf(t)
  PROVE  by'[t] \in {"person", "released"} \/ removed' # removed
<1> USE DEF peopleVars, events, routingGhosts, routingBounds
<1>k. by \in [Tickets -> Sources] BY DEF RoutingTypes
<1>o. ticket'[t].user # ticket[t].user \/ ticket'[t].team # ticket[t].team BY DEF OwnerOf
<1>1. ASSUME NEW w \in Routers, Thinks(w) \/ Drops(w) \/ Repeats(w) PROVE FALSE
  BY <1>1, <1>o DEF Thinks, Drops, Repeats
<1>2. ASSUME NEW w \in Routers, NEW u \in Tickets, Takes(w, u) \/ Postpones(w, u) PROVE FALSE
  BY <1>2, <1>o DEF Takes, Postpones, TicketsBut, SameOwner
<1>3. ASSUME NEW w \in Routers, NEW u \in Tickets, NEW source \in {"rule", "rotation"}, Places(w, u, source)
      PROVE  FALSE
  BY <1>3, <1>o DEF Places, TicketsBut
<1>4. ASSUME NEW u \in Tickets, Skips(u) \/ Closes(u) PROVE FALSE
  BY <1>4, <1>o DEF Skips, Closes, TicketsBut, SameOwner
<1>5. ASSUME NEW u \in Tickets, Writes(u) PROVE by'[t] \in {"person", "released"}
  <2>1. u = t BY <1>5, <1>o DEF Writes, TicketsBut
  <2> QED BY <1>5, <2>1, <1>k DEF Writes
<1>6. ASSUME NEW a \in Agents, Removes(a) PROVE removed' # removed
  BY <1>6 DEF Removes
<1>7. ASSUME Asks \/ Waits PROVE FALSE BY <1>7, <1>o DEF Asks, Waits
<1> QED BY <1>1, <1>2, <1>3, <1>4, <1>5, <1>6, <1>7 DEF RoutingKind

(* A router never takes a ticket from somebody, however old its reading.     *)
THEOREM RoutersTakeOnlyWhatIsFree == RoutingSpec => RoutersTakeFromNobody
<1>1. RoutingIInv /\ [RoutingNext]_routingVars =>
        [\A t \in Tickets : OwnerOf(t) # Unowned /\ OwnerOf(t)' # OwnerOf(t)
           => by'[t] \in {"person", "released"} \/ removed' # removed]_routingVars
  <2> SUFFICES ASSUME RoutingIInv, [RoutingNext]_routingVars, NEW t \in Tickets,
                      OwnerOf(t) # Unowned, OwnerOf(t)' # OwnerOf(t)
               PROVE  by'[t] \in {"person", "released"} \/ removed' # removed
    OBVIOUS
  <2>1. RoutingTypeOK /\ RoutingTypes BY RoutingTypeParts DEF RoutingIInv
  <2>2. RoutingKind BY <2>1, RoutingKinds
  <2> QED BY <2>1, <2>2, OwnerChangesByPeople
<1> QED BY <1>1, RoutingInvariant, PTL DEF RoutingSpec, RoutersTakeFromNobody
================================================================================
