-------------------------- MODULE MessageBusProofs --------------------------
(***************************************************************************)
(* The safety of the message bus, for every set of messages and clients,   *)
(* every choice of times to live and every bound on the clock.             *)
(*                                                                         *)
(* None of the properties is inductive: what a client may still write      *)
(* depends on what it read earlier.  InFlight says what an unfinished call *)
(* knows, and IInv adds it to the properties.                              *)
(*                                                                         *)
(* The second part is about the processes that serve the bus: who launches *)
(* and stops the gateways of a profile (Gateways).                         *)
(***************************************************************************)
EXTENDS MessageBus, Gateways, FiniteSetTheorems, TLAPS

\* What a client in the middle of a call can rely on: the message of a send
\* is new and its own; the message of any other call was inserted; a call of
\* mark_read has found its message delivered, so it is pending no more; the
\* clock reading of an expiry sweep is not in the future; what a poll came
\* too late for is still out of its reach.
InFlight ==
    \A c \in Client :
        /\ pc[c] \in {"sending", "acking", "reading", "deleting"} => arg[c] \in Msg
        /\ pc[c] = "sending" =>
               arg[c] \notin sent /\ \A d \in Client \ {c} : arg[d] # arg[c]
        /\ pc[c] \in {"acking", "reading", "deleting"} => arg[c] \in sent
        /\ pc[c] = "reading" => status[arg[c]] # "pending"
        /\ pc[c] = "expiring" => stamp[c] \in Nat /\ stamp[c] <= now
        /\ past[c] \subseteq sent
        /\ \A m \in past[c] : \/ m \notin active
                              \/ status[m] # "pending"
                              \/ /\ stamp[c] # Never /\ expires[m] # Never
                                 /\ expires[m] <= stamp[c]

IInv == TypeOK /\ Conservation /\ OnlyOverdueExpires /\ InFlight

-----------------------------------------------------------------------------

\* The four conjuncts hold initially.
LEMMA InitIInv == Init => IInv
<1> SUFFICES ASSUME Init PROVE IInv
    OBVIOUS
<1> USE MaxTimeAssumption DEF Init
<1>1. TypeOK
    BY DEF TypeOK, Statuses, Steps, Never
<1>2. Conservation
    BY DEF Conservation
<1>3. OnlyOverdueExpires
    BY DEF OnlyOverdueExpires
<1>4. InFlight
    BY DEF InFlight
<1>5. QED
    BY <1>1, <1>2, <1>3, <1>4 DEF IInv

\* Every variable keeps its type in every step.
LEMMA TypeStep == TypeOK /\ InFlight /\ [Next]_vars => TypeOK'
<1> SUFFICES ASSUME TypeOK, InFlight, [Next]_vars PROVE TypeOK'
    OBVIOUS
<1> USE DEF TypeOK, InFlight, GotoPast, Goto, Return, clients, history, Statuses, Steps, Never
<1>1. ASSUME NEW c \in Client, NEW m \in Msg, NEW ttl \in TTLs, SendStart(c, m, ttl)
      PROVE TypeOK'
  <2>1. (IF ttl = Never THEN Never ELSE now + ttl) \in Nat \cup {Never}
    BY TTLAssumption
  <2>2. QED
    BY <1>1, <2>1 DEF SendStart
<1>2. ASSUME NEW c \in Client, SendInsert(c) PROVE TypeOK'
    BY <1>2 DEF SendInsert
<1>3. ASSUME NEW c \in Client, NEW m \in Msg, NEW step \in {"acking", "reading"},
             Validate(c, m, step)
      PROVE TypeOK'
    BY <1>3 DEF Validate
<1>4. ASSUME NEW c \in Client, Update(c) PROVE TypeOK'
    BY <1>4 DEF Update, Target
<1>5. ASSUME NEW c \in Client, NEW m \in Msg, DeleteCheck(c, m) PROVE TypeOK'
    BY <1>5 DEF DeleteCheck
<1>6. ASSUME NEW c \in Client, DeleteRow(c) PROVE TypeOK'
    BY <1>6 DEF DeleteRow
<1>7. ASSUME NEW c \in Client, ExpireStart(c) PROVE TypeOK'
    BY <1>7, MaxTimeAssumption DEF ExpireStart
<1>8. ASSUME NEW c \in Client, ExpireRows(c) PROVE TypeOK'
    BY <1>8 DEF ExpireRows
<1>9. ASSUME NEW c \in Client, ArchiveRows(c) PROVE TypeOK'
    BY <1>9 DEF ArchiveRows
<1>10. ASSUME NEW c \in Client, Crash(c) PROVE TypeOK'
    BY <1>10 DEF Crash
<1>11. CASE Tick
    BY <1>11, MaxTimeAssumption DEF Tick
<1>12. CASE UNCHANGED vars
    BY <1>12 DEF vars
<1>13. ASSUME NEW c \in Client, NEW all \in BOOLEAN, PollStart(c, all) PROVE TypeOK'
    BY <1>13, MaxTimeAssumption DEF PollStart, IsExpired
<1>14. ASSUME NEW c \in Client, PollRows(c) PROVE TypeOK'
    BY <1>14 DEF PollRows
<1>15. QED
    BY <1>1, <1>2, <1>3, <1>4, <1>5, <1>6, <1>7, <1>8, <1>9, <1>10, <1>11, <1>12,
       <1>13, <1>14
    DEF Next

\* What was sent stays accounted for in every step.
LEMMA ConservationStep ==
    TypeOK /\ Conservation /\ InFlight /\ [Next]_vars => Conservation'
<1> SUFFICES ASSUME TypeOK, Conservation, InFlight, [Next]_vars PROVE Conservation'
    OBVIOUS
<1> USE DEF Conservation, history, clients
<1>1. ASSUME NEW c \in Client, SendInsert(c) PROVE Conservation'
    BY <1>1 DEF SendInsert, InFlight
<1>2. ASSUME NEW c \in Client, DeleteRow(c) PROVE Conservation'
    BY <1>2 DEF DeleteRow
<1>3. ASSUME NEW c \in Client, ArchiveRows(c) PROVE Conservation'
    BY <1>3 DEF ArchiveRows
<1>4. CASE UNCHANGED <<active, archived, deleted, sent>>
    BY <1>4
<1>5. QED
    BY <1>1, <1>2, <1>3, <1>4
    DEF Next, SendStart, PollStart, PollRows, Validate, Update, DeleteCheck, ExpireStart, ExpireRows,
        Crash, Tick, vars

\* No step expires or archives a message before its time: the sweep's clock
\* reading is not ahead of the clock, and a late write cannot expire anything.
LEMMA OverdueStep ==
    TypeOK /\ Conservation /\ OnlyOverdueExpires /\ InFlight /\ [Next]_vars
        => OnlyOverdueExpires'
<1> SUFFICES ASSUME TypeOK, Conservation, OnlyOverdueExpires, InFlight, [Next]_vars
             PROVE  OnlyOverdueExpires'
    OBVIOUS
<1> USE DEF OnlyOverdueExpires, IsExpired, history, clients
<1>1. ASSUME NEW c \in Client, SendInsert(c) PROVE OnlyOverdueExpires'
    BY <1>1 DEF SendInsert, TypeOK, Statuses, InFlight, Conservation
<1>2. ASSUME NEW c \in Client, Update(c) PROVE OnlyOverdueExpires'
    BY <1>2 DEF Update, Target, TypeOK
<1>3. ASSUME NEW c \in Client, DeleteRow(c) PROVE OnlyOverdueExpires'
    BY <1>3 DEF DeleteRow
<1>4. ASSUME NEW c \in Client, ExpireRows(c) PROVE OnlyOverdueExpires'
    BY <1>4 DEF ExpireRows, Overdue, InFlight, TypeOK, Never
<1>5. ASSUME NEW c \in Client, ArchiveRows(c) PROVE OnlyOverdueExpires'
    BY <1>5 DEF ArchiveRows
<1>6. CASE Tick
    BY <1>6 DEF Tick, TypeOK, Never
<1>7. CASE UNCHANGED <<now, active, archived, status, expires>>
    BY <1>7
<1>8. QED
    BY <1>1, <1>2, <1>3, <1>4, <1>5, <1>6, <1>7
    DEF Next, SendStart, PollStart, PollRows, Validate, DeleteCheck, ExpireStart, Crash, vars

\* What a client in the middle of a call relies on survives the steps of all
\* the others: identifiers are never reused, nothing returns to pending and
\* the clock does not go back.
LEMMA InFlightStep == IInv /\ [Next]_vars => InFlight'
<1> SUFFICES ASSUME IInv, [Next]_vars PROVE InFlight'
    OBVIOUS
<1> USE NoMsgAssumption
    DEF IInv, TypeOK, InFlight, GotoPast, Goto, Return, history, clients, Statuses, Steps,
        Never
<1>1. ASSUME NEW c \in Client, NEW m \in Msg, NEW ttl \in TTLs, SendStart(c, m, ttl)
      PROVE InFlight'
    BY <1>1 DEF SendStart, Fresh
<1>2. ASSUME NEW c \in Client, SendInsert(c) PROVE InFlight'
    BY <1>2 DEF SendInsert
<1>3. ASSUME NEW c \in Client, NEW m \in Msg, NEW step \in {"acking", "reading"},
             Validate(c, m, step)
      PROVE InFlight'
  <2>1. m \in sent
    BY <1>3 DEF Validate, Conservation
  <2>2. step = "reading" => status[m] # "pending"
    BY <1>3 DEF Validate, Transitions, Target
  <2>3. QED
    BY <1>3, <2>1, <2>2 DEF Validate
<1>4. ASSUME NEW c \in Client, Update(c) PROVE InFlight'
    BY <1>4 DEF Update, Target
<1>5. ASSUME NEW c \in Client, NEW m \in Msg, DeleteCheck(c, m) PROVE InFlight'
  <2>1. m \in sent
    BY <1>5 DEF DeleteCheck, Conservation
  <2>2. QED
    BY <1>5, <2>1 DEF DeleteCheck
<1>6. ASSUME NEW c \in Client, DeleteRow(c) PROVE InFlight'
    BY <1>6 DEF DeleteRow
<1>7. ASSUME NEW c \in Client, ExpireStart(c) PROVE InFlight'
    BY <1>7, MaxTimeAssumption DEF ExpireStart
<1>8. ASSUME NEW c \in Client, ExpireRows(c) PROVE InFlight'
    BY <1>8 DEF ExpireRows
<1>9. ASSUME NEW c \in Client, ArchiveRows(c) PROVE InFlight'
    BY <1>9 DEF ArchiveRows
<1>10. ASSUME NEW c \in Client, Crash(c) PROVE InFlight'
    BY <1>10 DEF Crash
<1>11. CASE Tick
    BY <1>11, MaxTimeAssumption DEF Tick
<1>12. CASE UNCHANGED vars
    BY <1>12 DEF vars
<1>13. ASSUME NEW c \in Client, NEW all \in BOOLEAN, PollStart(c, all) PROVE InFlight'
    BY <1>13, MaxTimeAssumption DEF PollStart, IsExpired
<1>14. ASSUME NEW c \in Client, PollRows(c) PROVE InFlight'
    BY <1>14 DEF PollRows
<1>15. QED
    BY <1>1, <1>2, <1>3, <1>4, <1>5, <1>6, <1>7, <1>8, <1>9, <1>10, <1>11, <1>12,
       <1>13, <1>14
    DEF Next

LEMMA IInvStep == IInv /\ [Next]_vars => IInv'
BY TypeStep, ConservationStep, OverdueStep, InFlightStep DEF IInv

THEOREM Invariance == Spec => []IInv
BY InitIInv, IInvStep, PTL DEF Spec

-----------------------------------------------------------------------------

\* Every variable of the bus always holds a value of its type.
THEOREM TypeCorrect == Spec => []TypeOK
<1>1. IInv => TypeOK
    BY DEF IInv
<1>2. QED
    BY <1>1, Invariance, PTL

\* Cleanup, deletion and late writes racing each other lose no message and
\* keep none twice.
THEOREM ConservationHolds == Spec => []Conservation
<1>1. IInv => Conservation
    BY DEF IInv
<1>2. QED
    BY <1>1, Invariance, PTL

\* Cleanup takes only messages whose time to live is over.
THEOREM OnlyOverdueExpiresHolds == Spec => []OnlyOverdueExpires
<1>1. IInv => OnlyOverdueExpires
    BY DEF IInv
<1>2. QED
    BY <1>1, Invariance, PTL

-----------------------------------------------------------------------------

\* A step changes the status of a row along VALID_STATUS_TRANSITIONS or is
\* one of the three late writes.
LEMMA LifecycleOfStep == IInv /\ Next => LifecycleStep
<1> SUFFICES ASSUME IInv, Next PROVE LifecycleStep
    OBVIOUS
<1> USE DEF IInv, TypeOK, LifecycleStep, Transitions, LateWrites, Statuses, history, clients
<1>1. ASSUME NEW c \in Client, SendInsert(c) PROVE LifecycleStep
    BY <1>1 DEF SendInsert, InFlight, Conservation
<1>2. ASSUME NEW c \in Client, Update(c) PROVE LifecycleStep
    BY <1>2 DEF Update, Target, InFlight
<1>3. ASSUME NEW c \in Client, ExpireRows(c) PROVE LifecycleStep
    BY <1>3 DEF ExpireRows, Overdue
<1>4. CASE UNCHANGED status
    BY <1>4
<1>5. QED
    BY <1>1, <1>2, <1>3, <1>4
    DEF Next, SendStart, PollStart, PollRows, Validate, DeleteCheck, DeleteRow, ExpireStart, ArchiveRows,
        Crash, Tick

\* Life cycle of a message under races: what a late write can do, and no more.
THEOREM LifecycleHolds == Spec => Lifecycle
<1>1. IInv /\ [Next]_vars => [LifecycleStep]_vars
    BY LifecycleOfStep
<1>2. QED
    BY <1>1, Invariance, PTL DEF Spec, Lifecycle

\* What a poll returns is nothing it came too late for: what InFlight says of
\* past leaves no row of it for Answer.
THEOREM NeverOfferedAgainHolds == Spec => []NeverOfferedAgain
<1>1. IInv => NeverOfferedAgain
  <2> SUFFICES ASSUME IInv, NEW c \in Client, pc[c] = "polling",
                      NEW m \in Answer(c), m \in past[c]
               PROVE  FALSE
    BY DEF NeverOfferedAgain
  <2>1. m \in active /\ status[m] = "pending"
    BY DEF Answer
  <2>2. stamp[c] # Never /\ expires[m] # Never /\ expires[m] <= stamp[c]
    BY <2>1 DEF IInv, InFlight
  <2>3. expires[m] > stamp[c]
    BY <2>2 DEF Answer
  <2>4. expires[m] \in Nat /\ stamp[c] \in Nat
    BY <2>1, <2>2 DEF IInv, TypeOK
  <2>5. QED
    BY <2>2, <2>3, <2>4
<1>2. QED
    BY <1>1, Invariance, PTL

-----------------------------------------------------------------------------
(* The bus implements Mailbox.  A send, a first acknowledgement, an expiry *)
(* sweep, a deletion and an archival are steps of the mailbox; everything  *)
(* else, late writes included, leaves every message where it stands.       *)

\* Where messages stand, as Mailbox sees it.
BoxOf == [m \in Msg |-> Place(m)]

LEMMA InitBox == Init => Box!BoxInit
BY DEF Init, Box!BoxInit, Place

\* Each step of the bus is a step of the mailbox or changes nothing there.
LEMMA BoxStep == IInv /\ [Next]_vars => [Box!BoxNext]_BoxOf
<1> SUFFICES ASSUME IInv, [Next]_vars
             PROVE  Box!BoxNext \/ BoxOf' = BoxOf
    BY DEF BoxOf
<1> USE DEF IInv, TypeOK, Conservation, Place, BoxOf, Statuses, history, clients
<1>1. ASSUME NEW c \in Client, SendInsert(c) PROVE Box!BoxNext
  <2>1. arg[c] \in Msg
    BY <1>1 DEF SendInsert, InFlight
  <2>2. Box!Send(arg[c])
    BY <1>1 DEF SendInsert, InFlight, Box!Send
  <2>3. QED
    BY <2>1, <2>2 DEF Box!BoxNext, Box!Send
<1>2. ASSUME NEW c \in Client, Update(c) PROVE Box!BoxNext
  <2> DEFINE S == {m \in {arg[c]} : m \in active /\ status[m] = "pending"}
  <2>1. S \in SUBSET Msg
    OBVIOUS
  <2>2. Box!Settle(S)
    BY <1>2 DEF Update, Target, InFlight, Box!Settle, Box!Queued
  <2>3. QED
    BY <2>1, <2>2 DEF Box!BoxNext, Box!Settle
<1>3. ASSUME NEW c \in Client, DeleteRow(c) PROVE Box!BoxNext
  <2>1. active \cap {arg[c]} \in SUBSET Msg
    OBVIOUS
  <2>2. Box!Retire(active \cap {arg[c]})
    BY <1>3 DEF DeleteRow, Box!Retire
  <2>3. QED
    BY <2>1, <2>2 DEF Box!BoxNext, Box!Retire
<1>4. ASSUME NEW c \in Client, ExpireRows(c) PROVE Box!BoxNext
  <2> DEFINE S == {m \in Overdue(stamp[c]) : status[m] = "pending"}
  <2>1. S \in SUBSET Msg
    BY DEF Overdue
  <2>2. Box!Settle(S)
    BY <1>4 DEF ExpireRows, Overdue, Box!Settle, Box!Queued
  <2>3. QED
    BY <2>1, <2>2 DEF Box!BoxNext, Box!Settle
<1>5. ASSUME NEW c \in Client, ArchiveRows(c) PROVE Box!BoxNext
  <2> DEFINE S == {m \in active : status[m] = "expired"}
  <2>1. S \in SUBSET Msg
    OBVIOUS
  <2>2. Box!Retire(S)
    BY <1>5 DEF ArchiveRows, Box!Retire
  <2>3. QED
    BY <2>1, <2>2 DEF Box!BoxNext, Box!Retire
<1>6. CASE UNCHANGED <<active, status, sent>>
    BY <1>6
<1>7. QED
    BY <1>1, <1>2, <1>3, <1>4, <1>5, <1>6
    DEF Next, SendStart, PollStart, PollRows, Validate, DeleteCheck, ExpireStart, Crash, Tick, vars

\* The bus keeps the mailbox's promise for any number of racing clients.
THEOREM BusImplementsMailbox == Spec => MailboxSpec
<1>1. IInv /\ [Next]_vars => [Box!BoxNext]_BoxOf
    BY BoxStep
<1>2. QED
    BY <1>1, InitBox, Invariance, PTL DEF Spec, MailboxSpec, Box!BoxSpec, BoxOf

-----------------------------------------------------------------------------
(* The gateway processes of a profile (Gateways), for any number of        *)
(* process ids, agents and consoles.  One invariant says whose children    *)
(* the agents hold, the other what a client between its look at the file   *)
(* and its record knows about the gateways that serve.                     *)

\* What the common parts of the actions do to the clients and processes.
LEMMA GoFacts ==
    ASSUME client \in [Clients -> ClientType], NEW c \in Clients,
           NEW p \in PcSet, Go(c, p)
    PROVE  /\ client' \in [Clients -> ClientType]
           /\ client'[c].pc = p /\ client'[c].pid = client[c].pid
           /\ \A d \in Clients \ {c} : client'[d] = client[d]
  BY DEF Go, ClientType

LEMMA GoWithFacts ==
    ASSUME client \in [Clients -> ClientType], NEW c \in Clients,
           NEW p \in PcSet, NEW i \in Pids, GoWith(c, p, i)
    PROVE  /\ client' \in [Clients -> ClientType]
           /\ client'[c].pc = p /\ client'[c].pid = i
           /\ \A d \in Clients \ {c} : client'[d] = client[d]
  <1> DEFINE mid == [client EXCEPT ![c].pc = p]
  <1>1. /\ mid \in [Clients -> ClientType]
        /\ mid[c].pc = p
        /\ \A d \in Clients \ {c} : mid[d] = client[d]
    BY DEF ClientType
  <1>2. client' = [mid EXCEPT ![c].pid = i]
    BY DEF GoWith
  <1> HIDE DEF mid
  <1> QED  BY <1>1, <1>2 DEF ClientType

LEMMA DoneFacts ==
    ASSUME client \in [Clients -> ClientType], NEW c \in Clients, Done(c)
    PROVE  /\ client' \in [Clients -> ClientType]
           /\ client'[c].pc = "idle"
           /\ \A d \in Clients \ {c} : client'[d] = client[d]
  BY DEF Done, Idle, ClientType, PcSet

LEMMA UnlinkedFacts ==
    ASSUME client \in [Clients -> ClientType], NEW c \in Clients,
           NEW next \in ClientType, Unlinked(c, next)
    PROVE  /\ client' \in [Clients -> ClientType]
           /\ client'[c] = next
           /\ \A d \in Clients \ {c} : /\ client'[d].pc = client[d].pc
                                       /\ client'[d].pid = client[d].pid
           /\ pidFile' = Nothing
           /\ raced' = (raced \/ pidFile \in Serving)
  BY DEF Unlinked, ClientType, Raced

LEMMA SpawnedFacts ==
    ASSUME proc \in [Pids -> ProcType], NEW p \in Pids, 
           NEW a \in Agents \cup {Ui}, NEW kept, Spawned(p, a, kept)
    PROVE  /\ proc' \in [Pids -> ProcType]
           /\ proc[p].runs = "free"
           /\ proc'[p].runs = "gateway" /\ proc'[p].parent = a
           /\ \A q \in Pids \ {p} :
                 \/ proc'[q] = proc[q]
                 \/ /\ proc[q].runs = "zombie" /\ proc[q].parent = a /\ q # kept
                    /\ proc'[q] = Free
  <1> DEFINE new == [runs |-> "gateway", parent |-> a, told |-> FALSE]
  <1>1. new \in ProcType /\ Free \in ProcType
    BY DEF ProcType, Free
  <1>2. Reaped(a, kept) \in [Pids -> ProcType]
    BY <1>1 DEF Reaped
  <1>3. proc' = [Reaped(a, kept) EXCEPT ![p] = new] /\ ~ Exists(p)
    BY DEF Spawned
  <1>4. \A q \in Pids \ {p} : proc'[q] = Reaped(a, kept)[q]
    BY <1>2, <1>3
  <1>5. proc'[p] = new /\ proc' \in [Pids -> ProcType]
    BY <1>1, <1>2, <1>3
  <1>6. proc[p].runs = "free"
    BY <1>3 DEF Exists
  <1>7. \A q \in Pids \ {p} :
           \/ Reaped(a, kept)[q] = proc[q]
           \/ /\ proc[q].runs = "zombie" /\ proc[q].parent = a /\ q # kept
              /\ Reaped(a, kept)[q] = Free
    BY DEF Reaped
  <1> QED  BY <1>4, <1>5, <1>6, <1>7
-----------------------------------------------------------------------------
(* Types.                                                                  *)

LEMMA SomeProcs ==
    /\ Free \in ProcType /\ Idle \in ClientType
    /\ proc \in [Pids -> ProcType] => \A p \in Pids : Corpse(p) \in ProcType
  BY DEF Free, Idle, ProcType, ClientType, PcSet, Corpse

LEMMA TypeAgent ==
    ASSUME GatewayTypeOK, NEW a \in Agents, AgentStep(a)
    PROVE  GatewayTypeOK'
  <1> USE DEF GatewayTypeOK
  <1>c. a \in Clients /\ Agents \subseteq Clients
    BY DEF Clients
  <1>1. CASE RouteStart(a)
    <2>1. client' \in [Clients -> ClientType]
      BY <1>1, <1>c, GoFacts DEF RouteStart, PcSet
    <2>2. proc' \in [Pids -> ProcType]
      BY <1>1, SomeProcs DEF RouteStart
    <2> QED  BY <1>1, <2>1, <2>2 DEF RouteStart
  <1>2. CASE CheckFile(a)
    <2>1. client' \in [Clients -> ClientType]
      BY <1>2, <1>c, GoFacts, GoWithFacts DEF CheckFile, PcSet
    <2> QED  BY <1>2, <2>1 DEF CheckFile, Raced
  <1>3. CASE Probe(a)
    <2>1. client' \in [Clients -> ClientType]
      BY <1>3, <1>c, GoFacts DEF Probe, PcSet
    <2> QED  BY <1>3, <2>1 DEF Probe
  <1>4. CASE UnlinkStale(a)
    <2>1. [client[a] EXCEPT !.pc = "launch"] \in ClientType
      BY <1>c DEF ClientType, PcSet
    <2> QED  BY <1>4, <1>c, <2>1, UnlinkedFacts DEF UnlinkStale
  <1>5. CASE Launch(a)
    <2>1. PICK p \in Pids : Spawned(p, a, entry[a]) /\ GoWith(a, "open", p)
      BY <1>5 DEF Launch
    <2>2. client' \in [Clients -> ClientType]
      BY <2>1, <1>c, GoWithFacts DEF PcSet
    <2>3. proc' \in [Pids -> ProcType]
      BY <2>1, SpawnedFacts
    <2> QED  BY <1>5, <2>2, <2>3 DEF Launch
  <1>6. CASE LaunchFails(a) \/ RecordFails(a) \/ Send(a)
    <2>1. client' \in [Clients -> ClientType]
      BY <1>6, <1>c, GoFacts, DoneFacts DEF LaunchFails, RecordFails, Send, PcSet
    <2> QED  BY <1>6, <2>1 DEF LaunchFails, RecordFails, Send, Raced
  <1>7. CASE RecordOpen(a)
    <2>1. client' \in [Clients -> ClientType]
      BY <1>7, <1>c DEF RecordOpen, ClientType, PcSet
    <2> QED  BY <1>7, <2>1 DEF RecordOpen
  <1>8. CASE RecordWrite(a)
    <2>1. client' \in [Clients -> ClientType]
      BY <1>8, <1>c, GoFacts DEF RecordWrite, PcSet
    <2>2. client[a].pid \in Pids \cup {Nothing} /\ client[a].linked \in BOOLEAN
      BY <1>c DEF ClientType
    <2> QED  BY <1>8, <2>1, <2>2 DEF RecordWrite, Raced
  <1>9. CASE DeactivateKill(a)
    <2>1. client' \in [Clients -> ClientType]
      BY <1>9, <1>c, GoFacts DEF DeactivateKill, PcSet
    <2>2. proc' \in [Pids -> ProcType]
      BY <1>9, SomeProcs DEF DeactivateKill
    <2> QED  BY <1>9, <2>1, <2>2 DEF DeactivateKill
  <1>10. CASE DeactivateUnlink(a)
    BY <1>10, <1>c, SomeProcs, UnlinkedFacts DEF DeactivateUnlink
  <1>11. CASE DeactivateStub(a)
    BY <1>11 DEF DeactivateStub
  <1>12. CASE Shutdown(a)
    <2>1. CASE entry[a] = Stub
      BY <1>12, <2>1 DEF Shutdown
    <2>2. CASE entry[a] \in Pids
      <3>1. \/ proc' = [proc EXCEPT ![entry[a]] = Free]
            \/ proc' = [proc EXCEPT ![entry[a]].told = TRUE]
        BY <1>12, <2>2, ConstantsDiffer DEF Shutdown
      <3>2. [proc[entry[a]] EXCEPT !.told = TRUE] \in ProcType
        BY <2>2 DEF ProcType
      <3> QED  BY <1>12, <3>1, <3>2, <2>2, SomeProcs DEF Shutdown
    <2>3. entry[a] \in Pids \/ entry[a] = Stub
      BY <1>12 DEF Shutdown
    <2> QED  BY <2>1, <2>2, <2>3
  <1>13. CASE AgentEnds(a)
    <2>1. client' \in [Clients -> ClientType]
      BY <1>13, <1>c, DoneFacts DEF AgentEnds
    <2>2. proc' \in [Pids -> ProcType]
      BY <1>13, SomeProcs DEF AgentEnds, ProcType
    <2> QED  BY <1>13, <2>1, <2>2 DEF AgentEnds, Raced
  <1> QED
    BY <1>1, <1>2, <1>3, <1>4, <1>5, <1>6, <1>7, <1>8, <1>9, <1>10, <1>11,
       <1>12, <1>13 DEF AgentStep

LEMMA TypeConsole ==
    ASSUME GatewayTypeOK, NEW c \in Consoles, ConsoleStep(c)
    PROVE  GatewayTypeOK'
  <1> USE DEF GatewayTypeOK
  <1>c. c \in Clients
    BY DEF Clients
  <1>1. CASE ConsoleStart(c)
    <2>1. client' \in [Clients -> ClientType]
      BY <1>1, <1>c, GoFacts DEF ConsoleStart, PcSet
    <2> QED  BY <1>1, <2>1 DEF ConsoleStart, Raced
  <1>2. CASE ConsolePopen(c)
    <2>1. PICK p \in Pids : Spawned(p, Ui, Nothing)
      BY <1>2 DEF ConsolePopen
    <2>2. client' \in [Clients -> ClientType]
      BY <1>2, <1>c, DoneFacts DEF ConsolePopen
    <2>3. proc' \in [Pids -> ProcType]
      BY <2>1, SpawnedFacts
    <2> QED  BY <1>2, <2>2, <2>3 DEF ConsolePopen
  <1>3. CASE ConsoleStop(c)
    <2>1. client' \in [Clients -> ClientType]
      BY <1>3, <1>c, GoWithFacts DEF ConsoleStop, Running, PcSet
    <2> QED  BY <1>3, <2>1 DEF ConsoleStop
  <1>4. CASE ConsoleKill(c)
    <2>1. client' \in [Clients -> ClientType]
      BY <1>4, <1>c, GoFacts, DoneFacts DEF ConsoleKill, PcSet
    <2>2. proc' \in [Pids -> ProcType]
      BY <1>4 DEF ConsoleKill, ProcType
    <2> QED  BY <1>4, <2>1, <2>2 DEF ConsoleKill
  <1>5. CASE ConsoleUnlink(c)
    BY <1>5, <1>c, SomeProcs, UnlinkedFacts DEF ConsoleUnlink
  <1> QED  BY <1>1, <1>2, <1>3, <1>4, <1>5 DEF ConsoleStep

LEMMA TypeSystem ==
    ASSUME GatewayTypeOK, NEW p \in Pids, SystemStep(p)
    PROVE  GatewayTypeOK'
  <1> USE DEF GatewayTypeOK
  <1>1. proc' \in [Pids -> ProcType]
    BY SomeProcs DEF SystemStep, GatewayDies, PidReused, OtherEnds, ProcType
  <1> QED  BY <1>1 DEF SystemStep, GatewayDies, PidReused, OtherEnds

\* The types of every variable hold in every reachable state.
THEOREM GatewayTypeCorrect == GatewaySpec => []GatewayTypeOK
  <1>1. GatewayInit => GatewayTypeOK
    BY SomeProcs DEF GatewayInit, GatewayTypeOK
  <1>2. GatewayTypeOK /\ [GatewayNext]_gatewayVars => GatewayTypeOK'
    <2> SUFFICES ASSUME GatewayTypeOK, [GatewayNext]_gatewayVars PROVE GatewayTypeOK'
      OBVIOUS
    <2>1. CASE UNCHANGED gatewayVars
      BY <2>1 DEF gatewayVars, GatewayTypeOK
    <2> QED  BY <2>1, TypeAgent, TypeConsole, TypeSystem DEF GatewayNext
  <1> QED  BY <1>1, <1>2, PTL DEF GatewaySpec
-----------------------------------------------------------------------------
(* Whose children the agents hold.                                         *)

Child(p, a) == proc[p].runs \in {"gateway", "zombie"} /\ proc[p].parent = a

Recording(c) == client[c].pc \in {"open", "write"}

\* What a holds, and what it has launched and is about to hold, is its child.
Own(a) ==
    /\ entry[a] \in Pids => Child(entry[a], a)
    /\ Recording(a) => client[a].pid \in Pids /\ Child(client[a].pid, a)

Children == \A a \in Agents : Own(a)

\* A launch reaps zombies of its own, and none that is held.
LEMMA SpawnKeeps ==
    ASSUME GatewayTypeOK, NEW p \in Pids, NEW a \in Agents \cup {Ui}, NEW kept,
           Spawned(p, a, kept), NEW q \in Pids, NEW b \in Agents,
           Child(q, b), b = a => q = kept
    PROVE  Child(q, b)'
  BY SpawnedFacts DEF Child, GatewayTypeOK

\* What the steps of one agent do to the processes and to the other agents.
LEMMA AgentFrame ==
    ASSUME GatewayTypeOK, NEW a \in Agents, Own(a), AgentStep(a),
           NEW b \in Agents, b # a
    PROVE  /\ entry'[b] = entry[b]
           /\ client'[b].pc = client[b].pc /\ client'[b].pid = client[b].pid
           /\ \A q \in Pids : Child(q, b) => Child(q, b)'
  <1> USE DEF GatewayTypeOK
  <1>c. a \in Clients /\ b \in Clients
    BY DEF Clients
  <1>1. entry'[b] = entry[b]
    BY DEF AgentStep, RouteStart, CheckFile, Probe, UnlinkStale, Launch,
           LaunchFails, RecordOpen, RecordWrite, RecordFails, Send,
           DeactivateKill, DeactivateUnlink, DeactivateStub, Shutdown, AgentEnds
  <1>2. client'[b].pc = client[b].pc /\ client'[b].pid = client[b].pid
    <2>1. CASE UnlinkStale(a) \/ DeactivateUnlink(a)
      <3>1. [client[a] EXCEPT !.pc = "launch"] \in ClientType
        BY <1>c DEF ClientType, PcSet
      <3> QED  BY <1>c, <2>1, <3>1, SomeProcs, UnlinkedFacts
               DEF UnlinkStale, DeactivateUnlink
    <2>2. CASE Launch(a) \/ CheckFile(a)
      BY <1>c, <2>2, GoFacts, GoWithFacts DEF Launch, CheckFile, PcSet
    <2>3. CASE ~ (UnlinkStale(a) \/ DeactivateUnlink(a) \/ Launch(a) \/ CheckFile(a))
      BY <1>c, <2>3, GoFacts, DoneFacts
         DEF AgentStep, RouteStart, Probe, LaunchFails, RecordOpen,
             RecordWrite, RecordFails, Send, DeactivateKill, DeactivateStub,
             Shutdown, AgentEnds, PcSet
    <2> QED  BY <2>1, <2>2, <2>3
  <1>3. ASSUME NEW q \in Pids, Child(q, b)
        PROVE  Child(q, b)'
    <2>1. CASE RouteStart(a)
      BY <1>3, <2>1 DEF RouteStart, Own, Child
    <2>2. CASE Launch(a)
      BY <1>3, <2>2, SpawnKeeps DEF Launch
    <2>3. CASE DeactivateKill(a)
      <3>1. entry[a] # q
        BY <1>3, <2>3 DEF DeactivateKill, Own, Child
      <3> QED  BY <1>3, <2>3, <3>1 DEF DeactivateKill, Child
    <2>4. CASE Shutdown(a)
      <3>1. entry[a] # q
        BY <1>3, <2>4 DEF Shutdown, Own, Child
      <3> QED  BY <1>3, <2>4, <3>1 DEF Shutdown, Child
    <2>5. CASE AgentEnds(a)
      BY <1>3, <2>5 DEF AgentEnds, Child
    <2>6. CASE UNCHANGED proc
      BY <1>3, <2>6 DEF Child
    <2> QED
      BY <2>1, <2>2, <2>3, <2>4, <2>5, <2>6
         DEF AgentStep, CheckFile, Probe, UnlinkStale, LaunchFails, RecordOpen,
             RecordWrite, RecordFails, Send, DeactivateUnlink, DeactivateStub
  <1> QED  BY <1>1, <1>2, <1>3

LEMMA AgentOwn ==
    ASSUME GatewayTypeOK, NEW a \in Agents, Own(a), AgentStep(a)
    PROVE  Own(a)'
  <1> USE DEF GatewayTypeOK
  <1>c. a \in Clients
    BY DEF Clients
  <1>1. CASE RouteStart(a) \/ DeactivateKill(a) \/ DeactivateStub(a) \/ Shutdown(a)
    <2>1. ~ Recording(a)'
      BY <1>1, <1>c, GoFacts DEF RouteStart, DeactivateKill, DeactivateStub,
                                 Shutdown, Recording, PcSet
    <2>2. entry'[a] \in Pids => entry'[a] = entry[a] /\ UNCHANGED proc
      BY <1>1, ConstantsDiffer DEF RouteStart, DeactivateKill, DeactivateStub,
                                   Shutdown, is_active
    <2> QED  BY <2>1, <2>2 DEF Own, Child
  <1>2. CASE CheckFile(a) \/ LaunchFails(a) \/ RecordFails(a) \/ Send(a)
    <2>1. ~ Recording(a)'
      BY <1>2, <1>c, GoFacts, GoWithFacts, DoneFacts
         DEF CheckFile, LaunchFails, RecordFails, Send, Recording, PcSet
    <2> QED  BY <1>2, <2>1 DEF CheckFile, LaunchFails, RecordFails, Send, Own, Child
  <1>3. CASE Probe(a)
    <2>1. ~ Recording(a)'
      BY <1>3, <1>c, GoFacts DEF Probe, Recording, PcSet
    <2>2. entry'[a] \in Pids => entry'[a] = entry[a]
      BY <1>3, ConstantsDiffer DEF Probe
    <2> QED  BY <1>3, <2>1, <2>2 DEF Probe, Own, Child
  <1>4. CASE UnlinkStale(a) \/ DeactivateUnlink(a)
    <2>1. [client[a] EXCEPT !.pc = "launch"] \in ClientType
      BY <1>c DEF ClientType, PcSet
    <2>2. [client[a] EXCEPT !.pc = "launch"].pc = "launch" /\ Idle.pc = "idle"
      BY <1>c DEF ClientType, Idle
    <2>3. CASE UnlinkStale(a)
      BY <1>c, <2>1, <2>2, <2>3, UnlinkedFacts DEF UnlinkStale, Recording, Own, Child
    <2>4. CASE DeactivateUnlink(a)
      BY <1>c, <2>2, <2>4, SomeProcs, UnlinkedFacts
         DEF DeactivateUnlink, Recording, Own, Child
    <2> QED  BY <1>4, <2>3, <2>4
  <1>5. CASE Launch(a)
    <2>1. PICK p \in Pids : Spawned(p, a, entry[a]) /\ GoWith(a, "open", p)
      BY <1>5 DEF Launch
    <2>2. client'[a].pid = p
      BY <1>c, <2>1, GoWithFacts DEF PcSet
    <2>3. Child(p, a)'
      BY <2>1, SpawnedFacts DEF Child
    <2>4. \A q \in Pids : q = entry[a] => Child(q, a)'
      BY <2>1, SpawnKeeps DEF Own
    <2>5. entry' = entry
      BY <1>5 DEF Launch
    <2> QED  BY <2>2, <2>3, <2>4, <2>5 DEF Own, Child
  <1>6. CASE RecordOpen(a)
    <2>1. client'[a].pid = client[a].pid
      BY <1>6, <1>c DEF RecordOpen, ClientType
    <2> QED  BY <1>6, <2>1 DEF RecordOpen, Own, Child, Recording
  <1>7. CASE RecordWrite(a)
    <2>1. ~ Recording(a)'
      BY <1>7, <1>c, GoFacts DEF RecordWrite, Recording, PcSet
    <2> QED  BY <1>7, <2>1 DEF RecordWrite, Own, Child, Recording
  <1>8. CASE AgentEnds(a)
    <2>1. ~ Recording(a)'
      BY <1>8, <1>c, DoneFacts DEF AgentEnds, Recording
    <2>2. entry'[a] \notin Pids
      BY <1>8, ConstantsDiffer DEF AgentEnds
    <2> QED  BY <2>1, <2>2 DEF Own
  <1> QED
    BY <1>1, <1>2, <1>3, <1>4, <1>5, <1>6, <1>7, <1>8 DEF AgentStep

LEMMA ConsoleChildren ==
    ASSUME GatewayTypeOK, Children, NEW c \in Consoles, ConsoleStep(c),
           NEW b \in Agents
    PROVE  Own(b)'
  <1> USE DEF GatewayTypeOK
  <1>c. c \in Clients /\ b \in Clients /\ b # c /\ b # Ui
    BY ConstantsDiffer DEF Clients
  <1>1. entry'[b] = entry[b]
    BY DEF ConsoleStep, ConsoleStart, ConsolePopen, ConsoleStop, ConsoleKill,
           ConsoleUnlink
  <1>2. client'[b].pc = client[b].pc /\ client'[b].pid = client[b].pid
    <2>1. CASE ConsoleStart(c) \/ ConsolePopen(c)
      BY <1>c, <2>1, GoFacts, DoneFacts DEF ConsoleStart, ConsolePopen, PcSet
    <2>2. CASE ConsoleStop(c)
      BY <1>c, <2>2, GoWithFacts DEF ConsoleStop, Running, PcSet
    <2>3. CASE ConsoleKill(c)
      BY <1>c, <2>3, GoFacts, DoneFacts DEF ConsoleKill, PcSet
    <2>4. CASE ConsoleUnlink(c)
      BY <1>c, <2>4, SomeProcs, UnlinkedFacts DEF ConsoleUnlink
    <2> QED  BY <2>1, <2>2, <2>3, <2>4 DEF ConsoleStep
  <1>3. ASSUME NEW q \in Pids, Child(q, b)
        PROVE  Child(q, b)'
    <2>1. CASE ConsolePopen(c)
      BY <1>3, <1>c, <2>1, SpawnKeeps DEF ConsolePopen
    <2>2. CASE ConsoleKill(c)
      <3>1. proc' = proc \/ proc' = [proc EXCEPT ![client[c].pid].told = TRUE]
        BY <2>2 DEF ConsoleKill
      <3>2. proc'[q].runs = proc[q].runs /\ proc'[q].parent = proc[q].parent
        BY <3>1 DEF ProcType
      <3> QED  BY <1>3, <3>2 DEF Child
    <2> QED
      BY <1>3, <2>1, <2>2
         DEF ConsoleStep, ConsoleStart, ConsoleStop, ConsoleUnlink, Child
  <1> QED  BY <1>1, <1>2, <1>3 DEF Children, Own, Recording

LEMMA SystemChildren ==
    ASSUME GatewayTypeOK, Children, NEW p \in Pids, SystemStep(p), NEW b \in Agents
    PROVE  Own(b)'
  <1> USE DEF GatewayTypeOK
  <1>1. ASSUME NEW q \in Pids, Child(q, b)
        PROVE  Child(q, b)'
    <2>1. CASE GatewayDies(p)
      BY <1>1, <2>1, ConstantsDiffer DEF GatewayDies, Corpse, Child, ProcType
    <2>2. CASE PidReused(p) \/ OtherEnds(p)
      BY <1>1, <2>2 DEF PidReused, OtherEnds, Child
    <2> QED  BY <2>1, <2>2 DEF SystemStep
  <1> QED
    BY <1>1 DEF Children, Own, Recording, SystemStep, GatewayDies, PidReused,
                OtherEnds

\* EntryIsChild holds: with it, what an agent has launched and not yet put
\* into its table is its child as well.
THEOREM EntryIsChildHolds == GatewaySpec => []EntryIsChild
  <1>1. GatewayInit => Children
    BY ConstantsDiffer DEF GatewayInit, Children, Own, Recording, Idle, Clients
  <1>2. GatewayTypeOK /\ Children /\ [GatewayNext]_gatewayVars => Children'
    <2> SUFFICES ASSUME GatewayTypeOK, Children, [GatewayNext]_gatewayVars, NEW b \in Agents
                 PROVE  Own(b)'
      BY DEF Children
    <2>1. ASSUME NEW a \in Agents, AgentStep(a)
          PROVE  Own(b)'
      <3>1. CASE b = a
        BY <2>1, <3>1, AgentOwn DEF Children
      <3>2. CASE b # a
        BY <2>1, <3>2, AgentFrame DEF Children, Own, Recording
      <3> QED  BY <3>1, <3>2
    <2>2. CASE UNCHANGED gatewayVars
      BY <2>2 DEF gatewayVars, Children, Own, Recording, Child
    <2> QED  BY <2>1, <2>2, ConsoleChildren, SystemChildren DEF GatewayNext
  <1>3. Children => EntryIsChild
    BY DEF Children, Own, Child, EntryIsChild
  <1> QED  BY <1>1, <1>2, <1>3, GatewayTypeCorrect, PTL DEF GatewaySpec
-----------------------------------------------------------------------------
(* One gateway.                                                            *)

In(c) == client[c].pc \in Window

\* No two clients are between their look at the file and their record.
Alone == \A c, d \in Clients : In(c) /\ In(d) => c = d

\* Nothing serves but what the client has read of, or has launched itself.
Knows(c) ==
    /\ client[c].pc \in {"unlink", "launch", "popen"} => Serving = {}
    /\ client[c].pc \in {"probe", "open", "write"} => Serving \subseteq {client[c].pid}

\* Unless a record is just being made, what serves is on record.
OnRecord == (\A c \in Clients : ~ Recording(c)) => Serving \subseteq {pidFile}

Quiet == Alone /\ OnRecord /\ \A c \in Clients : Knows(c)

\* What serves can only shrink if no process becomes a gateway or forgets that
\* it was told to stop.
LEMMA ServingShrinks ==
    ASSUME \A p \in Pids : proc'[p].runs = "gateway" /\ ~ proc'[p].told =>
                              proc[p].runs = "gateway" /\ ~ proc[p].told
    PROVE  Serving' \subseteq Serving
  BY DEF Serving, Gateway

\* A step that launches nothing, lets nobody into the window and takes no
\* record of a gateway away: a client leaves the window by such a step, unless
\* it is the step that ends its recording.
LEMMA Calm ==
    ASSUME Quiet, Serving' \subseteq Serving,
           Serving \subseteq {pidFile} => Serving' \subseteq {pidFile'},
           \A d \in Clients :
              \/ client'[d].pc = client[d].pc /\ client'[d].pid = client[d].pid
              \/ client'[d].pc \notin Window /\ ~ Recording(d)
    PROVE  Quiet'
  <1>1. \A d \in Clients : In(d)' => In(d)
    BY DEF In, Window
  <1>2. Alone'
    BY <1>1 DEF Quiet, Alone
  <1>3. \A d \in Clients : Recording(d) => Recording(d)'
    BY DEF Recording
  <1>4. OnRecord'
    BY <1>3 DEF Quiet, OnRecord
  <1>5. ASSUME NEW d \in Clients PROVE Knows(d)'
    BY <1>5 DEF Quiet, Knows, Window
  <1> QED  BY <1>2, <1>4, <1>5 DEF Quiet

\* One client takes a step inside the window, where no other is.
LEMMA Inside ==
    ASSUME NEW c \in Clients, \A d \in Clients \ {c} : ~ In(d)',
           Knows(c)', Recording(c)' \/ Serving' \subseteq {pidFile'}
    PROVE  Quiet'
  <1>1. Alone'
    BY DEF Alone
  <1>2. OnRecord'
    BY DEF OnRecord
  <1>3. \A d \in Clients \ {c} : Knows(d)'
    BY DEF Knows, In, Window
  <1> QED  BY <1>1, <1>2, <1>3 DEF Quiet

\* Once raced, always raced; so the steps matter that leave it false.
LEMMA NotRacedBefore ==
    ASSUME GatewayTypeOK, [GatewayNext]_gatewayVars, ~ raced'
    PROVE  ~ raced
  BY DEF GatewayNext, gatewayVars, AgentStep, ConsoleStep, SystemStep, RouteStart, CheckFile,
         Probe, UnlinkStale, Launch, LaunchFails, RecordOpen, RecordWrite,
         RecordFails, Send, DeactivateKill, DeactivateUnlink, DeactivateStub,
         Shutdown, AgentEnds, ConsoleStart, ConsolePopen, ConsoleStop,
         ConsoleKill, ConsoleUnlink, GatewayDies, PidReused, OtherEnds,
         Unlinked, Raced, GatewayTypeOK

LEMMA QuietAgent ==
    ASSUME GatewayTypeOK, Quiet, NEW a \in Agents, AgentStep(a), ~ raced'
    PROVE  Quiet'
  <1> USE DEF GatewayTypeOK
  <1>c. a \in Clients
    BY DEF Clients
  <1>o. In(a) => \A d \in Clients \ {a} : ~ In(d)
    BY <1>c DEF Quiet, Alone
  <1>k. Knows(a)
    BY <1>c DEF Quiet
  <1>1. CASE RouteStart(a)
    <2>1. Serving' \subseteq Serving /\ pidFile' = pidFile
      BY <1>1, ServingShrinks DEF RouteStart, Free
    <2>2. client'[a].pc \notin Window /\ ~ Recording(a)
      BY <1>1, <1>c, GoFacts DEF RouteStart, Window, Recording, PcSet
    <2>3. \A d \in Clients \ {a} : client'[d] = client[d]
      BY <1>1, <1>c, GoFacts DEF RouteStart, PcSet
    <2> QED  BY <2>1, <2>2, <2>3, Calm
  <1>2. CASE CheckFile(a)
    <2>1. \A d \in Clients \ {a} : ~ In(d) /\ client'[d] = client[d]
      BY <1>2, <1>c, GoFacts, GoWithFacts DEF CheckFile, Raced, Others, In, PcSet
    <2>2. Serving \subseteq {pidFile}
      BY <1>2, <1>c, <2>1 DEF CheckFile, Quiet, OnRecord, Recording, In, Window
    <2>3. Serving' = Serving /\ pidFile' = pidFile
      BY <1>2 DEF CheckFile, Serving, Gateway
    <2>4. Knows(a)'
      <3>1. CASE pidFile \in Pids
        <4>1. client'[a].pc = "probe" /\ client'[a].pid = pidFile
          BY <1>2, <1>c, <3>1, ConstantsDiffer, GoWithFacts DEF CheckFile, PcSet
        <4> QED  BY <4>1, <2>2, <2>3 DEF Knows
      <3>2. CASE pidFile \notin Pids
        <4>1. Serving = {}
          BY <2>2, <3>2 DEF Serving
        <4>2. client'[a].pc \in {"launch", "unlink"}
          BY <1>2, <1>c, <3>2, GoFacts DEF CheckFile, PcSet
        <4> QED  BY <4>1, <4>2, <2>3 DEF Knows
      <3> QED  BY <3>1, <3>2
    <2> QED  BY <1>c, <2>1, <2>2, <2>3, <2>4, Inside DEF In
  <1>3. CASE Probe(a)
    <2>1. Serving' = Serving /\ pidFile' = pidFile
      BY <1>3 DEF Probe, Serving, Gateway
    <2>2. \A d \in Clients \ {a} : client'[d] = client[d]
      BY <1>3, <1>c, GoFacts DEF Probe, PcSet
    <2>3. CASE client'[a].pc = "send"
      BY <1>3, <2>1, <2>2, <2>3, Calm DEF Probe, Window, Recording
    <2>4. CASE client'[a].pc # "send"
      <3>1. client'[a].pc = "unlink" /\ Refuses(client[a].pid)
        BY <1>3, <1>c, <2>4, GoFacts DEF Probe, PcSet
      <3>2. Serving = {}
        BY <1>3, <1>k, <3>1 DEF Probe, Knows, Refuses, Serving, Gateway
      <3>3. \A d \in Clients \ {a} : ~ In(d)'
        BY <1>3, <1>o, <2>2 DEF Probe, In, Window
      <3> QED  BY <1>c, <2>1, <3>1, <3>2, <3>3, Inside DEF Knows
    <2> QED  BY <2>3, <2>4
  <1>4. CASE UnlinkStale(a)
    <2>1. [client[a] EXCEPT !.pc = "launch"] \in ClientType
          /\ [client[a] EXCEPT !.pc = "launch"].pc = "launch"
      BY <1>c DEF ClientType, PcSet
    <2>2. /\ client'[a].pc = "launch"
          /\ \A d \in Clients \ {a} : client'[d].pc = client[d].pc
      BY <1>4, <1>c, <2>1, UnlinkedFacts DEF UnlinkStale
    <2>3. Serving' = {}
      BY <1>4, <1>k DEF UnlinkStale, Knows, Serving, Gateway
    <2>4. \A d \in Clients \ {a} : ~ In(d)'
      BY <1>4, <1>o, <2>2 DEF UnlinkStale, In, Window
    <2> QED  BY <1>c, <2>2, <2>3, <2>4, Inside DEF Knows
  <1>5. CASE Launch(a)
    <2>1. PICK p \in Pids : Spawned(p, a, entry[a]) /\ GoWith(a, "open", p)
      BY <1>5 DEF Launch
    <2>2. /\ client'[a].pc = "open" /\ client'[a].pid = p
          /\ \A d \in Clients \ {a} : client'[d] = client[d]
      BY <1>c, <2>1, GoWithFacts DEF PcSet
    <2>3. Serving = {}
      BY <1>5, <1>k DEF Launch, Knows
    <2>4. Serving' \subseteq {p}
      BY <2>1, <2>3, SpawnedFacts DEF Serving, Gateway, Free
    <2>5. \A d \in Clients \ {a} : ~ In(d)'
      BY <1>5, <1>o, <2>2 DEF Launch, In, Window
    <2> QED  BY <1>c, <2>2, <2>4, <2>5, Inside DEF Knows, Recording
  <1>6. CASE LaunchFails(a) \/ Send(a)
    <2>1. Serving' = Serving /\ pidFile' = pidFile
      BY <1>6 DEF LaunchFails, Send, Serving, Gateway
    <2>2. /\ client'[a].pc \notin Window /\ ~ Recording(a)
          /\ \A d \in Clients \ {a} : client'[d] = client[d]
      BY <1>6, <1>c, GoFacts, DoneFacts
         DEF LaunchFails, Send, Window, Recording, PcSet
    <2> QED  BY <2>1, <2>2, Calm
  <1>7. CASE RecordOpen(a)
    <2>1. /\ client'[a].pc = "write" /\ client'[a].pid = client[a].pid
          /\ \A d \in Clients \ {a} : client'[d] = client[d]
      BY <1>7, <1>c DEF RecordOpen, ClientType
    <2>2. Serving' = Serving /\ Serving \subseteq {client[a].pid}
      BY <1>7, <1>k DEF RecordOpen, Knows, Serving, Gateway
    <2>3. \A d \in Clients \ {a} : ~ In(d)'
      BY <1>7, <1>o, <2>1 DEF RecordOpen, In, Window
    <2> QED  BY <1>c, <2>1, <2>2, <2>3, Inside DEF Knows, Recording
  <1>8. CASE RecordWrite(a)
    <2>1. /\ client'[a].pc = "send"
          /\ \A d \in Clients \ {a} : client'[d] = client[d]
      BY <1>8, <1>c, GoFacts DEF RecordWrite, PcSet
    <2>2. Serving' = Serving /\ Serving \subseteq {client[a].pid}
      BY <1>8, <1>k DEF RecordWrite, Knows, Serving, Gateway
    <2>3. pidFile' = client[a].pid
      BY <1>8 DEF RecordWrite, Raced
    <2>4. \A d \in Clients \ {a} : ~ In(d)'
      BY <1>8, <1>o, <2>1 DEF RecordWrite, In, Window
    <2> QED  BY <1>c, <2>1, <2>2, <2>3, <2>4, Inside DEF Knows
  <1>9. CASE RecordFails(a)
    BY <1>9 DEF RecordFails, Raced
  <1>10. CASE DeactivateKill(a)
    <2>1. Serving' \subseteq Serving /\ pidFile' = pidFile
      <3>1. proc'[entry[a]].runs # "gateway"
        BY <1>10 DEF DeactivateKill, Free, Corpse, ProcType
      <3> QED  BY <1>10, <3>1, ServingShrinks DEF DeactivateKill
    <2>2. /\ client'[a].pc \notin Window /\ ~ Recording(a)
          /\ \A d \in Clients \ {a} : client'[d] = client[d]
      BY <1>10, <1>c, GoFacts DEF DeactivateKill, Window, Recording, PcSet
    <2> QED  BY <2>1, <2>2, Calm
  <1>11. CASE DeactivateUnlink(a)
    <2>1. /\ client'[a].pc = "idle"
          /\ \A d \in Clients \ {a} : /\ client'[d].pc = client[d].pc
                                      /\ client'[d].pid = client[d].pid
          /\ pidFile \notin Serving
      <3>1. Idle \in ClientType /\ Idle.pc = "idle"
        BY SomeProcs DEF Idle
      <3>2. Unlinked(a, Idle)
        BY <1>11 DEF DeactivateUnlink
      <3>3. pidFile \notin Serving
        BY <3>2 DEF Unlinked, Raced
      <3> QED  BY <1>c, <3>1, <3>2, <3>3, UnlinkedFacts
    <2>2. Serving' = Serving
      BY <1>11 DEF DeactivateUnlink, Serving, Gateway
    <2>3. client'[a].pc \notin Window /\ ~ Recording(a)
      BY <1>11, <2>1 DEF DeactivateUnlink, Window, Recording
    <2> QED  BY <2>1, <2>2, <2>3, Calm
  <1>12. CASE DeactivateStub(a)
    <2>1. Serving' = Serving
      BY <1>12 DEF DeactivateStub, Serving, Gateway
    <2> QED  BY <1>12, <2>1, Calm DEF DeactivateStub
  <1>13. CASE Shutdown(a)
    <2>1. \/ proc' = proc
          \/ proc' = [proc EXCEPT ![entry[a]] = Free]
          \/ proc' = [proc EXCEPT ![entry[a]].told = TRUE]
      BY <1>13 DEF Shutdown
    <2>2. Serving' \subseteq Serving
      BY <2>1, ServingShrinks DEF Free, ProcType
    <2> QED  BY <1>13, <2>2, Calm DEF Shutdown
  <1>14. CASE AgentEnds(a)
    <2>1. Serving' \subseteq Serving
      BY <1>14, ServingShrinks DEF AgentEnds, Free, ProcType
    <2>2. /\ client'[a].pc \notin Window /\ ~ Recording(a)
          /\ \A d \in Clients \ {a} : client'[d] = client[d]
      BY <1>14, <1>c, DoneFacts DEF AgentEnds, Window, Recording, Raced
    <2> QED  BY <1>14, <2>1, <2>2, Calm DEF AgentEnds
  <1> QED
    BY <1>1, <1>2, <1>3, <1>4, <1>5, <1>6, <1>7, <1>8, <1>9, <1>10, <1>11,
       <1>12, <1>13, <1>14 DEF AgentStep

LEMMA QuietConsole ==
    ASSUME GatewayTypeOK, Quiet, NEW c \in Consoles, ConsoleStep(c), ~ raced'
    PROVE  Quiet'
  <1> USE DEF GatewayTypeOK
  <1>c. c \in Clients
    BY DEF Clients
  <1>1. CASE ConsoleStart(c)
    <2>1. /\ client'[c].pc = "popen"
          /\ \A d \in Clients \ {c} : ~ In(d) /\ client'[d] = client[d]
      BY <1>1, <1>c, GoFacts DEF ConsoleStart, Raced, Others, In, PcSet
    <2>2. Serving \subseteq {pidFile}
      BY <1>1, <1>c, <2>1 DEF ConsoleStart, Quiet, OnRecord, Recording, In, Window
    <2>3. Serving = {} /\ Serving' = Serving
      BY <1>1, <2>2 DEF ConsoleStart, NotRunning, Refuses, Serving, Gateway
    <2> QED  BY <1>c, <2>1, <2>3, Inside DEF In, Knows
  <1>2. CASE ConsolePopen(c)
    BY <1>2 DEF ConsolePopen
  <1>3. CASE ConsoleStop(c)
    <2>1. Serving' = Serving
      BY <1>3 DEF ConsoleStop, Serving, Gateway
    <2>2. /\ client'[c].pc \notin Window /\ ~ Recording(c)
          /\ \A d \in Clients \ {c} : client'[d] = client[d]
      BY <1>3, <1>c, GoWithFacts DEF ConsoleStop, Running, Window, Recording, PcSet
    <2> QED  BY <1>3, <2>1, <2>2, Calm DEF ConsoleStop
  <1>4. CASE ConsoleKill(c)
    <2>1. proc' = proc \/ proc' = [proc EXCEPT ![client[c].pid].told = TRUE]
      BY <1>4 DEF ConsoleKill
    <2>2. Serving' \subseteq Serving
      BY <2>1, ServingShrinks DEF ProcType
    <2>3. /\ client'[c].pc \notin Window /\ ~ Recording(c)
          /\ \A d \in Clients \ {c} : client'[d] = client[d]
      BY <1>4, <1>c, GoFacts, DoneFacts DEF ConsoleKill, Window, Recording, PcSet
    <2> QED  BY <1>4, <2>2, <2>3, Calm DEF ConsoleKill
  <1>5. CASE ConsoleUnlink(c)
    <2>1. /\ client'[c].pc = "idle"
          /\ \A d \in Clients \ {c} : /\ client'[d].pc = client[d].pc
                                      /\ client'[d].pid = client[d].pid
          /\ pidFile \notin Serving
      <3>1. Idle \in ClientType /\ Idle.pc = "idle"
        BY SomeProcs DEF Idle
      <3>2. Unlinked(c, Idle)
        BY <1>5 DEF ConsoleUnlink
      <3>3. pidFile \notin Serving
        BY <3>2 DEF Unlinked, Raced
      <3> QED  BY <1>c, <3>1, <3>2, <3>3, UnlinkedFacts
    <2>2. Serving' = Serving
      BY <1>5 DEF ConsoleUnlink, Serving, Gateway
    <2>3. client'[c].pc \notin Window /\ ~ Recording(c)
      BY <1>5, <2>1 DEF ConsoleUnlink, Window, Recording
    <2> QED  BY <2>1, <2>2, <2>3, Calm
  <1> QED  BY <1>1, <1>2, <1>3, <1>4, <1>5 DEF ConsoleStep

LEMMA QuietSystem ==
    ASSUME GatewayTypeOK, Quiet, NEW p \in Pids, SystemStep(p)
    PROVE  Quiet'
  <1>1. Serving' \subseteq Serving
    <2>1. CASE GatewayDies(p)
      <3>1. proc' = [proc EXCEPT ![p] = Corpse(p)] /\ Corpse(p).runs # "gateway"
        BY <2>1 DEF GatewayDies, Corpse, Free, ProcType, GatewayTypeOK
      <3> QED  BY <3>1, ServingShrinks DEF GatewayTypeOK
    <2>2. CASE PidReused(p) \/ OtherEnds(p)
      <3>1. \E r \in {"other", "free"} : proc' = [proc EXCEPT ![p].runs = r]
        BY <2>2 DEF PidReused, OtherEnds
      <3> QED  BY <3>1, ServingShrinks DEF GatewayTypeOK, ProcType
    <2> QED  BY <2>1, <2>2 DEF SystemStep
  <1> QED  BY <1>1, Calm DEF SystemStep, GatewayDies, PidReused, OtherEnds

\* OneGateway holds: while no two clients have overlapped and no record has
\* been lost, whoever is about to launch knows that nothing serves.
THEOREM OneGatewayHolds == GatewaySpec => []OneGateway
  <1> DEFINE Inv == raced \/ Quiet
  <1>1. GatewayInit => Inv
    <2> SUFFICES ASSUME GatewayInit PROVE Quiet
      OBVIOUS
    <2>1. Serving = {}
      BY DEF GatewayInit, Serving, Gateway, Free
    <2>2. \A c \in Clients : client[c].pc = "idle"
      BY DEF GatewayInit, Idle
    <2> QED  BY <2>1, <2>2 DEF Quiet, Alone, OnRecord, Knows, In, Window
  <1>2. GatewayTypeOK /\ Inv /\ [GatewayNext]_gatewayVars => Inv'
    <2> SUFFICES ASSUME GatewayTypeOK, Inv, [GatewayNext]_gatewayVars, ~ raced'
                 PROVE  Quiet'
      OBVIOUS
    <2>1. Quiet
      BY NotRacedBefore
    <2>2. CASE UNCHANGED gatewayVars
      <3>1. Serving' = Serving
        BY <2>2 DEF gatewayVars, Serving, Gateway
      <3> QED  BY <2>1, <2>2, <3>1, Calm DEF gatewayVars
    <2> QED  BY <2>1, <2>2, QuietAgent, QuietConsole, QuietSystem DEF GatewayNext
  <1>3. Inv => OneGateway
    <2> SUFFICES ASSUME Quiet PROVE Cardinality(Serving) \in {0, 1}
      BY DEF OneGateway
    <2>1. PICK x : Serving \subseteq {x}
      BY DEF Quiet, OnRecord, Recording, Knows
    <2>2. Serving = {} \/ Serving = {x}
      BY <2>1
    <2> QED  BY <2>2, FS_EmptySet, FS_Singleton
  <1> HIDE DEF Inv
  <1> QED  BY <1>1, <1>2, <1>3, GatewayTypeCorrect, PTL DEF GatewaySpec
=============================================================================
