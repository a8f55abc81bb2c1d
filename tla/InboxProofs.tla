----------------------------- MODULE InboxProofs -----------------------------
(***************************************************************************)
(* Proofs about the consumers of an inbox, for any number of poll loops,   *)
(* imports, calls and faults.  That no message is lost needs little more   *)
(* than what a thread has in its hand; that no response is sent without an *)
(* attempt at the task needs an account: a result that the session is      *)
(* about to write, that lies in a file, or that an import has read, is an  *)
(* attempt not yet answered, and counts once.                              *)
(***************************************************************************)
EXTENDS Inbox, Integers, TLAPS

-----------------------------------------------------------------------------
(* The inductive invariant *)

\* What a thread will acknowledge has been handled.
HandsHandled == \A t \in Threads : loop[t].hand \in handled \cup {Nothing}

\* Who writes or sends a file has one.
FilesHeld ==
    /\ session.pc \in {"write", "report"} => session.file \in Messages
    /\ \A i \in Importers :
          IF importer[i].pc = "idle" THEN importer[i].file = Nothing
                                     ELSE importer[i].file \in Messages

\* The attempts of which file m still has to be the answer.
Held(m) == \E i \in Importers : importer[i].file = m
Sending(m) == \E i \in Importers : importer[i].file = m /\ importer[i].pc = "send"

Owed(m) == IF Sending(m) \/ (~ Held(m) /\ result[m] = "whole") THEN 1 ELSE 0

\* The session has worked on a task whose result it has not finished writing.
Working == IF session.pc = "report" THEN 1 ELSE 0

Due == Owed(Hop) + Owed(Raw) + Working

\* Attempts are only counted up to MaxCount.
Covered(attempts, answers, due) == attempts = MaxCount \/ answers + due <= attempts

Apart == \A i, j \in Importers :
            i # j => importer[i].file # importer[j].file \/ importer[i].file = Nothing

Account == resent \/ (Apart /\ Covered(tries, replies, Due))

Inv == TypeOK /\ HandsHandled /\ FilesHeld /\ NoneLost /\ Account

-----------------------------------------------------------------------------
(* Counting *)

CallSteps == {"start", "chain", "asked", "raw", "sent", "cron", "waiting", "end"}
Counters == [faults : 0..MaxFaults, calls : 0..MaxCalls]

LEMMA MoreCounts ==
    ASSUME NEW n \in 0..MaxCount
    PROVE  More(n) \in 0..MaxCount /\ n <= More(n)
  BY BoundsAreNatural DEF More

\* What keeps the account: an attempt may be answered, be owed from now
\* on, or be forgotten; an answer is one less to be owed.
LEMMA CoveredKept ==
    ASSUME NEW d \in 0..MaxCount, NEW r \in 0..MaxCount,
           NEW s \in Nat, NEW t \in Nat, Covered(d, r, s)
    PROVE  /\ t <= s => /\ Covered(d, r, t)
                        /\ Covered(More(d), r, t)
                        /\ Covered(More(d), More(r), t)
           /\ t <= s + 1 => Covered(More(d), r, t)
           /\ t + 1 <= s => Covered(d, More(r), t)
  BY BoundsAreNatural DEF Covered, More

LEMMA OwedFacts ==
    /\ \A m \in Messages : Owed(m) \in {0, 1}
    /\ Working \in {0, 1}
    /\ Due \in Nat
  <1>1. \A m \in Messages : Owed(m) \in {0, 1}
    BY DEF Owed
  <1>2. Working \in {0, 1}
    BY DEF Working
  <1> QED  BY <1>1, <1>2 DEF Due, Messages

\* One attempt and one answer, or an attempt at most.
Attempted == tries' \in {tries, More(tries)} /\ replies' = replies
Answered == tries' = More(tries) /\ replies' = More(replies)

LEMMA AccountKept ==
    ASSUME Inv, UNCHANGED claudeVars, Attempted \/ Answered
    PROVE  tries' \in 0..MaxCount /\ replies' \in 0..MaxCount /\ Account'
  <1>1. tries \in 0..MaxCount /\ replies \in 0..MaxCount
    BY DEF Inv, TypeOK
  <1>2. tries' \in 0..MaxCount /\ replies' \in 0..MaxCount
    BY <1>1, MoreCounts DEF Attempted, Answered
  <1>3. resent' = resent /\ Apart' = Apart /\ Due' = Due
    BY DEF claudeVars, Apart, Due, Owed, Held, Sending, Working
  <1>4. Due \in Nat /\ Due <= Due
    BY OwedFacts
  <1>5. ASSUME Covered(tries, replies, Due)  PROVE Covered(tries', replies', Due)
    BY <1>1, <1>4, <1>5, CoveredKept DEF Attempted, Answered
  <1> QED  BY <1>2, <1>3, <1>5 DEF Inv, Account

-----------------------------------------------------------------------------
(* What the common parts of the actions do *)

LEMMA FaultFacts ==
    ASSUME TypeOK, Fault
    PROVE  used' \in Counters /\ disturbed' = TRUE
  BY BoundsAreNatural DEF TypeOK, Fault, Counters

LEMMA CallFacts ==
    ASSUME TypeOK, Call
    PROVE  used' \in Counters
  BY BoundsAreNatural DEF TypeOK, Call, Counters

Statuses == {"none", "pending", "settled"}

LEMMA QueueFacts ==
    ASSUME TypeOK, NEW m \in Messages, Queue(m)
    PROVE  /\ status' \in [Messages -> Statuses]
           /\ \A n \in Messages : status'[n] = "settled" => status[n] = "settled"
  BY DEF TypeOK, Queue, Statuses

LEMMA SettleFacts ==
    ASSUME TypeOK, NEW m \in Messages, Settle(m)
    PROVE  /\ status' \in [Messages -> Statuses]
           /\ \A n \in Messages : status'[n] = "settled" => status[n] = "settled" \/ n = m
  BY DEF TypeOK, Settle, Statuses

\* Whoever lets nothing disappear that was handled, taken or shown.
LEMMA NoneLostKept ==
    ASSUME NoneLost, handled \subseteq handled', lost \subseteq lost', disturbed => disturbed',
           \A m \in inbox.taken \cup shown :
              m \in inbox'.taken \cup shown' \/ (m \in lost' /\ disturbed'),
           \A m \in Messages : status'[m] = "settled" =>
              status[m] = "settled" \/ m \in handled' \cup inbox'.taken \cup shown'
    PROVE  NoneLost'
  BY DEF NoneLost

SameOrQueued == \A m \in Messages : status'[m] = "settled" => status[m] = "settled"

\* A step of the sender leaves the consumers alone.
LEMMA SenderStep ==
    ASSUME Inv, UNCHANGED <<gatewayVars, agentVars, claudeVars>>,
           status' \in [Messages -> Statuses], SameOrQueued, call' \in CallSteps,
           used' \in Counters, disturbed' \in BOOLEAN, disturbed => disturbed',
           Attempted \/ Answered
    PROVE  Inv'
  <1>1. tries' \in 0..MaxCount /\ replies' \in 0..MaxCount /\ Account'
    BY AccountKept
  <1>2. TypeOK'
    BY <1>1 DEF Inv, TypeOK, gatewayVars, agentVars, claudeVars, Statuses, CallSteps, Counters
  <1>3. HandsHandled' /\ FilesHeld'
    BY DEF Inv, HandsHandled, FilesHeld, gatewayVars, claudeVars
  <1>4. NoneLost'
    BY NoneLostKept DEF Inv, SameOrQueued, gatewayVars, agentVars
  <1> QED  BY <1>1, <1>2, <1>3, <1>4 DEF Inv

\* A step of the gateway.
LEMMA GatewayStep ==
    ASSUME Inv, UNCHANGED <<call, agentVars, claudeVars>>, stop' \in BOOLEAN,
           loop' \in [Threads -> [run : BOOLEAN, batch : SUBSET Messages,
                                  hand : Messages \cup {Nothing}]],
           handled' \subseteq Messages, handled \subseteq handled', HandsHandled',
           status' \in [Messages -> Statuses],
           \A m \in Messages : status'[m] = "settled" => status[m] = "settled" \/ m \in handled',
           used' \in Counters, disturbed' \in BOOLEAN, disturbed => disturbed',
           Attempted \/ Answered
    PROVE  Inv'
  <1>1. tries' \in 0..MaxCount /\ replies' \in 0..MaxCount /\ Account'
    BY AccountKept
  <1>2. TypeOK'
    BY <1>1 DEF Inv, TypeOK, agentVars, claudeVars, Statuses, CallSteps, Counters
  <1>3. FilesHeld'
    BY DEF Inv, FilesHeld, claudeVars
  <1>4. NoneLost'
    BY NoneLostKept DEF Inv, agentVars
  <1> QED  BY <1>1, <1>2, <1>3, <1>4 DEF Inv

\* A step of the agent's check_inbox.
LEMMA AgentStep ==
    ASSUME Inv, UNCHANGED <<call, gatewayVars, claudeVars, countVars>>,
           inbox' \in [todo : SUBSET Messages, taken : SUBSET Messages],
           shown' \subseteq Messages, lost' \subseteq Messages,
           status' \in [Messages -> Statuses],
           used' \in Counters, disturbed' \in BOOLEAN, NoneLost'
    PROVE  Inv'
  <1>1. Attempted
    BY DEF Attempted, countVars
  <1>2. tries' \in 0..MaxCount /\ replies' \in 0..MaxCount /\ Account'
    BY <1>1, AccountKept
  <1>3. TypeOK'
    BY <1>2 DEF Inv, TypeOK, gatewayVars, claudeVars, Statuses, CallSteps, Counters
  <1>4. HandsHandled' /\ FilesHeld'
    BY DEF Inv, HandsHandled, FilesHeld, gatewayVars, claudeVars
  <1> QED  BY <1>2, <1>3, <1>4 DEF Inv

\* A step of the exchange of files.
LEMMA ClaudeStep ==
    ASSUME Inv, UNCHANGED <<status, call, gatewayVars, agentVars>>,
           task' \in [Messages -> Files], result' \in [Messages -> Files],
           session' \in [pc : {"idle", "export", "write", "work", "report"},
                         todo : SUBSET Messages, file : Messages \cup {Nothing}],
           importer' \in [Importers -> [pc : {"idle", "send", "unlink"},
                                        file : Messages \cup {Nothing}]],
           FilesHeld', resent' \in BOOLEAN,
           tries' \in 0..MaxCount, replies' \in 0..MaxCount, Account',
           used' \in Counters, disturbed' \in BOOLEAN, disturbed => disturbed'
    PROVE  Inv'
  <1>1. TypeOK'
    BY DEF Inv, TypeOK, gatewayVars, agentVars, Statuses, CallSteps, Counters
  <1>2. HandsHandled'
    BY DEF Inv, HandsHandled, gatewayVars
  <1>3. NoneLost'
    BY NoneLostKept DEF Inv, gatewayVars, agentVars
  <1> QED  BY <1>1, <1>2, <1>3 DEF Inv

-----------------------------------------------------------------------------
(* The sender *)

LEMMA SenderKeepsInv ==
    ASSUME Inv, Sender
    PROVE  Inv'
  <1> USE DEF CallSteps
  <1>1. /\ status \in [Messages -> Statuses] /\ used \in Counters /\ disturbed \in BOOLEAN
        /\ Hop \in Messages /\ Raw \in Messages
    BY DEF Inv, TypeOK, Statuses, Counters, Messages
  <1>2. CASE SendStart
    BY <1>1, <1>2, SenderStep DEF SendStart, SameOrQueued, Attempted, countVars
  <1>3. CASE ChainSend
    BY <1>1, <1>3, SenderStep, QueueFacts DEF Inv, ChainSend, SameOrQueued, Attempted, countVars
  <1>4. CASE ChainEnds
    BY <1>1, <1>4, SenderStep DEF ChainEnds, SameOrQueued, Attempted, countVars
  <1>5. CASE ChainFails
    BY <1>1, <1>5, SenderStep, FaultFacts DEF Inv, ChainFails, SameOrQueued, Attempted, countVars
  <1>6. CASE RawSend
    BY <1>1, <1>6, SenderStep, QueueFacts DEF Inv, RawSend, SameOrQueued, Attempted, countVars
  <1>7. CASE RawFails
    BY <1>1, <1>7, SenderStep, FaultFacts DEF Inv, RawFails, SameOrQueued, Attempted, countVars
  <1>8. CASE CronRuns
    BY <1>1, <1>8, SenderStep DEF CronRuns, SameOrQueued, Attempted, Attempt
  <1>9. CASE SubagentAnswers
    BY <1>1, <1>9, SenderStep DEF SubagentAnswers, SameOrQueued, Answered, Attempt, Reply
  <1>10. CASE SubagentFails
    BY <1>1, <1>10, SenderStep, FaultFacts DEF Inv, SubagentFails, SameOrQueued, Attempted
  <1> QED
    BY <1>2, <1>3, <1>4, <1>5, <1>6, <1>7, <1>8, <1>9, <1>10 DEF Sender

-----------------------------------------------------------------------------
(* The gateway *)

Loops == [Threads -> [run : BOOLEAN, batch : SUBSET Messages, hand : Messages \cup {Nothing}]]

\* A step that neither handles nor acknowledges, and puts nothing in a hand.
LEMMA QuietGatewayStep ==
    ASSUME Inv, UNCHANGED <<status, call, handled, agentVars, claudeVars>>,
           stop' \in BOOLEAN, loop' \in Loops,
           \A t \in Threads : loop'[t].hand \in {loop[t].hand, Nothing},
           used' \in Counters, disturbed' \in BOOLEAN, disturbed => disturbed',
           Attempted \/ Answered
    PROVE  Inv'
  <1>1. HandsHandled'
    BY DEF Inv, HandsHandled
  <1> QED  BY <1>1, GatewayStep DEF Inv, TypeOK, Loops, Statuses

LEMMA HandleKeepsInv ==
    ASSUME Inv, NEW t \in Threads, Handle(t)
    PROVE  Inv'
  <1>1. PICK m \in Messages : /\ loop' = [loop EXCEPT ![t].hand = m]
                              /\ handled' = handled \cup {m}
    BY DEF Handle, Hand, Inv, TypeOK
  <1>2. loop' \in Loops /\ \A u \in Threads : loop'[u].hand \in {loop[u].hand, m}
    BY <1>1 DEF Inv, TypeOK, Loops
  <1>3. handled' \subseteq Messages /\ handled \subseteq handled' /\ m \in handled'
    BY <1>1 DEF Inv, TypeOK
  <1>4. HandsHandled'
    BY <1>2, <1>3 DEF Inv, HandsHandled
  <1>5. Attempted \/ Answered
    BY DEF Handle, Attempted, Answered, Attempt, Reply, countVars
  <1>6. Fault \/ UNCHANGED <<used, disturbed>>
    BY DEF Handle
  <1>7. used' \in Counters /\ disturbed' \in BOOLEAN /\ (disturbed => disturbed')
    <2>1. CASE Fault
      BY <2>1, FaultFacts DEF Inv
    <2>2. CASE UNCHANGED <<used, disturbed>>
      BY <2>2 DEF Inv, TypeOK, Counters
    <2> QED  BY <1>6, <2>1, <2>2
  <1>8. stop' \in BOOLEAN /\ status' \in [Messages -> Statuses] /\ status' = status
    BY DEF Handle, Inv, TypeOK, Statuses
  <1> QED  BY <1>2, <1>3, <1>4, <1>5, <1>7, <1>8, GatewayStep DEF Handle, Loops

\* What is acknowledged is in the thread's hand, and so was handled.
LEMMA AcknowledgeKeepsInv ==
    ASSUME Inv, NEW t \in Threads, Acknowledge(t)
    PROVE  Inv'
  <1> DEFINE m == loop[t].hand
             mid == [loop[t] EXCEPT !.hand = Nothing, !.batch = loop[t].batch \ {m}]
  <1>0. /\ loop[t].run \in BOOLEAN /\ loop[t].batch \subseteq Messages
        /\ loop[t] = [run |-> loop[t].run, batch |-> loop[t].batch, hand |-> loop[t].hand]
    BY DEF Inv, TypeOK
  <1>1. m \in Messages /\ m \in handled
    BY DEF Acknowledge, Inv, TypeOK, HandsHandled
  <1>2. mid \in [run : BOOLEAN, batch : SUBSET Messages, hand : Messages \cup {Nothing}]
    BY <1>0
  <1>3. mid.hand = Nothing
    BY <1>0
  <1>4. loop' = [loop EXCEPT ![t] = mid]
    BY DEF Acknowledge, Inv, TypeOK
  <1> HIDE DEF mid
  <1>5. loop' \in Loops /\ \A u \in Threads : loop'[u].hand \in {loop[u].hand, Nothing}
    BY <1>2, <1>3, <1>4 DEF Inv, TypeOK, Loops
  <1>6. HandsHandled'
    BY <1>5 DEF Acknowledge, Inv, HandsHandled
  <1>7. /\ status' \in [Messages -> Statuses]
        /\ \A n \in Messages : status'[n] = "settled" => status[n] = "settled" \/ n \in handled'
    BY <1>1, SettleFacts DEF Acknowledge, Inv, TypeOK, Statuses
  <1>8. used' \in Counters /\ disturbed' \in BOOLEAN /\ (disturbed => disturbed')
    <2>1. CASE Fault
      BY <2>1, FaultFacts DEF Inv
    <2>2. CASE UNCHANGED <<used, disturbed>>
      BY <2>2 DEF Inv, TypeOK, Counters
    <2> QED  BY <2>1, <2>2 DEF Acknowledge
  <1>9. handled' \subseteq Messages /\ handled \subseteq handled' /\ stop' \in BOOLEAN
    BY DEF Acknowledge, Inv, TypeOK
  <1>10. Attempted
    BY DEF Acknowledge, Attempted, countVars
  <1> QED
    BY <1>5, <1>6, <1>7, <1>8, <1>9, <1>10, GatewayStep DEF Acknowledge, Loops

LEMMA GatewayKeepsInv ==
    ASSUME Inv, Gateway
    PROVE  Inv'
  <1>1. /\ stop \in BOOLEAN /\ loop \in Loops /\ used \in Counters /\ disturbed \in BOOLEAN
        /\ Pending \subseteq Messages
    BY DEF Inv, TypeOK, Loops, Counters, Pending
  <1>2. CASE ListenerStart
    <2>1. PICK t \in Threads : loop' = [loop EXCEPT ![t].run = TRUE]
      BY <1>2 DEF ListenerStart
    <2>2. loop' \in Loops /\ \A u \in Threads : loop'[u].hand = loop[u].hand
      BY <1>1, <2>1 DEF Loops
    <2> QED  BY <1>1, <1>2, <2>2, QuietGatewayStep DEF ListenerStart, Attempted, countVars
  <1>3. CASE ListenerStop
    BY <1>1, <1>3, CallFacts, QuietGatewayStep DEF Inv, ListenerStop, Attempted, countVars
  <1>4. CASE GatewayCrash
    <2>1. loop' \in Loops /\ \A u \in Threads : loop'[u].hand = Nothing
      BY <1>4 DEF GatewayCrash, NoThread, Loops
    <2> QED
      BY <1>1, <1>4, <2>1, FaultFacts, QuietGatewayStep DEF Inv, GatewayCrash, Attempted, countVars
  <1>5. CASE ProcessOnce
    BY <1>1, <1>5, CallFacts, QuietGatewayStep
       DEF Inv, ProcessOnce, Attempted, Answered, Attempt, Reply, countVars, gatewayVars
  <1>6. ASSUME NEW t \in Threads, Poll(t)  PROVE Inv'
    <2>1. loop' = [loop EXCEPT ![t].batch = Pending]
      BY <1>6 DEF Poll
    <2>2. loop' \in Loops /\ \A u \in Threads : loop'[u].hand = loop[u].hand
      BY <1>1, <2>1 DEF Loops
    <2> QED  BY <1>1, <1>6, <2>2, QuietGatewayStep DEF Poll, Attempted, countVars
  <1>7. ASSUME NEW t \in Threads, LoopExit(t)  PROVE Inv'
    <2>1. loop' = [loop EXCEPT ![t] = NoThread]
      BY <1>7 DEF LoopExit
    <2>2. loop' \in Loops /\ \A u \in Threads : loop'[u].hand \in {loop[u].hand, Nothing}
      BY <1>1, <2>1 DEF Loops, NoThread
    <2> QED  BY <1>1, <1>7, <2>2, QuietGatewayStep DEF LoopExit, Attempted, countVars
  <1> QED
    BY <1>2, <1>3, <1>4, <1>5, <1>6, <1>7, HandleKeepsInv, AcknowledgeKeepsInv DEF Gateway

-----------------------------------------------------------------------------
(* The agent *)

LEMMA AgentKeepsInv ==
    ASSUME Inv, Agent
    PROVE  Inv'
  <1> DEFINE Inboxes == [todo : SUBSET Messages, taken : SUBSET Messages]
  <1>1. /\ inbox \in Inboxes /\ shown \subseteq Messages /\ lost \subseteq Messages
        /\ status \in [Messages -> Statuses] /\ used \in Counters /\ disturbed \in BOOLEAN
        /\ Pending \subseteq Messages
    BY DEF Inv, TypeOK, Statuses, Counters, Pending
  <1>2. CASE InboxPoll
    <2>1. inbox' \in Inboxes /\ inbox'.taken = inbox.taken
      BY <1>1, <1>2 DEF InboxPoll
    <2>2. used' \in Counters
      BY <1>2, CallFacts DEF Inv, InboxPoll
    <2>3. NoneLost'
      BY <1>2, <2>1, NoneLostKept DEF Inv, InboxPoll, gatewayVars
    <2> QED  BY <1>1, <1>2, <2>1, <2>2, <2>3, AgentStep DEF InboxPoll
  <1>3. CASE InboxReturn
    <2>1. inbox' \in Inboxes /\ shown' \subseteq Messages
      BY <1>1, <1>3 DEF InboxReturn
    <2>2. NoneLost'
      BY <1>3, NoneLostKept DEF Inv, InboxReturn, gatewayVars
    <2> QED  BY <1>1, <1>3, <2>1, <2>2, AgentStep DEF InboxReturn
  <1>4. CASE InboxFails
    <2>1. inbox' \in Inboxes /\ lost' \subseteq Messages
      BY <1>1, <1>4 DEF InboxFails
    <2>2. used' \in Counters /\ disturbed' = TRUE
      BY <1>4, FaultFacts DEF Inv, InboxFails
    <2>3. NoneLost'
      BY <1>4, <2>2, NoneLostKept DEF Inv, InboxFails, gatewayVars
    <2> QED  BY <1>1, <1>4, <2>1, <2>2, <2>3, AgentStep DEF InboxFails
  <1>5. ASSUME NEW m \in Messages, InboxTake(m)  PROVE Inv'
    <2>1. inbox' \in Inboxes /\ inbox'.taken = inbox.taken \cup {m}
      BY <1>1, <1>5 DEF InboxTake
    <2>2. /\ status' \in [Messages -> Statuses]
          /\ \A n \in Messages : status'[n] = "settled" => status[n] = "settled" \/ n = m
      BY <1>5, SettleFacts DEF Inv, InboxTake
    <2>3. NoneLost'
      BY <1>5, <2>1, <2>2, NoneLostKept DEF Inv, InboxTake, gatewayVars
    <2> QED  BY <1>1, <1>5, <2>1, <2>2, <2>3, AgentStep DEF InboxTake
  <1>6. ASSUME NEW m \in Messages, InboxTooLate(m)  PROVE Inv'
    <2>1. inbox' \in Inboxes /\ lost' \subseteq Messages /\ disturbed' = TRUE
      BY <1>1, <1>6 DEF InboxTooLate
    <2>2. NoneLost'
      BY <1>6, <2>1, NoneLostKept DEF Inv, InboxTooLate, gatewayVars
    <2> QED  BY <1>1, <1>6, <2>1, <2>2, AgentStep DEF InboxTooLate
  <1> QED  BY <1>2, <1>3, <1>4, <1>5, <1>6 DEF Agent

-----------------------------------------------------------------------------
(* The exchange of files *)

Counts == tries' \in 0..MaxCount /\ replies' \in 0..MaxCount

\* One entry of the account changes.
LEMMA DueByOne ==
    ASSUME NEW m \in Messages, \A n \in Messages \ {m} : Owed(n)' = Owed(n)
    PROVE  Due' + Owed(m) + Working = Due + Owed(m)' + Working'
  <1>1. /\ Owed(Hop) \in Int /\ Owed(Raw) \in Int /\ Working \in Int
        /\ Owed(Hop)' \in Int /\ Owed(Raw)' \in Int /\ Working' \in Int
    BY DEF Owed, Working
  <1>2. Due = Owed(Hop) + Owed(Raw) + Working /\ Due' = Owed(Hop)' + Owed(Raw)' + Working'
    BY DEF Due
  <1>3. CASE m = Hop
    <2>1. Owed(Raw)' = Owed(Raw)
      BY <1>3, MessagesDiffer DEF Messages
    <2> QED  BY <1>1, <1>2, <1>3, <2>1
  <1>4. CASE m = Raw
    <2>1. Owed(Hop)' = Owed(Hop)
      BY <1>4, MessagesDiffer DEF Messages
    <2> QED  BY <1>1, <1>2, <1>4, <2>1
  <1> QED  BY <1>3, <1>4 DEF Messages

LEMMA AccountStep ==
    ASSUME Inv, resent => resent',
           \/ UNCHANGED countVars
           \/ tries' = More(tries) /\ replies' = replies
           \/ tries' = tries /\ replies' = More(replies),
           ~ resent' => /\ Apart'
                        /\ \/ UNCHANGED countVars /\ Due' <= Due
                           \/ tries' = More(tries) /\ replies' = replies /\ Due' <= Due + 1
                           \/ tries' = tries /\ replies' = More(replies) /\ Due' + 1 <= Due
    PROVE  Counts /\ Account'
  <1>1. tries \in 0..MaxCount /\ replies \in 0..MaxCount
    BY DEF Inv, TypeOK
  <1>2. Counts
    BY <1>1, MoreCounts DEF countVars, Counts
  <1>3. Due \in Nat /\ Due' \in Nat
    <2>1. Owed(Hop)' \in {0, 1} /\ Owed(Raw)' \in {0, 1} /\ Working' \in {0, 1}
      BY DEF Owed, Working
    <2> QED  BY <2>1, OwedFacts DEF Due
  <1>4. ASSUME ~ resent', Covered(tries, replies, Due)
        PROVE  Covered(tries', replies', Due')
    <2>1. CASE UNCHANGED countVars /\ Due' <= Due
      BY <1>1, <1>3, <1>4, <2>1, CoveredKept DEF countVars
    <2>2. CASE tries' = More(tries) /\ replies' = replies /\ Due' <= Due + 1
      BY <1>1, <1>3, <1>4, <2>2, CoveredKept
    <2>3. CASE tries' = tries /\ replies' = More(replies) /\ Due' + 1 <= Due
      BY <1>1, <1>3, <1>4, <2>3, CoveredKept
    <2> QED  BY <1>4, <2>1, <2>2, <2>3
  <1>5. Account'
    <2>1. CASE resent'
      BY <2>1 DEF Account
    <2>2. CASE ~ resent'
      <3>1. Apart' /\ Covered(tries, replies, Due)
        BY <2>2 DEF Inv, Account
      <3> QED  BY <2>2, <3>1, <1>4 DEF Account
    <2> QED  BY <2>1, <2>2
  <1> QED  BY <1>2, <1>5

Sessions == [pc : {"idle", "export", "write", "work", "report"},
             todo : SUBSET Messages, file : Messages \cup {Nothing}]
Imports == [pc : {"idle", "send", "unlink"}, file : Messages \cup {Nothing}]

\* The steps before the session works, and its end: results, imports and
\* counts stay.
LEMMA SessionStep ==
    ASSUME Inv, UNCHANGED <<status, call, gatewayVars, agentVars, result, importer, resent,
                            countVars>>,
           task' \in [Messages -> Files], session' \in Sessions,
           session'.pc = "write" => session'.file \in Messages, session'.pc # "report",
           used' \in Counters, disturbed' \in BOOLEAN, disturbed => disturbed'
    PROVE  Inv'
  <1>1. FilesHeld'
    BY DEF Inv, FilesHeld
  <1>2. Apart' = Apart
    BY DEF Apart
  <1>3. Due' <= Due
    <2>1. Owed(Hop)' = Owed(Hop) /\ Owed(Raw)' = Owed(Raw)
      BY DEF Owed, Held, Sending
    <2>2. Working' = 0 /\ Working \in {0, 1} /\ Owed(Hop) \in {0, 1} /\ Owed(Raw) \in {0, 1}
      BY DEF Owed, Working
    <2> QED  BY <2>1, <2>2 DEF Due
  <1>4. ~ resent' => Apart'
    BY <1>2 DEF Inv, Account
  <1>5. Counts /\ Account'
    BY <1>3, <1>4, AccountStep
  <1> QED  BY <1>1, <1>5, ClaudeStep DEF Inv, TypeOK, Counts, Sessions

\* A step of one import, which is about message m and leaves the session alone.
LEMMA ImportStep ==
    ASSUME Inv, UNCHANGED <<status, call, gatewayVars, agentVars, task, session>>,
           NEW i \in Importers, NEW v \in Imports, NEW m \in Messages,
           importer' = [importer EXCEPT ![i] = v],
           importer[i].file \in {m, Nothing},
           v \in {NoImport} \cup [pc : {"send", "unlink"}, file : {m}],
           result' \in {result, [result EXCEPT ![m] = Nothing]},
           resent' \in BOOLEAN, resent => resent',
           \/ UNCHANGED countVars
           \/ tries' = tries /\ replies' = More(replies),
           ~ resent' => /\ Apart'
                        /\ \/ UNCHANGED countVars /\ Owed(m)' <= Owed(m)
                           \/ /\ tries' = tries /\ replies' = More(replies)
                              /\ Owed(m)' = 0 /\ Owed(m) = 1,
           used' \in Counters, disturbed' \in BOOLEAN, disturbed => disturbed'
    PROVE  Inv'
  <1>1. m # Nothing
    BY MessagesDiffer DEF Messages
  <1>2. importer' \in [Importers -> Imports] /\ result' \in [Messages -> Files]
    BY DEF Inv, TypeOK, Imports, Files
  <1>3. \A j \in Importers : importer'[j] = IF j = i THEN v ELSE importer[j]
    BY DEF Inv, TypeOK
  <1>4. FilesHeld'
    BY <1>3 DEF Inv, FilesHeld, NoImport
  <1>5. ASSUME NEW n \in Messages \ {m}  PROVE Owed(n)' = Owed(n)
    <2>1. n # Nothing /\ v.file # n /\ importer[i].file # n
      BY <1>5, MessagesDiffer DEF Messages, NoImport
    <2>2. \A j \in Importers :
             /\ importer'[j].file = n <=> importer[j].file = n
             /\ importer[j].file = n => importer'[j].pc = importer[j].pc
      BY <1>3, <2>1
    <2>3. Held(n)' <=> Held(n)
      BY <2>2 DEF Held
    <2>4. Sending(n)' <=> Sending(n)
      BY <2>2 DEF Sending
    <2>5. result'[n] = result[n]
      BY <1>5 DEF Inv, TypeOK
    <2> QED  BY <2>3, <2>4, <2>5 DEF Owed
  <1>6. Due' + Owed(m) = Due + Owed(m)'
    <2>1. Due' + Owed(m) + Working = Due + Owed(m)' + Working'
      BY <1>5, DueByOne
    <2>2. Working' = Working
      BY DEF Working
    <2>3. /\ Owed(m) \in Int /\ Owed(m)' \in Int /\ Working \in Int
          /\ Due \in Int /\ Due' \in Int
      BY DEF Owed, Working, Due
    <2> QED  BY <2>1, <2>2, <2>3
  <1>7. Due \in Int /\ Due' \in Int /\ Owed(m) \in Int /\ Owed(m)' \in Int
    BY DEF Due, Owed, Working
  <1>8. Owed(m)' <= Owed(m) => Due' <= Due
    BY <1>6, <1>7
  <1>9. Owed(m)' = 0 /\ Owed(m) = 1 => Due' + 1 <= Due
    <2> SUFFICES ASSUME Owed(m)' = 0, Owed(m) = 1  PROVE Due' + 1 <= Due
      OBVIOUS
    <2>1. Due' + 1 = Due + 0
      BY <1>6
    <2>2. \A a, b \in Int : a + 1 = b + 0 => a + 1 <= b
      OBVIOUS
    <2>3. Due \in Int /\ Due' \in Int
      BY <1>7
    <2> QED  BY <2>1, <2>2, <2>3
  <1>10. Counts /\ Account'
    BY <1>8, <1>9, AccountStep
  <1> QED  BY <1>2, <1>4, <1>10, ClaudeStep DEF Inv, TypeOK, Counts, Imports

LEMMA WorkKeepsInv ==
    ASSUME Inv, NEW m \in Messages, Work(m)
    PROVE  Inv'
  <1>1. /\ session' \in Sessions /\ session'.pc = "report" /\ session'.file = m
        /\ session.pc = "work"
    BY DEF Work, Inv, TypeOK, Sessions
  <1>2. result' \in [Messages -> Files]
    BY DEF Work, Inv, TypeOK, Files
  <1>3. FilesHeld'
    BY <1>1 DEF Work, Inv, FilesHeld
  <1>4. ASSUME NEW n \in Messages \ {m}  PROVE Owed(n)' = Owed(n)
    <2>1. result'[n] = result[n]
      BY DEF Work, Inv, TypeOK
    <2> QED  BY <2>1 DEF Work, Owed, Held, Sending
  <1>5. Owed(m)' <= Owed(m)
    <2>1. result'[m] = "torn"
      BY DEF Work, Inv, TypeOK
    <2>2. Sending(m)' = Sending(m)
      BY DEF Work, Sending
    <2> QED  BY <2>1, <2>2 DEF Owed
  <1>6. Due' <= Due + 1
    <2>1. Due' + Owed(m) + Working = Due + Owed(m)' + Working'
      BY <1>4, DueByOne
    <2>2. Working = 0 /\ Working' = 1
      BY <1>1 DEF Working
    <2>3. Owed(m) \in Int /\ Owed(m)' \in Int /\ Due \in Int /\ Due' \in Int
      BY DEF Owed, Working, Due
    <2>4. Due' + Owed(m) + 0 = Due + Owed(m)' + 1
      BY <2>1, <2>2
    <2> QED  BY <1>5, <2>3, <2>4
  <1>7. Apart' = Apart /\ resent' = resent
    BY DEF Work, Apart
  <1>8. ~ resent' => Apart'
    BY <1>7 DEF Inv, Account
  <1>9. tries' = More(tries) /\ replies' = replies
    BY DEF Work, Attempt
  <1>10. Counts /\ Account'
    BY <1>6, <1>7, <1>8, <1>9, AccountStep
  <1> QED
    BY <1>1, <1>2, <1>3, <1>10, ClaudeStep DEF Inv, TypeOK, Counts, Sessions, Counters, Work

LEMMA ReportKeepsInv ==
    ASSUME Inv, Report
    PROVE  Inv'
  <1> DEFINE m == session.file
  <1>1. m \in Messages /\ session.pc = "report"
    BY DEF Report, Inv, FilesHeld
  <1>2. session' \in Sessions /\ session'.pc = "idle"
    BY DEF Report, NoSession, Sessions
  <1>3. result' \in [Messages -> Files] /\ task' \in [Messages -> Files]
    BY DEF Report, Inv, TypeOK, Files
  <1>4. FilesHeld'
    BY <1>2 DEF Report, Inv, FilesHeld
  <1> HIDE DEF m
  <1>5. ASSUME NEW n \in Messages \ {m}  PROVE Owed(n)' = Owed(n)
    <2>1. result'[n] = result[n]
      BY DEF Report, Inv, TypeOK, m
    <2> QED  BY <2>1 DEF Report, Owed, Held, Sending
  <1>6. Due' <= Due
    <2> SUFFICES ASSUME NEW x \in Messages, x = m  PROVE Due' <= Due
      BY <1>1
    <2>1. Due' + Owed(x) + Working = Due + Owed(x)' + Working'
      BY <1>5, DueByOne
    <2>2. Working = 1 /\ Working' = 0
      BY <1>1, <1>2 DEF Working
    <2>3. Owed(x) \in {0, 1} /\ Owed(x)' \in {0, 1} /\ Due \in Int /\ Due' \in Int
      BY DEF Owed, Working, Due
    <2>4. Due' + Owed(x) + 1 = Due + Owed(x)' + 0
      BY <2>1, <2>2
    <2> QED  BY <2>3, <2>4
  <1>7. Apart' = Apart /\ resent' = resent
    BY DEF Report, Apart
  <1>8. ~ resent' => Apart'
    BY <1>7 DEF Inv, Account
  <1>9. UNCHANGED countVars
    BY DEF Report
  <1>10. Counts /\ Account'
    BY <1>6, <1>7, <1>8, <1>9, AccountStep
  <1> QED
    BY <1>2, <1>3, <1>4, <1>10, ClaudeStep DEF Inv, TypeOK, Counts, Sessions, Counters, Report

\* What an import reads was owed by the file and is now owed by the import;
\* unless another import has read it.
LEMMA ImportReadKeepsInv ==
    ASSUME Inv, NEW i \in Importers, NEW m \in Messages, ImportRead(i, m)
    PROVE  Inv'
  <1> DEFINE v == [pc |-> "send", file |-> m]
  <1>1. v \in Imports /\ importer[i].file = Nothing /\ m # Nothing
    BY MessagesDiffer DEF ImportRead, Inv, FilesHeld, Imports, Messages
  <1>2. \A j \in Importers : importer'[j] = IF j = i THEN v ELSE importer[j]
    BY DEF ImportRead, Inv, TypeOK
  <1>3. ASSUME ~ resent'  PROVE Apart' /\ Owed(m)' <= Owed(m)
    <2>1. Apart /\ \A j \in Importers \ {i} : importer[j].file # m
      BY <1>3 DEF ImportRead, Inv, Account
    <2>2. Apart'
      BY <1>2, <2>1 DEF Apart
    <2>3. ~ Held(m)
      BY <1>1, <2>1 DEF Held
    <2>4. Owed(m) = 1
      BY <2>3 DEF ImportRead, Owed
    <2>5. Owed(m)' \in {0, 1}
      BY DEF Owed
    <2> QED  BY <2>2, <2>4, <2>5
  <1>4. resent' \in BOOLEAN /\ (resent => resent')
    BY DEF ImportRead, Inv, TypeOK
  <1> QED
    BY <1>1, <1>3, <1>4, ImportStep DEF ImportRead, Inv, TypeOK, Counters, countVars

LEMMA ImportSendKeepsInv ==
    ASSUME Inv, NEW i \in Importers, ImportSend(i)
    PROVE  Inv'
  <1> DEFINE m == importer[i].file
             v == [pc |-> "unlink", file |-> m]
  <1>1. m \in Messages /\ importer[i].pc = "send"
    BY DEF ImportSend, Inv, FilesHeld
  <1>2. v \in Imports /\ v \in {NoImport} \cup [pc : {"send", "unlink"}, file : {m}]
    BY <1>1 DEF Imports
  <1>3. importer' = [importer EXCEPT ![i] = v]
    <2>1. importer[i] \in Imports
      BY DEF Inv, TypeOK, Imports
    <2>2. [importer[i] EXCEPT !.pc = "unlink"] = v
      BY <2>1 DEF Imports
    <2>3. importer' = [importer EXCEPT ![i] = [importer[i] EXCEPT !.pc = "unlink"]]
      BY DEF ImportSend
    <2> QED  BY <2>2, <2>3
  <1>4. \A j \in Importers : importer'[j] = IF j = i THEN v ELSE importer[j]
    BY <1>3 DEF Inv, TypeOK
  <1> HIDE DEF m
  <1> SUFFICES ASSUME NEW x \in Messages, x = m  PROVE Inv'
    BY <1>1
  <1>5. ASSUME ~ resent'  PROVE Apart' /\ Owed(x)' = 0 /\ Owed(x) = 1
    <2>1. Apart
      BY <1>5 DEF ImportSend, Inv, Account
    <2>2. Apart'
      BY <1>4, <2>1 DEF Apart, m
    <2>3. Sending(x)
      BY <1>1 DEF Sending, m
    <2>4. Held(x)'
      BY <1>4 DEF Held
    <2>5. ~ Sending(x)'
      <3> SUFFICES ASSUME NEW j \in Importers, importer'[j].file = x, importer'[j].pc = "send"
                   PROVE  FALSE
        BY DEF Sending
      <3>1. j # i
        BY <1>4
      <3>2. importer[j].file = importer[i].file /\ importer[i].file # Nothing
        BY <3>1, <1>1, <1>4, MessagesDiffer DEF Messages, m
      <3> QED  BY <3>1, <3>2, <2>1 DEF Apart
    <2> QED  BY <2>2, <2>3, <2>4, <2>5 DEF Owed
  <1>6. tries' = tries /\ replies' = More(replies)
    BY DEF ImportSend, Reply
  <1> QED
    BY <1>1, <1>2, <1>3, <1>5, <1>6, ImportStep DEF ImportSend, Inv, TypeOK, Counters, m

LEMMA ImportUnlinkKeepsInv ==
    ASSUME Inv, NEW i \in Importers, ImportUnlink(i)
    PROVE  Inv'
  <1> DEFINE m == importer[i].file
  <1>1. m \in Messages /\ importer[i].pc = "unlink"
    BY DEF ImportUnlink, Inv, FilesHeld
  <1>2. NoImport \in Imports
    BY DEF Imports, NoImport
  <1>4. \A j \in Importers : importer'[j] = IF j = i THEN NoImport ELSE importer[j]
    BY DEF ImportUnlink, Inv, TypeOK
  <1> HIDE DEF m
  <1> SUFFICES ASSUME NEW x \in Messages, x = m  PROVE Inv'
    BY <1>1
  <1>5. ASSUME ~ resent'  PROVE Apart' /\ Owed(x)' <= Owed(x)
    <2>1. Apart
      BY <1>5 DEF ImportUnlink, Inv, Account
    <2>2. Apart'
      BY <1>4, <2>1 DEF Apart, NoImport
    <2>3. x # Nothing
      BY MessagesDiffer DEF Messages
    <2>4. \A j \in Importers : importer'[j].file # x
      <3> TAKE j \in Importers
      <3>1. CASE j = i
        BY <1>4, <2>3, <3>1 DEF NoImport
      <3>2. CASE j # i
        BY <1>4, <2>1, <2>3, <3>2 DEF Apart, m
      <3> QED  BY <3>1, <3>2
    <2>5. ~ Sending(x)'
      BY <2>4 DEF Sending
    <2>6. result'[x] # "whole"
      <3>1. result'[x] = Nothing
        BY DEF ImportUnlink, Inv, TypeOK, m
      <3> QED  BY <3>1, NothingIsNoFile
    <2>7. Owed(x)' = 0 /\ Owed(x) \in {0, 1}
      BY <2>5, <2>6 DEF Owed
    <2> QED  BY <2>2, <2>7
  <1> QED
    BY <1>1, <1>2, <1>5, ImportStep DEF ImportUnlink, Inv, TypeOK, Counters, countVars, m

LEMMA ImportFailsKeepsInv ==
    ASSUME Inv, NEW i \in Importers, ImportFails(i)
    PROVE  Inv'
  <1> DEFINE m == importer[i].file
  <1>1. m \in Messages /\ importer[i].pc \in {"send", "unlink"}
    BY DEF ImportFails, Inv, FilesHeld
  <1>2. NoImport \in Imports
    BY DEF Imports, NoImport
  <1>3. used' \in Counters /\ disturbed' = TRUE
    BY FaultFacts DEF ImportFails, Inv
  <1>4. \A j \in Importers : importer'[j] = IF j = i THEN NoImport ELSE importer[j]
    BY DEF ImportFails, Inv, TypeOK
  <1> HIDE DEF m
  <1> SUFFICES ASSUME NEW x \in Messages, x = m  PROVE Inv'
    BY <1>1
  <1>5. ASSUME ~ resent'  PROVE Apart' /\ Owed(x)' <= Owed(x)
    <2>1. Apart /\ importer[i].pc = "send"
      BY <1>1, <1>5 DEF ImportFails, Inv, Account
    <2>2. Apart'
      BY <1>4, <2>1 DEF Apart, NoImport
    <2>3. Sending(x)
      BY <2>1 DEF Sending, m
    <2>4. Owed(x) = 1 /\ Owed(x)' \in {0, 1}
      BY <2>3 DEF Owed
    <2> QED  BY <2>2, <2>4
  <1>6. resent' \in BOOLEAN /\ (resent => resent')
    BY DEF ImportFails, Inv, TypeOK
  <1> QED
    BY <1>1, <1>2, <1>3, <1>5, <1>6, ImportStep
       DEF ImportFails, Inv, TypeOK, countVars, m

LEMMA ExportKeepsInv ==
    ASSUME Inv,
           \/ ExportPoll \/ ExportWrite \/ ExportEnds \/ SessionEnds \/ SessionCrash
           \/ \E m \in Messages : ExportOpen(m)
    PROVE  Inv'
  <1>1. /\ session \in Sessions /\ task \in [Messages -> Files] /\ Pending \subseteq Messages
        /\ used \in Counters /\ disturbed \in BOOLEAN
    BY DEF Inv, TypeOK, Sessions, Counters, Pending
  <1>2. CASE ExportPoll
    <2>1. session' \in Sessions /\ session'.pc = "export"
      BY <1>1, <1>2 DEF ExportPoll, Sessions
    <2>2. used' \in Counters
      BY <1>2, CallFacts DEF ExportPoll, Inv
    <2> QED  BY <1>1, <1>2, <2>1, <2>2, SessionStep DEF ExportPoll
  <1>3. CASE ExportWrite
    <2>1. session' \in Sessions /\ session'.pc = "export"
      BY <1>1, <1>3 DEF ExportWrite, Sessions
    <2>2. task' \in [Messages -> Files]
      BY <1>1, <1>3 DEF ExportWrite, Files
    <2> QED  BY <1>1, <1>3, <2>1, <2>2, SessionStep DEF ExportWrite
  <1>4. CASE ExportEnds
    <2>1. session' \in Sessions /\ session'.pc = "work"
      BY <1>1, <1>4 DEF ExportEnds, Sessions
    <2> QED  BY <1>1, <1>4, <2>1, SessionStep DEF ExportEnds
  <1>5. CASE SessionEnds
    <2>1. session' \in Sessions /\ session'.pc = "idle"
      BY <1>5 DEF SessionEnds, Sessions, NoSession
    <2> QED  BY <1>1, <1>5, <2>1, SessionStep DEF SessionEnds
  <1>6. CASE SessionCrash
    <2>1. session' \in Sessions /\ session'.pc = "idle"
      BY <1>6 DEF SessionCrash, Sessions, NoSession
    <2>2. used' \in Counters /\ disturbed' = TRUE
      BY <1>6, FaultFacts DEF SessionCrash, Inv
    <2> QED  BY <1>1, <1>6, <2>1, <2>2, SessionStep DEF SessionCrash
  <1>7. ASSUME NEW m \in Messages, ExportOpen(m)  PROVE Inv'
    <2> DEFINE rest == [session EXCEPT !.todo = session.todo \ {m}]
    <2>1. rest \in Sessions /\ rest.pc = "export"
      BY <1>1, <1>7 DEF ExportOpen, Sessions
    <2>2. \/ session' = rest /\ task' = task
          \/ /\ session' = [rest EXCEPT !.pc = "write", !.file = m]
             /\ task' = [task EXCEPT ![m] = "torn"]
      BY <1>7 DEF ExportOpen
    <2> HIDE DEF rest
    <2>3. CASE session' = rest /\ task' = task
      BY <1>1, <1>7, <2>1, <2>3, SessionStep DEF ExportOpen
    <2>4. CASE /\ session' = [rest EXCEPT !.pc = "write", !.file = m]
               /\ task' = [task EXCEPT ![m] = "torn"]
      <3>1. session' \in Sessions /\ session'.pc = "write" /\ session'.file = m
        BY <2>1, <2>4 DEF Sessions
      <3>2. task' \in [Messages -> Files]
        BY <1>1, <2>4 DEF Files
      <3> QED  BY <1>1, <1>7, <3>1, <3>2, SessionStep DEF ExportOpen
    <2> QED  BY <2>2, <2>3, <2>4
  <1> QED  BY <1>2, <1>3, <1>4, <1>5, <1>6, <1>7

-----------------------------------------------------------------------------
(* The theorems *)

LEMMA InitHasInv == Init => Inv
  <1> SUFFICES ASSUME Init  PROVE Inv
    OBVIOUS
  <1>1. Hop \in Messages /\ Raw \in Messages /\ 0 \in 0..MaxCount
    BY BoundsAreNatural DEF Messages
  <1>2. TypeOK
    <2>1. used \in [faults : 0..MaxFaults, calls : 0..MaxCalls]
      BY BoundsAreNatural DEF Init
    <2>2. /\ loop \in [Threads -> [run : BOOLEAN, batch : SUBSET Messages,
                                   hand : Messages \cup {Nothing}]]
          /\ inbox \in [todo : SUBSET Messages, taken : SUBSET Messages]
      BY DEF Init, NoThread
    <2>3. session \in Sessions /\ importer \in [Importers -> Imports]
      BY DEF Init, NoSession, NoImport, Sessions, Imports
    <2> QED  BY <1>1, <2>1, <2>2, <2>3 DEF Init, TypeOK, Files, Sessions, Imports
  <1>3. HandsHandled
    BY DEF Init, HandsHandled, NoThread
  <1>4. FilesHeld
    BY DEF Init, FilesHeld, NoSession, NoImport
  <1>5. NoneLost
    BY DEF Init, NoneLost
  <1>6. Account
    <2>1. Apart
      BY DEF Init, Apart, NoImport
    <2>2. Working = 0
      BY DEF Init, Working, NoSession
    <2>3. ASSUME NEW m \in Messages  PROVE Owed(m) = 0
      <3>1. m # Nothing
        BY MessagesDiffer DEF Messages
      <3>2. ~ Sending(m)
        BY <3>1 DEF Init, Sending, NoImport
      <3>3. result[m] # "whole"
        BY NothingIsNoFile DEF Init
      <3> QED  BY <3>2, <3>3 DEF Owed
    <2>4. Due = 0
      BY <1>1, <2>2, <2>3 DEF Due
    <2> QED  BY <2>1, <2>4 DEF Init, Account, Covered
  <1> QED  BY <1>2, <1>3, <1>4, <1>5, <1>6 DEF Inv

LEMMA ClaudeKeepsInv ==
    ASSUME Inv, Claude
    PROVE  Inv'
  <1>1. CASE Report
    BY <1>1, ReportKeepsInv
  <1>2. ASSUME NEW m \in Messages, Work(m)  PROVE Inv'
    BY <1>2, WorkKeepsInv
  <1>3. ASSUME NEW i \in Importers, NEW m \in Messages, ImportRead(i, m)  PROVE Inv'
    BY <1>3, ImportReadKeepsInv
  <1>4. ASSUME NEW i \in Importers, ImportSend(i)  PROVE Inv'
    BY <1>4, ImportSendKeepsInv
  <1>5. ASSUME NEW i \in Importers, ImportUnlink(i)  PROVE Inv'
    BY <1>5, ImportUnlinkKeepsInv
  <1>6. ASSUME NEW i \in Importers, ImportFails(i)  PROVE Inv'
    BY <1>6, ImportFailsKeepsInv
  <1> QED  BY <1>1, <1>2, <1>3, <1>4, <1>5, <1>6, ExportKeepsInv DEF Claude

LEMMA InvHolds == Spec => []Inv
  <1>1. Inv /\ [Next]_vars => Inv'
    <2>1. ASSUME Inv, UNCHANGED vars  PROVE Inv'
      BY <2>1 DEF vars, Inv, TypeOK, HandsHandled, FilesHeld, NoneLost, Account, Apart, Due,
                  Owed, Held, Sending, Working
    <2> QED
      BY <2>1, SenderKeepsInv, GatewayKeepsInv, AgentKeepsInv, ClaudeKeepsInv DEF Next
  <1> QED  BY InitHasInv, <1>1, PTL DEF Spec

\* Type correctness: among the rest, a session or an import that is about to
\* write, send or remove a file has one in hand.
THEOREM TypeCorrect == Spec => []TypeOK
  <1>1. Inv => TypeOK
    BY DEF Inv
  <1> QED  BY <1>1, InvHolds, PTL

\* No settled message has bypassed everybody: a poll loop has handled what it
\* acknowledges, and what a check_inbox acknowledges it returns, unless it
\* fails or another consumer was faster.
THEOREM NoneLostHolds == Spec => []NoneLost
  <1>1. Inv => NoneLost
    BY DEF Inv
  <1> QED  BY <1>1, InvHolds, PTL

\* No more responses, results and errors together, than attempts at the task,
\* for any number of poll loops, imports and faults, until a result file is
\* read twice (import_results): each attempt is answered at once, never, or
\* owes one answer, in one place (_run_and_complete, write_result_file).
THEOREM RepliesEarnedHolds == Spec => []RepliesEarned
  <1>1. Inv => RepliesEarned
    <2> SUFFICES ASSUME Inv, ~ resent  PROVE ~ (replies > tries)
      BY DEF RepliesEarned
    <2>1. Covered(tries, replies, Due) /\ Due \in Nat
      BY OwedFacts DEF Inv, Account
    <2>2. tries \in 0..MaxCount /\ replies \in 0..MaxCount
      BY DEF Inv, TypeOK
    <2> QED  BY <2>1, <2>2, BoundsAreNatural DEF Covered
  <1> QED  BY <1>1, InvHolds, PTL
=============================================================================
