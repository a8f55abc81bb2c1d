-------------------------- MODULE DelegationProofs --------------------------
(***************************************************************************)
(* The safety of one delegation chain, for a path of any depth, any set of *)
(* workers and any number of crashes and failing statements.               *)
(*                                                                         *)
(* The properties speak of what is saved and of what has been sent; what a *)
(* process will save or send depends on the copy of the chain that it has  *)
(* loaded and on where it stands.  InFlight states that dependency, and    *)
(* IInv adds it to the properties.                                         *)
(*                                                                         *)
(* The second part is about the live view (LiveView), in which an owner    *)
(* follows the messages and the workers of such chains.                    *)
(***************************************************************************)
EXTENDS Delegation, LiveView, FiniteSetTheorems, TLAPS

\* The steps of a gateway that has spawned its worker, and those in which
\* that worker has completed.
Engaged == {"linking", "executing", "completing", "collecting", "propagating",
            "failing", "answering result", "answering error"}
Reporting == {"collecting", "propagating", "answering result"}

\* What the steps still to come rely on.
SentBeforeRecorded ==
    pc[0] = "recording" =>
        \A h \in Hops :
            /\ h \notin Recorded(mem[0])
            /\ \A g \in 1..(h - 1) : g \in Recorded(mem[0])
            => box[h] # "unsent"

WorkersKnown ==
    \A p \in Hops :
        /\ pc[p] \in Engaged => wk[p] \in Worker
        /\ pc[p] \in Reporting => worker[wk[p]] = "completed"

OpenWhileWorking ==
    \A p \in Hops :
        pc[p] \in {"linking", "executing", "completing", "collecting"} =>
            mem[p].status \notin Terminal

LoopsOverHops ==
    \A p \in Hops :
        /\ pc[p] \in {"propagating", "failing"} => todo[p] \subseteq Recorded(mem[p])
        /\ pc[p] = "propagating" =>
               /\ AllDone(mem[p])
               /\ \A h \in Recorded(mem[p]) \ todo[p] : mem[p].hop[h] = "completed"

InFlight == SentBeforeRecorded /\ WorkersKnown /\ OpenWhileWorking /\ LoopsOverHops

IInv == TypeOK /\ InFlight /\ ReturnPath /\ ResultsAreReal /\ CompletedIsWhole

-----------------------------------------------------------------------------

\* No hop is recorded in a new chain, and WithHop changes one hop.
LEMMA NewChainFacts ==
    /\ NewChain \in Chain
    /\ Recorded(NewChain) = {}
    /\ NewChain.status = "pending" /\ NewChain.workers = {} /\ NewChain.results = {}
BY DEF NewChain, Chain, Recorded, ChainStatuses, HopStatuses

LEMMA WithHopFacts ==
    ASSUME NEW chain \in Chain, NEW h \in Hops, NEW s \in HopStatuses
    PROVE  /\ WithHop(chain, h, s) \in Chain
           /\ WithHop(chain, h, s).status = chain.status
           /\ WithHop(chain, h, s).workers = chain.workers
           /\ WithHop(chain, h, s).results = chain.results
           /\ WithHop(chain, h, s).hop = [chain.hop EXCEPT ![h] = s]
           /\ s # "unrecorded" => Recorded(WithHop(chain, h, s)) = Recorded(chain) \cup {h}
BY DEF WithHop, Chain, Recorded

\* The chain that delegate saves.
LEMMA DelegatedFacts ==
    ASSUME NEW chain \in Chain, NEW h \in Hops,
           NEW next, next = WithHop([chain EXCEPT !.status = "active"], h, "delegated")
    PROVE  /\ next \in Chain
           /\ next.status = "active"
           /\ next.results = chain.results
           /\ Recorded(next) = Recorded(chain) \cup {h}
<1> DEFINE active == [chain EXCEPT !.status = "active"]
<1>1. /\ active \in Chain /\ active.status = "active" /\ active.results = chain.results
      /\ Recorded(active) = Recorded(chain)
    BY DEF Chain, ChainStatuses, Recorded
<1>2. "delegated" \in HopStatuses
    BY DEF HopStatuses
<1> HIDE DEF active
<1>3. WithHop(active, h, "delegated") \in Chain
    BY <1>1, <1>2, WithHopFacts
<1>4. /\ WithHop(active, h, "delegated").status = active.status
      /\ WithHop(active, h, "delegated").results = active.results
      /\ Recorded(WithHop(active, h, "delegated")) = Recorded(active) \cup {h}
    BY <1>1, <1>2, WithHopFacts
<1>5. next = WithHop(active, h, "delegated")
    BY DEF active
<1>6. QED
    BY <1>1, <1>3, <1>4, <1>5

\* The hops of a chain are hops of the path.
LEMMA RecordedFacts == \A chain : Recorded(chain) \in SUBSET Hops
BY DEF Recorded

\* A result that is recorded changes nothing else.
LEMMA WithResultFacts ==
    ASSUME NEW p, mem[p] \in Chain
    PROVE  /\ wk[p] \in Worker => WithResult(p) \in Chain
           /\ WithResult(p).status = mem[p].status
           /\ WithResult(p).results = mem[p].results \cup {wk[p]}
           /\ Recorded(WithResult(p)) = Recorded(mem[p])
BY DEF WithResult, Chain, Recorded

\* A gateway takes a worker that no one has.
LEMMA FreeWorkerFacts ==
    ASSUME \E w \in Worker : worker[w] = "none"
    PROVE  FreeWorker \in Worker /\ worker[FreeWorker] = "none"
BY DEF FreeWorker

\* The process 0 is not that of a gateway.
LEMMA ProfileFacts == 0 \in Profiles /\ 0 \notin Hops /\ Hops \subseteq Profiles
BY DepthAssumption DEF Profiles, Hops

\* The five conjuncts hold initially.
LEMMA InitIInv == Init => IInv
<1> SUFFICES ASSUME Init PROVE IInv
    OBVIOUS
<1> USE NewChainFacts, ProfileFacts DEF Init
<1>1. TypeOK
    BY MaxFaultsAssumption DEF TypeOK, Steps, Requests!BoxTypeOK, Requests!BoxInit, Requests!Places
<1>2. InFlight
    BY DEF InFlight, SentBeforeRecorded, WorkersKnown, OpenWhileWorking, LoopsOverHops,
           Engaged, Reporting
<1>3. ReturnPath
    BY DEF ReturnPath, Chains
<1>4. ResultsAreReal
    BY DEF ResultsAreReal, Chains
<1>5. CompletedIsWhole
    BY DEF CompletedIsWhole
<1>6. QED
    BY <1>1, <1>2, <1>3, <1>4, <1>5 DEF IInv

-----------------------------------------------------------------------------

\* Every variable keeps its type: a gateway that reports has a worker to name.
LEMMA TypeStep == TypeOK /\ InFlight /\ [Next]_vars => TypeOK'
<1> SUFFICES ASSUME TypeOK, InFlight, [Next]_vars PROVE TypeOK'
    OBVIOUS
<1> DEFINE Responses == [hop : Hops, kind : {"result", "error"}, worker : Worker, direct : BOOLEAN]
<1>1. store \in Chain /\ \A p \in Profiles : mem[p] \in Chain
    BY DEF TypeOK
<1>2. 0 \in Profiles /\ \A p \in Hops : p \in Profiles
    BY ProfileFacts
<1>3. \A p \in Profiles, step \in Steps : Goto(p, step) => pc' \in [Profiles -> Steps]
    BY DEF TypeOK, Goto
<1>4. \A p \in Profiles, chain \in Chain : Modify(p, chain) => mem' \in [Profiles -> Chain]
    BY DEF TypeOK, Modify
<1>5. \A p \in Profiles : Recorded(mem[p]) \in SUBSET Hops
    BY RecordedFacts
<1>6. \A p \in Hops : pc[p] \in Engaged => wk[p] \in Worker
    BY DEF InFlight, WorkersKnown
<1>7. \A h \in Hops, kind \in {"result", "error"}, w \in Worker, direct \in BOOLEAN :
          Response(h, kind, w, direct) \in Responses
    BY DEF Response
<1>8. ASSUME NEW p \in Hops, Forget(p)
      PROVE  /\ pc' \in [Profiles -> Steps] /\ mem' \in [Profiles -> Chain]
             /\ wk' \in [Profiles -> Worker \cup {NoWorker}] /\ todo' \in [Profiles -> SUBSET Hops]
    BY <1>8, <1>2, NewChainFacts DEF Forget, Goto, Modify, TypeOK, Steps
<1>9. faults < MaxFaults /\ faults' = faults + 1 => faults' \in 0..MaxFaults
    BY MaxFaultsAssumption DEF TypeOK
<1>10. CASE CreateChain
  <2>1. pc' \in [Profiles -> Steps]
    BY <1>10, <1>2, <1>3 DEF CreateChain, Steps
  <2>2. store' \in Chain /\ mem' \in [Profiles -> Chain]
    BY <1>10, <1>2, <1>4, NewChainFacts DEF CreateChain, Persist
  <2>3. QED
    BY <1>10, <2>1, <2>2 DEF CreateChain, TypeOK, Requests!BoxTypeOK
<1>11. ASSUME NEW h \in Hops, SendRequest(h) PROVE TypeOK'
  <2>1. pc' \in [Profiles -> Steps]
    BY <1>11, <1>2, <1>3 DEF SendRequest, Steps
  <2>2. box' \in [Hops -> Requests!Places]
    BY <1>11 DEF SendRequest, Requests!Send, TypeOK, Requests!BoxTypeOK, Requests!Places
  <2>3. QED
    BY <1>11, <2>1, <2>2 DEF SendRequest, TypeOK, Requests!BoxTypeOK
<1>12. ASSUME NEW h \in Hops, RecordHop(h) PROVE TypeOK'
  <2>1. pc' \in [Profiles -> Steps]
    BY <1>12, <1>2, <1>3 DEF RecordHop, Steps
  <2>2. [mem[0] EXCEPT !.status = "active"] \in Chain
    BY <1>1, <1>2 DEF Chain, ChainStatuses
  <2>3. WithHop([mem[0] EXCEPT !.status = "active"], h, "delegated") \in Chain
    BY <2>2, WithHopFacts DEF HopStatuses
  <2>4. store' \in Chain /\ mem' \in [Profiles -> Chain]
    BY <1>12, <2>3, <1>2, <1>4 DEF RecordHop, Persist
  <2>5. QED
    BY <1>12, <2>1, <2>2, <2>3, <2>4 DEF RecordHop, TypeOK, Requests!BoxTypeOK
<1>13. ASSUME NEW p \in Hops, LoadRow(p) PROVE TypeOK'
  <2>1. pc' \in [Profiles -> Steps]
    BY <1>13, <1>2, <1>3 DEF LoadRow, Steps
  <2>2. [store EXCEPT !.hop = NewChain.hop] \in Chain
    BY <1>1, NewChainFacts DEF Chain
  <2>3. mem' \in [Profiles -> Chain]
    BY <1>13, <2>2, <1>2, <1>4 DEF LoadRow
  <2>4. QED
    BY <1>13, <2>1, <2>2, <2>3 DEF LoadRow, TypeOK, Requests!BoxTypeOK
<1>14. ASSUME NEW p \in Hops, LoadHops(p) PROVE TypeOK'
  <2>1. pc' \in [Profiles -> Steps]
    BY <1>14, <1>2, <1>3 DEF LoadHops, Steps
  <2>2. [mem[p] EXCEPT !.hop = store.hop] \in Chain
    BY <1>1, <1>2 DEF Chain
  <2>3. mem' \in [Profiles -> Chain]
    BY <1>14, <2>2, <1>2, <1>4 DEF LoadHops
  <2>4. QED
    BY <1>14, <2>1, <2>2, <2>3 DEF LoadHops, TypeOK, Requests!BoxTypeOK
<1>15. ASSUME NEW p \in Hops, Link(p) PROVE TypeOK'
  <2>1. pc' \in [Profiles -> Steps]
    BY <1>15, <1>2, <1>3 DEF Link, Steps
  <2>2. WithHop(mem[p], p, "working") \in Chain /\ mem[p] \in Chain
    BY <1>1, <1>2, WithHopFacts DEF HopStatuses
  <2>3. store' \in Chain /\ mem' \in [Profiles -> Chain]
    BY <1>15, <2>2, <1>2, <1>4 DEF Link, Persist
  <2>4. QED
    BY <1>15, <2>1, <2>2, <2>3 DEF Link, TypeOK, Requests!BoxTypeOK
<1>16. ASSUME NEW p \in Hops, Execute(p) PROVE TypeOK'
  <2>1. pc' \in [Profiles -> Steps]
    BY <1>16, <1>2, <1>3 DEF Execute, StartFailing, Steps
  <2>2. todo' \in [Profiles -> SUBSET Hops]
    BY <1>16, <1>2, <1>5 DEF Execute, StartFailing, TypeOK
  <2>3. QED
    BY <1>16, <2>1, <2>2 DEF Execute, TypeOK, Requests!BoxTypeOK
<1>17. ASSUME NEW p \in Hops, CompleteWorker(p) PROVE TypeOK'
  <2>1. pc' \in [Profiles -> Steps]
    BY <1>17, <1>2, <1>3 DEF CompleteWorker, Steps
  <2>2. worker' \in [Worker -> {"none", "running", "completed"}]
    BY <1>17 DEF CompleteWorker, TypeOK
  <2>3. QED
    BY <1>17, <2>1, <2>2 DEF CompleteWorker, TypeOK, Requests!BoxTypeOK
<1>18. ASSUME NEW p \in Hops, Collect(p) PROVE TypeOK'
  <2>1. pc' \in [Profiles -> Steps]
    BY <1>18, <1>2, <1>3 DEF Collect, Steps
  <2>2. WithResult(p) \in Chain
    BY <1>18, <1>1, <1>2, <1>6, WithResultFacts DEF Collect, Engaged
  <2>3. store' \in Chain /\ mem' \in [Profiles -> Chain]
    BY <1>18, <2>2, <1>2, <1>4 DEF Collect, Persist
  <2>4. Recorded(WithResult(p)) \in SUBSET Hops
    BY RecordedFacts
  <2>5. todo' \in [Profiles -> SUBSET Hops]
    BY <1>18, <2>4 DEF Collect, TypeOK
  <2>6. QED
    BY <1>18, <2>1, <2>2, <2>3, <2>4, <2>5 DEF Collect, TypeOK, Requests!BoxTypeOK
<1>19. ASSUME NEW p \in Hops, Propagate(p) PROVE TypeOK'
  <2>1. \A h \in Hops : WithHop(mem[p], h, "completed") \in Chain
    BY <1>1, <1>2, WithHopFacts DEF HopStatuses
  <2>2. mem' \in [Profiles -> Chain]
    BY <1>19, <2>1, <1>2, <1>4 DEF Propagate
  <2>3. todo' \in [Profiles -> SUBSET Hops]
    BY <1>19 DEF Propagate, TypeOK
  <2>4. wk[p] \in Worker
    BY <1>19, <1>6 DEF Propagate, Engaged
  <2>5. \E h \in Hops : responses' = responses \cup {Response(h, "result", wk[p], FALSE)}
    BY <1>19 DEF Propagate
  <2>6. responses' \subseteq Responses
    BY <2>4, <2>5, <1>7 DEF TypeOK
  <2>7. QED
    BY <1>19, <2>1, <2>2, <2>3, <2>4, <2>5, <2>6 DEF Propagate, TypeOK, Requests!BoxTypeOK
<1>20. ASSUME NEW p \in Hops, Close(p) PROVE TypeOK'
  <2>1. pc' \in [Profiles -> Steps]
    BY <1>20, <1>2, <1>3 DEF Close, Steps
  <2>2. [mem[p] EXCEPT !.status = "completed"] \in Chain
    BY <1>1, <1>2 DEF Chain, ChainStatuses
  <2>3. store' \in Chain /\ mem' \in [Profiles -> Chain]
    BY <1>20, <2>2, <1>2, <1>4 DEF Close, Persist
  <2>4. QED
    BY <1>20, <2>1, <2>2, <2>3 DEF Close, TypeOK, Requests!BoxTypeOK
<1>21. ASSUME NEW p \in Hops, PropagateError(p) PROVE TypeOK'
  <2>1. \A h \in Hops : WithHop(mem[p], h, "failed") \in Chain
    BY <1>1, <1>2, WithHopFacts DEF HopStatuses
  <2>2. mem' \in [Profiles -> Chain]
    BY <1>21, <2>1, <1>1, <1>2, <1>4 DEF PropagateError
  <2>3. todo' \in [Profiles -> SUBSET Hops]
    BY <1>21 DEF PropagateError, TypeOK
  <2>4. wk[p] \in Worker
    BY <1>21, <1>6 DEF PropagateError, Engaged
  <2>5. \E h \in Hops : responses' = responses \cup {Response(h, "error", wk[p], FALSE)}
    BY <1>21 DEF PropagateError
  <2>6. responses' \subseteq Responses
    BY <2>4, <2>5, <1>7 DEF TypeOK
  <2>7. QED
    BY <1>21, <2>1, <2>2, <2>3, <2>4, <2>5, <2>6 DEF PropagateError, TypeOK, Requests!BoxTypeOK
<1>22. ASSUME NEW p \in Hops, CloseFailed(p) PROVE TypeOK'
  <2>1. pc' \in [Profiles -> Steps]
    BY <1>22, <1>2, <1>3 DEF CloseFailed, Steps
  <2>2. [mem[p] EXCEPT !.status = "failed"] \in Chain
    BY <1>1, <1>2 DEF Chain, ChainStatuses
  <2>3. store' \in Chain /\ mem' \in [Profiles -> Chain]
    BY <1>22, <2>2, <1>2, <1>4 DEF CloseFailed, Persist
  <2>4. QED
    BY <1>22, <2>1, <2>2, <2>3 DEF CloseFailed, TypeOK, Requests!BoxTypeOK
<1>23. ASSUME NEW p \in Hops, Answer(p) PROVE TypeOK'
  <2>1. pc' \in [Profiles -> Steps]
    BY <1>23, <1>2, <1>3 DEF Answer, Steps
  <2>2. responses' \subseteq Responses
    BY <1>23, <1>2, <1>6, <1>7 DEF Answer, Engaged, TypeOK
  <2>3. QED
    BY <1>23, <2>1, <2>2 DEF Answer, TypeOK, Requests!BoxTypeOK
<1>24. ASSUME NEW p \in Hops, Acknowledge(p) PROVE TypeOK'
  <2>1. /\ pc' \in [Profiles -> Steps] /\ mem' \in [Profiles -> Chain]
       /\ wk' \in [Profiles -> Worker \cup {NoWorker}] /\ todo' \in [Profiles -> SUBSET Hops]
    BY <1>24, <1>8 DEF Acknowledge
  <2>2. box' \in [Hops -> Requests!Places]
    BY <1>24 DEF Acknowledge, Requests!Settle, TypeOK, Requests!BoxTypeOK, Requests!Places
  <2>3. QED
    BY <1>24, <2>1, <2>2 DEF Acknowledge, TypeOK, Requests!BoxTypeOK
<1>25. ASSUME NEW p \in Hops, Crash(p) PROVE TypeOK'
  <2>1. /\ pc' \in [Profiles -> Steps] /\ mem' \in [Profiles -> Chain]
       /\ wk' \in [Profiles -> Worker \cup {NoWorker}] /\ todo' \in [Profiles -> SUBSET Hops]
    BY <1>25, <1>8 DEF Crash
  <2>2. faults' \in 0..MaxFaults
    BY <1>25, <1>9 DEF Crash
  <2>3. QED
    BY <1>25, <2>1, <2>2 DEF Crash, TypeOK, Requests!BoxTypeOK
<1>26. CASE Abandon
  <2>1. pc' \in [Profiles -> Steps]
    BY <1>26, <1>2, <1>3 DEF Abandon, Steps
  <2>2. faults' \in 0..MaxFaults
    BY <1>26, <1>9 DEF Abandon
  <2>3. QED
    BY <1>26, <2>1, <2>2 DEF Abandon, TypeOK, Requests!BoxTypeOK
<1>27. ASSUME NEW p \in Hops, Spawn(p) PROVE TypeOK'
  <2>1. pc' \in [Profiles -> Steps]
    BY <1>27, <1>2, <1>3 DEF Spawn, Steps
  <2>2. CASE mem[p].status \in Terminal
    BY <1>27, <2>1, <2>2 DEF Spawn, TypeOK, Requests!BoxTypeOK
  <2>3. CASE mem[p].status \notin Terminal
    <3>1. FreeWorker \in Worker
      BY <1>27, <2>3, FreeWorkerFacts DEF Spawn
    <3>2. [mem[p] EXCEPT !.workers = @ \cup {FreeWorker}] \in Chain
      BY <3>1, <1>1, <1>2 DEF Chain
    <3>3. mem' \in [Profiles -> Chain]
      BY <1>27, <2>3, <3>2, <1>2, <1>4 DEF Spawn
    <3>4. wk' \in [Profiles -> Worker \cup {NoWorker}]
      BY <1>27, <2>3, <3>1 DEF Spawn, TypeOK
    <3>5. worker' \in [Worker -> {"none", "running", "completed"}]
      BY <1>27, <2>3, <3>1 DEF Spawn, TypeOK
    <3>6. QED
      BY <1>27, <2>1, <2>3, <3>3, <3>4, <3>5 DEF Spawn, TypeOK, Requests!BoxTypeOK
  <2>4. QED
    BY <2>2, <2>3
<1>28. ASSUME NEW p \in Hops, Raise(p) PROVE TypeOK'
  <2>1. faults' \in 0..MaxFaults
    BY <1>28, <1>9 DEF Raise
  <2>2. pc' \in [Profiles -> Steps]
    BY <1>28, <1>2, <1>3, <1>8 DEF Raise, StartFailing, Steps
  <2>3. todo' \in [Profiles -> SUBSET Hops]
    <3>1. CASE StartFailing(p)
      BY <3>1, <1>2, <1>5 DEF StartFailing, TypeOK
    <3>2. QED
      BY <1>28, <3>1, <1>8 DEF Raise, TypeOK
  <2>4. mem' \in [Profiles -> Chain] /\ wk' \in [Profiles -> Worker \cup {NoWorker}]
    <3>1. CASE pc[p] = "collecting" /\ Modify(p, WithResult(p)) /\ UNCHANGED wk
      <4>1. WithResult(p) \in Chain
        BY <3>1, <1>1, <1>2, <1>6, WithResultFacts DEF Engaged
      <4>2. QED
        BY <3>1, <4>1, <1>2, <1>4 DEF TypeOK
    <3>2. QED
      BY <1>28, <3>1, <1>8 DEF Raise, TypeOK
  <2>5. QED
    BY <1>28, <2>1, <2>2, <2>3, <2>4 DEF Raise, TypeOK, Requests!BoxTypeOK
<1>29. CASE UNCHANGED vars
    BY <1>29 DEF vars, TypeOK, Requests!BoxTypeOK
<1>30. QED
    BY <1>10, <1>11, <1>12, <1>13, <1>14, <1>15, <1>16, <1>17, <1>18, <1>19, <1>20,
       <1>21, <1>22, <1>23, <1>24, <1>25, <1>26, <1>27, <1>28, <1>29
    DEF Next, Originator, Gateway

-----------------------------------------------------------------------------

\* The processes work on their own state: a step of a gateway leaves that of
\* the others as it is, and so does a step of the originator.
LEMMA GatewayLocal ==
    ASSUME TypeOK, NEW p \in Hops, Gateway(p) \/ Raise(p) \/ Crash(p),
           NEW q \in Profiles, q # p
    PROVE  pc'[q] = pc[q] /\ mem'[q] = mem[q] /\ wk'[q] = wk[q] /\ todo'[q] = todo[q]
<1> USE DEF TypeOK, Goto, Modify, Persist, Forget
<1>1. ASSUME Gateway(p)
      PROVE  pc'[q] = pc[q] /\ mem'[q] = mem[q] /\ wk'[q] = wk[q] /\ todo'[q] = todo[q]
  <2> USE <1>1
  <2>1. CASE LoadRow(p) \/ LoadHops(p) \/ Link(p) \/ CompleteWorker(p) \/ Answer(p)
    BY <2>1 DEF LoadRow, LoadHops, Link, CompleteWorker, Answer
  <2>2. CASE Spawn(p)
    BY <2>2 DEF Spawn
  <2>3. CASE Execute(p) \/ Collect(p)
    BY <2>3 DEF Execute, StartFailing, Collect
  <2>4. CASE Propagate(p) \/ PropagateError(p)
    BY <2>4 DEF Propagate, PropagateError
  <2>5. CASE Close(p) \/ CloseFailed(p) \/ Acknowledge(p)
    BY <2>5 DEF Close, CloseFailed, Acknowledge
  <2>6. QED
    BY <2>1, <2>2, <2>3, <2>4, <2>5 DEF Gateway
<1>2. CASE Raise(p)
    BY <1>2 DEF Raise, StartFailing
<1>3. CASE Crash(p)
    BY <1>3 DEF Crash
<1>4. QED
    BY <1>1, <1>2, <1>3

LEMMA OriginatorLocal ==
    ASSUME TypeOK, Originator \/ Abandon
    PROVE  /\ \A q \in Hops : pc'[q] = pc[q] /\ mem'[q] = mem[q]
           /\ UNCHANGED <<wk, todo, worker, responses>>
BY ProfileFacts
DEF Originator, CreateChain, SendRequest, RecordHop, Abandon, TypeOK, Goto, Persist, Modify

\* A request that has been sent is never unsent again, and a worker that has
\* completed stays so.
LEMMA BoxStep ==
    ASSUME TypeOK, [Next]_vars, NEW h \in Hops, box[h] # "unsent"
    PROVE  box'[h] # "unsent"
<1> USE DEF TypeOK, Requests!BoxTypeOK
<1>1. ASSUME NEW g \in Hops, SendRequest(g) PROVE box'[h] # "unsent"
    BY <1>1 DEF SendRequest, Requests!Send
<1>2. ASSUME NEW p \in Hops, Acknowledge(p) PROVE box'[h] # "unsent"
    BY <1>2 DEF Acknowledge, Requests!Settle
<1>3. CASE UNCHANGED box
    BY <1>3
<1>4. QED
    BY <1>1, <1>2, <1>3
    DEF Next, Originator, Gateway, CreateChain, RecordHop, LoadRow, LoadHops, Spawn, Link,
        Execute, CompleteWorker, Collect, Propagate, Close, PropagateError, CloseFailed,
        Answer, Raise, Crash, Abandon, vars

LEMMA WorkerStep ==
    ASSUME TypeOK, InFlight, [Next]_vars, NEW w \in Worker, worker[w] = "completed"
    PROVE  worker'[w] = "completed"
<1> USE DEF TypeOK
<1>1. ASSUME NEW p \in Hops, Spawn(p) PROVE worker'[w] = "completed"
  <2>1. CASE mem[p].status \in Terminal
    BY <1>1, <2>1 DEF Spawn
  <2>2. CASE mem[p].status \notin Terminal
    <3>1. FreeWorker # w
      BY <1>1, <2>2, FreeWorkerFacts DEF Spawn
    <3>2. QED
      BY <1>1, <2>2, <3>1 DEF Spawn
  <2>3. QED
    BY <2>1, <2>2
<1>2. ASSUME NEW p \in Hops, CompleteWorker(p) PROVE worker'[w] = "completed"
    BY <1>2 DEF CompleteWorker
<1>3. CASE UNCHANGED worker
    BY <1>3
<1>4. QED
    BY <1>1, <1>2, <1>3
    DEF Next, Originator, Gateway, CreateChain, SendRequest, RecordHop, LoadRow, LoadHops,
        Link, Execute, Collect, Propagate, Close, PropagateError, CloseFailed,
        Answer, Acknowledge, Raise, Crash, Abandon, vars

\* The request of the hop that is about to be recorded has been sent.
LEMMA SentStep == TypeOK /\ InFlight /\ [Next]_vars => SentBeforeRecorded'
<1> SUFFICES ASSUME TypeOK, InFlight, [Next]_vars PROVE SentBeforeRecorded'
    OBVIOUS
<1>1. SentBeforeRecorded
    BY DEF InFlight
<1>2. ASSUME NEW h \in Hops, SendRequest(h) PROVE SentBeforeRecorded'
  <2>1. box'[h] # "unsent" /\ mem' = mem
    BY <1>2 DEF SendRequest, Requests!Send, TypeOK, Requests!BoxTypeOK
  <2>2. ASSUME NEW g \in Hops, g \notin Recorded(mem[0]),
               \A k \in 1..(g - 1) : k \in Recorded(mem[0])
        PROVE  g = h
    <3>1. h \notin Recorded(mem[0]) /\ \A k \in 1..(h - 1) : k \in Recorded(mem[0])
      BY <1>2 DEF SendRequest
    <3>2. ~ (h < g) /\ ~ (g < h)
      BY <2>2, <3>1, DepthAssumption DEF Hops
    <3>3. QED
      BY <3>2, DepthAssumption DEF Hops
  <2>3. Recorded(mem'[0]) = Recorded(mem[0])
    BY <2>1
  <2>4. QED
    BY <2>1, <2>2, <2>3 DEF SentBeforeRecorded, Recorded
<1>3. CASE CreateChain \/ (\E h \in Hops : RecordHop(h)) \/ Abandon
  <2>1. pc'[0] # "recording"
    BY <1>3, ProfileFacts DEF CreateChain, RecordHop, Abandon, TypeOK, Goto
  <2>2. QED
    BY <2>1 DEF SentBeforeRecorded
<1>4. ASSUME pc'[0] = pc[0], mem'[0] = mem[0] PROVE SentBeforeRecorded'
    BY <1>1, <1>4, BoxStep DEF SentBeforeRecorded, Recorded
<1>5. ASSUME NEW p \in Hops, Gateway(p) \/ Raise(p) \/ Crash(p) PROVE SentBeforeRecorded'
  <2>1. 0 \in Profiles /\ 0 # p
    BY ProfileFacts
  <2>2. pc'[0] = pc[0] /\ mem'[0] = mem[0]
    BY <1>5, <2>1, GatewayLocal
  <2>3. QED
    BY <1>4, <2>2
<1>6. CASE UNCHANGED vars
    BY <1>4, <1>6 DEF vars
<1>7. QED
    BY <1>2, <1>3, <1>5, <1>6 DEF Next, Originator

\* A gateway that is engaged has a worker, and one that reports a worker that
\* has completed.
LEMMA WorkersStep == TypeOK /\ InFlight /\ [Next]_vars => WorkersKnown'
<1> SUFFICES ASSUME TypeOK, InFlight, [Next]_vars PROVE WorkersKnown'
    OBVIOUS
<1> DEFINE Known(p) ==
        /\ pc[p] \in Engaged => wk[p] \in Worker
        /\ pc[p] \in Reporting => worker[wk[p]] = "completed"
<1> USE DEF Engaged, Reporting
<1>1. \A p \in Hops : Known(p)
    BY DEF InFlight, WorkersKnown
<1>2. ASSUME NEW p \in Hops, pc'[p] = pc[p], wk'[p] = wk[p] PROVE Known(p)'
    BY <1>1, <1>2, WorkerStep
<1>3. ASSUME NEW p \in Hops, Gateway(p) \/ Raise(p) \/ Crash(p) PROVE Known(p)'
  <2> USE ProfileFacts, <1>1 DEF TypeOK, Goto
  <2>1. CASE Spawn(p)
    <3>1. CASE mem[p].status \in Terminal
      BY <2>1, <3>1 DEF Spawn
    <3>2. CASE mem[p].status \notin Terminal
      <4>1. FreeWorker \in Worker
        BY <2>1, <3>2, FreeWorkerFacts DEF Spawn
      <4>2. QED
        BY <2>1, <3>2, <4>1 DEF Spawn
    <3>3. QED
      BY <3>1, <3>2
  <2>2. CASE CompleteWorker(p)
    BY <2>2 DEF CompleteWorker
  <2>3. CASE Execute(p)
    BY <2>3 DEF Execute, StartFailing
  <2>4. CASE Link(p) \/ Collect(p) \/ Close(p) \/ CloseFailed(p) \/ Answer(p)
    BY <2>4 DEF Link, Collect, Close, CloseFailed, Answer
  <2>5. CASE Propagate(p) \/ PropagateError(p)
    BY <2>5 DEF Propagate, PropagateError
  <2>6. CASE LoadRow(p) \/ LoadHops(p)
    BY <2>6 DEF LoadRow, LoadHops
  <2>7. CASE Acknowledge(p) \/ Crash(p)
    BY <2>7 DEF Acknowledge, Crash, Forget
  <2>8. CASE Raise(p)
    BY <2>8 DEF Raise, StartFailing, Forget
  <2>9. QED
    BY <1>3, <2>1, <2>2, <2>3, <2>4, <2>5, <2>6, <2>7, <2>8 DEF Gateway
<1>4. ASSUME NEW p \in Hops, Gateway(p) \/ Raise(p) \/ Crash(p) PROVE WorkersKnown'
    BY <1>2, <1>3, <1>4, GatewayLocal, ProfileFacts DEF WorkersKnown
<1>5. CASE Originator \/ Abandon
    BY <1>2, <1>5, OriginatorLocal DEF WorkersKnown
<1>6. CASE UNCHANGED vars
    BY <1>2, <1>6 DEF WorkersKnown, vars
<1>7. QED
    BY <1>4, <1>5, <1>6 DEF Next

\* A gateway works for a chain that was open when it was loaded.
LEMMA OpenStep == TypeOK /\ InFlight /\ [Next]_vars => OpenWhileWorking'
<1> SUFFICES ASSUME TypeOK, InFlight, [Next]_vars PROVE OpenWhileWorking'
    OBVIOUS
<1> DEFINE Open(p) ==
        pc[p] \in {"linking", "executing", "completing", "collecting"} =>
            mem[p].status \notin Terminal
<1>1. \A p \in Hops : Open(p)
    BY DEF InFlight, OpenWhileWorking
<1>2. ASSUME NEW p \in Hops, pc'[p] = pc[p], mem'[p] = mem[p] PROVE Open(p)'
    BY <1>1, <1>2
<1>3. ASSUME NEW p \in Hops, Gateway(p) \/ Raise(p) \/ Crash(p) PROVE Open(p)'
  <2> USE ProfileFacts, <1>1 DEF TypeOK, Goto
  <2>1. CASE Spawn(p)
    <3>1. CASE mem[p].status \in Terminal
      BY <2>1, <3>1 DEF Spawn
    <3>2. CASE mem[p].status \notin Terminal
      <4>1. [mem[p] EXCEPT !.workers = @ \cup {FreeWorker}].status = mem[p].status
        BY DEF Chain
      <4>2. QED
        BY <2>1, <3>2, <4>1 DEF Spawn, Modify
    <3>3. QED
      BY <3>1, <3>2
  <2>2. CASE Link(p)
    <3>1. WithHop(mem[p], p, "working").status = mem[p].status
      BY WithHopFacts DEF HopStatuses
    <3>2. QED
      BY <2>2, <3>1 DEF Link, Persist, Modify
  <2>3. CASE CompleteWorker(p) \/ Collect(p) \/ Close(p) \/ CloseFailed(p) \/ Answer(p)
    BY <2>3 DEF CompleteWorker, Collect, Close, CloseFailed, Answer
  <2>4. CASE Execute(p)
    BY <2>4 DEF Execute, StartFailing
  <2>5. CASE Propagate(p) \/ PropagateError(p)
    BY <2>5 DEF Propagate, PropagateError
  <2>6. CASE LoadRow(p) \/ LoadHops(p)
    BY <2>6 DEF LoadRow, LoadHops
  <2>7. CASE Acknowledge(p) \/ Crash(p)
    BY <2>7 DEF Acknowledge, Crash, Forget
  <2>8. CASE Raise(p)
    BY <2>8 DEF Raise, StartFailing, Forget
  <2>9. QED
    BY <1>3, <2>1, <2>2, <2>3, <2>4, <2>5, <2>6, <2>7, <2>8 DEF Gateway
<1>4. ASSUME NEW p \in Hops, Gateway(p) \/ Raise(p) \/ Crash(p) PROVE OpenWhileWorking'
    BY <1>2, <1>3, <1>4, GatewayLocal, ProfileFacts DEF OpenWhileWorking
<1>5. CASE Originator \/ Abandon
    BY <1>2, <1>5, OriginatorLocal DEF OpenWhileWorking
<1>6. CASE UNCHANGED vars
    BY <1>2, <1>6 DEF OpenWhileWorking, vars
<1>7. QED
    BY <1>4, <1>5, <1>6 DEF Next

\* The loops over the hops meet recorded hops only, and propagate_up leaves
\* completed hops behind it.
LEMMA LoopsStep == TypeOK /\ InFlight /\ [Next]_vars => LoopsOverHops'
<1> SUFFICES ASSUME TypeOK, InFlight, [Next]_vars PROVE LoopsOverHops'
    OBVIOUS
<1> DEFINE Loop(p) ==
        /\ pc[p] \in {"propagating", "failing"} => todo[p] \subseteq Recorded(mem[p])
        /\ pc[p] = "propagating" =>
               /\ AllDone(mem[p])
               /\ \A h \in Recorded(mem[p]) \ todo[p] : mem[p].hop[h] = "completed"
<1>1. \A p \in Hops : Loop(p)
    BY DEF InFlight, LoopsOverHops
<1>2. ASSUME NEW p \in Hops, pc'[p] = pc[p], mem'[p] = mem[p], todo'[p] = todo[p]
      PROVE  Loop(p)'
    BY <1>1, <1>2 DEF Recorded, AllDone
<1>3. ASSUME NEW p \in Hops, Gateway(p) \/ Raise(p) \/ Crash(p) PROVE Loop(p)'
  <2> USE ProfileFacts DEF TypeOK, Goto
  <2>1. CASE Execute(p)
    BY <2>1 DEF Execute, StartFailing, Recorded
  <2>2. CASE Collect(p)
    <3> DEFINE chain == WithResult(p)
    <3>1. mem'[p] = chain
      BY <2>2 DEF Collect, Persist, Modify
    <3>2. CASE AllDone(chain)
      <4>1. todo'[p] = Recorded(chain) /\ pc'[p] = "propagating"
        BY <2>2, <3>2 DEF Collect
      <4>2. QED
        BY <3>1, <3>2, <4>1 DEF Recorded, AllDone
    <3>3. CASE ~ AllDone(chain)
      BY <2>2, <3>3 DEF Collect
    <3>4. QED
      BY <3>2, <3>3
  <2>3. CASE Propagate(p)
    <3>1. PICK h \in Hops : /\ h \in todo[p]
                            /\ mem'[p] = WithHop(mem[p], h, "completed")
                            /\ todo'[p] = todo[p] \ {h}
      BY <2>3 DEF Propagate, IsLast, Modify
    <3>2. /\ pc[p] = "propagating" /\ pc'[p] = "propagating"
          /\ Loop(p)
      BY <2>3, <1>1 DEF Propagate
    <3>a. mem[p] \in Chain /\ "completed" \in HopStatuses
      BY DEF HopStatuses
    <3>3. /\ mem'[p].workers = mem[p].workers /\ mem'[p].results = mem[p].results
          /\ mem'[p].hop = [mem[p].hop EXCEPT ![h] = "completed"]
          /\ Recorded(mem'[p]) = Recorded(mem[p]) \cup {h}
      BY ONLY <3>1, <3>a, WithHopFacts
    <3>4. AllDone(mem'[p])
      BY <3>2, <3>3 DEF AllDone
    <3>5. mem[p].hop \in [Hops -> HopStatuses] /\ Recorded(mem[p]) \subseteq Hops
      BY DEF Chain, Recorded
    <3>6. \A g \in Recorded(mem'[p]) \ todo'[p] : mem'[p].hop[g] = "completed"
      BY <3>1, <3>2, <3>3, <3>5
    <3>7. QED
      BY <3>1, <3>2, <3>3, <3>4, <3>6 DEF Recorded, AllDone
  <2>4. CASE PropagateError(p)
    <3>1. PICK h \in Hops : /\ h \in todo[p]
                            /\ mem'[p] = IF mem[p].hop[h] \in Terminal THEN mem[p]
                                         ELSE WithHop(mem[p], h, "failed")
                            /\ todo'[p] = todo[p] \ {h}
      BY <2>4 DEF PropagateError, IsLast, Modify
    <3>2. /\ pc'[p] = "failing" /\ todo[p] \subseteq Recorded(mem[p])
      BY <2>4, <1>1 DEF PropagateError
    <3>3. Recorded(WithHop(mem[p], h, "failed")) = Recorded(mem[p]) \cup {h}
      BY WithHopFacts DEF HopStatuses
    <3>4. todo'[p] \subseteq Recorded(mem'[p])
      BY <3>1, <3>2, <3>3
    <3>5. QED
      BY <3>2, <3>4 DEF Recorded
  <2>5. CASE CompleteWorker(p) \/ Close(p) \/ CloseFailed(p) \/ Answer(p)
    BY <2>5 DEF CompleteWorker, Close, CloseFailed, Answer
  <2>6. CASE LoadRow(p) \/ LoadHops(p) \/ Spawn(p) \/ Link(p)
    BY <2>6 DEF LoadRow, LoadHops, Spawn, Link
  <2>7. CASE Acknowledge(p) \/ Crash(p)
    BY <2>7 DEF Acknowledge, Crash, Forget
  <2>8. CASE Raise(p)
    <3>1. CASE StartFailing(p) /\ (mem'[p] = mem[p] \/ mem'[p] = WithResult(p))
      <4>1. Recorded(mem'[p]) = Recorded(mem[p])
        BY <3>1, WithResultFacts
      <4>2. QED
        BY <3>1, <4>1 DEF StartFailing
    <3>2. CASE pc'[p] \in {"acking", "idle"}
      BY <3>2
    <3>3. QED
      BY <2>8, <3>1, <3>2 DEF Raise, Forget, Modify
  <2>9. QED
    BY <1>3, <2>1, <2>2, <2>3, <2>4, <2>5, <2>6, <2>7, <2>8 DEF Gateway
<1>4. ASSUME NEW p \in Hops, Gateway(p) \/ Raise(p) \/ Crash(p) PROVE LoopsOverHops'
  <2>1. \A q \in Hops : Loop(q)'
    BY <1>2, <1>3, <1>4, GatewayLocal, ProfileFacts
  <2>2. QED
    BY <2>1 DEF LoopsOverHops
<1>5. CASE Originator \/ Abandon
  <2>1. \A q \in Hops : Loop(q)'
    BY <1>2, <1>5, OriginatorLocal
  <2>2. QED
    BY <2>1 DEF LoopsOverHops
<1>6. CASE UNCHANGED vars
  <2>1. \A q \in Hops : Loop(q)'
    BY <1>2, <1>6 DEF vars
  <2>2. QED
    BY <2>1 DEF LoopsOverHops
<1>7. QED
    BY <1>4, <1>5, <1>6 DEF Next

-----------------------------------------------------------------------------

\* What a gateway's step can make of its copy of the chain: no new hop, and
\* no new result but its own.  What it saves is its copy.
LEMMA GatewayCopies ==
    ASSUME TypeOK, InFlight, NEW p \in Hops, Gateway(p) \/ Raise(p) \/ Crash(p)
    PROVE  /\ store' = store \/ store' = mem'[p]
           /\ Recorded(mem'[p]) \in {Recorded(mem[p]), Recorded(store), {}}
           /\ mem'[p].results \subseteq mem[p].results \cup store.results \cup
                                        (IF pc[p] = "collecting" THEN {wk[p]} ELSE {})
<1> DEFINE Copies ==
        /\ store' = store \/ store' = mem'[p]
        /\ Recorded(mem'[p]) \in {Recorded(mem[p]), Recorded(store), {}}
        /\ mem'[p].results \subseteq mem[p].results \cup store.results \cup
                                     (IF pc[p] = "collecting" THEN {wk[p]} ELSE {})
<1>1. store \in Chain /\ mem[p] \in Chain /\ p \in Profiles /\ mem \in [Profiles -> Chain]
    BY ProfileFacts DEF TypeOK
<1>2. ASSUME NEW chain, Modify(p, chain) PROVE mem'[p] = chain
    BY <1>1, <1>2 DEF Modify
<1>3. pc[p] \in {"propagating", "failing"} => todo[p] \subseteq Recorded(mem[p])
    BY DEF InFlight, LoopsOverHops
<1>4. CASE mem'[p] = mem[p] /\ store' = store
    BY <1>4
<1>5. CASE LoadRow(p)
  <2>1. mem'[p] = [store EXCEPT !.hop = NewChain.hop]
    BY <1>5, <1>2 DEF LoadRow
  <2>2. Recorded(mem'[p]) = {} /\ mem'[p].results = store.results
    BY <2>1, <1>1, NewChainFacts DEF Recorded, Chain, NewChain
  <2>3. QED
    BY <1>5, <2>2 DEF LoadRow
<1>6. CASE LoadHops(p)
  <2>1. mem'[p] = [mem[p] EXCEPT !.hop = store.hop]
    BY <1>6, <1>2 DEF LoadHops
  <2>2. Recorded(mem'[p]) = Recorded(store) /\ mem'[p].results = mem[p].results
    BY <2>1, <1>1 DEF Recorded, Chain
  <2>3. QED
    BY <1>6, <2>2 DEF LoadHops
<1>7. CASE Spawn(p)
  <2>1. CASE mem[p].status \in Terminal
    BY <1>7, <2>1, <1>4 DEF Spawn
  <2>2. CASE mem[p].status \notin Terminal
    <3>1. mem'[p] = [mem[p] EXCEPT !.workers = @ \cup {FreeWorker}]
      BY <1>7, <2>2, <1>2 DEF Spawn
    <3>2. Recorded(mem'[p]) = Recorded(mem[p]) /\ mem'[p].results = mem[p].results
      BY <3>1, <1>1 DEF Recorded, Chain
    <3>3. QED
      BY <1>7, <3>2 DEF Spawn
  <2>3. QED
    BY <2>1, <2>2
<1>8. CASE Link(p)
  <2>1. store' = mem'[p] /\ mem'[p] = IF mem[p].hop[p] = "delegated"
                                        THEN WithHop(mem[p], p, "working") ELSE mem[p]
    BY <1>8, <1>2 DEF Link, Persist
  <2>2. mem[p].hop[p] = "delegated" => p \in Recorded(mem[p])
    BY DEF Recorded
  <2>3. /\ Recorded(WithHop(mem[p], p, "working")) = Recorded(mem[p]) \cup {p}
        /\ WithHop(mem[p], p, "working").results = mem[p].results
    BY <1>1, WithHopFacts DEF HopStatuses
  <2>4. Recorded(mem'[p]) = Recorded(mem[p]) /\ mem'[p].results = mem[p].results
    BY <2>1, <2>2, <2>3
  <2>5. QED
    BY <2>1, <2>4
<1>9. CASE Collect(p)
  <2>1. store' = mem'[p] /\ mem'[p] = WithResult(p)
    BY <1>9, <1>2 DEF Collect, Persist
  <2>2. Recorded(mem'[p]) = Recorded(mem[p]) /\ mem'[p].results = mem[p].results \cup {wk[p]}
    BY <2>1, <1>1, WithResultFacts
  <2>3. QED
    BY <1>9, <2>1, <2>2 DEF Collect
<1>10. CASE Propagate(p)
  <2>1. PICK h \in Hops : h \in todo[p] /\ mem'[p] = WithHop(mem[p], h, "completed")
    BY <1>10, <1>2 DEF Propagate, IsLast
  <2>2. h \in Recorded(mem[p])
    BY <1>10, <2>1, <1>3 DEF Propagate
  <2>3. /\ Recorded(WithHop(mem[p], h, "completed")) = Recorded(mem[p]) \cup {h}
        /\ WithHop(mem[p], h, "completed").results = mem[p].results
    BY <1>1, WithHopFacts DEF HopStatuses
  <2>4. QED
    BY <1>10, <2>1, <2>2, <2>3 DEF Propagate
<1>11. CASE PropagateError(p)
  <2>1. PICK h \in Hops :
            h \in todo[p] /\ mem'[p] = IF mem[p].hop[h] \in Terminal THEN mem[p]
                                       ELSE WithHop(mem[p], h, "failed")
    BY <1>11, <1>2 DEF PropagateError, IsLast
  <2>2. h \in Recorded(mem[p])
    BY <1>11, <2>1, <1>3 DEF PropagateError
  <2>3. /\ Recorded(WithHop(mem[p], h, "failed")) = Recorded(mem[p]) \cup {h}
        /\ WithHop(mem[p], h, "failed").results = mem[p].results
    BY <1>1, WithHopFacts DEF HopStatuses
  <2>4. QED
    BY <1>11, <2>1, <2>2, <2>3 DEF PropagateError
<1>12. CASE Close(p) \/ CloseFailed(p)
  <2>1. \E s \in ChainStatuses : store' = mem'[p] /\ mem'[p] = [mem[p] EXCEPT !.status = s]
    BY <1>12, <1>2 DEF Close, CloseFailed, Persist, ChainStatuses
  <2>2. Recorded(mem'[p]) = Recorded(mem[p]) /\ mem'[p].results = mem[p].results
    BY <2>1, <1>1 DEF Recorded, Chain
  <2>3. QED
    BY <2>1, <2>2
<1>13. CASE Forget(p) /\ store' = store
  <2>1. mem'[p] = NewChain
    BY <1>13, <1>2 DEF Forget
  <2>2. QED
    BY <1>13, <2>1, NewChainFacts
<1>14. CASE pc[p] = "collecting" /\ Modify(p, WithResult(p)) /\ store' = store
    BY <1>14, <1>1, <1>2, WithResultFacts
<1>15. QED
    BY <1>4, <1>5, <1>6, <1>7, <1>8, <1>9, <1>10, <1>11, <1>12, <1>13,
       <1>14
    DEF Gateway, Execute, CompleteWorker, Answer, Acknowledge, Raise, Crash

\* A chain whose recorded hops lead down from the originator, each of them told.
PathOf(chain, boxes) ==
    \A h \in Recorded(chain) :
        /\ boxes[h] # "unsent"
        /\ \A g \in 1..h : g \in Recorded(chain)

\* ReturnPath, with PathOf: the way back is never broken by a step.
LEMMA ReturnPathStep == TypeOK /\ InFlight /\ ReturnPath /\ [Next]_vars => ReturnPath'
<1> SUFFICES ASSUME TypeOK, InFlight, ReturnPath, [Next]_vars PROVE ReturnPath'
    OBVIOUS
<1>1. PathOf(store, box) /\ \A p \in Profiles : PathOf(mem[p], box)
    BY DEF ReturnPath, Chains, PathOf
<1>2. SUFFICES PathOf(store', box') /\ \A p \in Profiles : PathOf(mem'[p], box')
    BY DEF ReturnPath, Chains, PathOf, Recorded
<1>3. ASSUME NEW chain, NEW next, PathOf(chain, box), Recorded(next) = Recorded(chain)
      PROVE  PathOf(next, box')
    BY <1>3, BoxStep, RecordedFacts DEF PathOf
<1>4. ASSUME NEW chain, Recorded(chain) = {} PROVE PathOf(chain, box')
    BY <1>4 DEF PathOf
<1>5. ASSUME NEW p \in Hops, Gateway(p) \/ Raise(p) \/ Crash(p)
      PROVE  PathOf(store', box') /\ \A q \in Profiles : PathOf(mem'[q], box')
  <2>1. PathOf(mem'[p], box')
    BY <1>1, <1>3, <1>4, <1>5, GatewayCopies, ProfileFacts
  <2>2. PathOf(store', box')
    BY <2>1, <1>1, <1>3, <1>5, GatewayCopies
  <2>3. QED
    BY <2>1, <2>2, <1>1, <1>3, <1>5, GatewayLocal
<1>6. CASE CreateChain
  <2>1. store' = NewChain /\ mem'[0] = NewChain /\ \A q \in Hops : mem'[q] = mem[q]
    BY <1>6, ProfileFacts DEF CreateChain, Persist, Modify, TypeOK
  <2>2. \A q \in Profiles : q = 0 \/ q \in Hops
    BY DepthAssumption DEF Profiles, Hops
  <2>3. QED
    BY <2>1, <2>2, <1>1, <1>3, <1>4, NewChainFacts
<1>7. ASSUME NEW h \in Hops, RecordHop(h)
      PROVE  PathOf(store', box') /\ \A q \in Profiles : PathOf(mem'[q], box')
  <2> DEFINE chain == WithHop([mem[0] EXCEPT !.status = "active"], h, "delegated")
  <2>1. mem[0] \in Chain
    BY ProfileFacts DEF TypeOK
  <2>2. Recorded(chain) = Recorded(mem[0]) \cup {h}
    BY <2>1, DelegatedFacts
  <2>3. store' = chain /\ mem'[0] = chain /\ \A q \in Hops : mem'[q] = mem[q]
    BY <1>7, ProfileFacts DEF RecordHop, Persist, Modify, TypeOK
  <2>4. box[h] # "unsent" /\ \A g \in 1..(h - 1) : g \in Recorded(mem[0])
    BY <1>7 DEF RecordHop, InFlight, SentBeforeRecorded
  <2>5. \A g \in 1..h : g = h \/ g \in 1..(h - 1)
    BY DepthAssumption DEF Hops
  <2>6. PathOf(chain, box)
    BY <2>2, <2>4, <2>5, <1>1, ProfileFacts DEF PathOf
  <2>7. \A q \in Profiles : q = 0 \/ q \in Hops
    BY DepthAssumption DEF Profiles, Hops
  <2>8. QED
    BY <2>3, <2>6, <2>7, <1>1, <1>3
<1>8. CASE UNCHANGED <<store, mem>>
    BY <1>8, <1>1, <1>3
<1>9. QED
    BY <1>5, <1>6, <1>7, <1>8 DEF Next, Originator, SendRequest, Abandon, vars

\* Every result that a step records or sends is that of a worker which its
\* registry has as completed.
LEMMA ResultsStep == TypeOK /\ InFlight /\ ResultsAreReal /\ [Next]_vars => ResultsAreReal'
<1> SUFFICES ASSUME TypeOK, InFlight, ResultsAreReal, [Next]_vars PROVE ResultsAreReal'
    OBVIOUS
<1> DEFINE Real(chain) == \A w \in chain.results : worker[w] = "completed"
           RealNow(chain) == \A w \in chain.results : worker'[w] = "completed"
<1>1. /\ store \in Chain /\ Real(store)
      /\ \A p \in Profiles : mem[p] \in Chain /\ Real(mem[p])
    BY DEF ResultsAreReal, Chains, TypeOK
<1>2. \A chain \in Chain : Real(chain) => RealNow(chain)
    BY WorkerStep DEF Chain
<1>3. ASSUME RealNow(store'), \A p \in Profiles : RealNow(mem'[p]),
             \A r \in responses' \ responses :
                 r.kind = "result" => worker'[r.worker] = "completed"
      PROVE  ResultsAreReal'
  <2>1. \A r \in responses : r.worker \in Worker
    BY DEF TypeOK
  <2>2. \A r \in responses : r.kind = "result" => worker'[r.worker] = "completed"
    BY <2>1, WorkerStep DEF ResultsAreReal
  <2>3. QED
    BY <1>3, <2>2 DEF ResultsAreReal, Chains
<1>4. ASSUME NEW p \in Hops, Gateway(p) \/ Raise(p) \/ Crash(p) PROVE ResultsAreReal'
  <2>1. p \in Profiles
    BY ProfileFacts
  <2>2. pc[p] \in Reporting => wk[p] \in Worker /\ worker[wk[p]] = "completed"
    BY DEF InFlight, WorkersKnown, Engaged, Reporting
  <2>3. pc[p] \in Reporting => worker'[wk[p]] = "completed"
    BY <2>2, WorkerStep
  <2>4. RealNow(mem'[p])
    BY <2>1, <2>3, <1>1, <1>2, <1>4, GatewayCopies DEF Reporting
  <2>5. RealNow(store')
    BY <2>4, <1>1, <1>2, <1>4, GatewayCopies
  <2>6. \A q \in Profiles : RealNow(mem'[q])
    BY <2>1, <2>4, <1>1, <1>2, <1>4, GatewayLocal
  <2>7. \A r \in responses' \ responses :
            r.kind = "result" => r.worker = wk[p] /\ pc[p] \in Reporting
    <3>1. CASE Propagate(p)
      BY <3>1 DEF Propagate, Response, Reporting
    <3>2. CASE PropagateError(p)
      BY <3>2 DEF PropagateError, Response
    <3>3. CASE Answer(p)
      <4>1. responses' = responses \cup
                {Response(p, IF pc[p] = "answering result" THEN "result" ELSE "error", wk[p], TRUE)}
        BY <3>3 DEF Answer
      <4>2. ASSUME NEW r \in responses' \ responses, r.kind = "result"
            PROVE  r.worker = wk[p] /\ pc[p] \in Reporting
        <5>1. r = Response(p, IF pc[p] = "answering result" THEN "result" ELSE "error", wk[p], TRUE)
          BY <4>1
        <5>2. r.worker = wk[p] /\ r.kind = IF pc[p] = "answering result" THEN "result" ELSE "error"
          BY <5>1 DEF Response
        <5>3. QED
          BY <4>2, <5>2 DEF Reporting
      <4>3. QED
        BY <4>2
    <3>4. CASE UNCHANGED responses
      BY <3>4
    <3>5. QED
      BY <1>4, <3>1, <3>2, <3>3, <3>4
      DEF Gateway, LoadRow, LoadHops, Spawn, Link, Execute, CompleteWorker, Collect, Close,
          CloseFailed, Acknowledge, Raise, Crash
  <2>8. QED
    BY <2>3, <2>5, <2>6, <2>7, <1>3
<1>5. CASE Originator \/ Abandon
  <2>1. \A q \in Hops : mem'[q] = mem[q]
    BY <1>5, OriginatorLocal
  <2>2. UNCHANGED responses
    BY <1>5, OriginatorLocal
  <2>3. RealNow(store') /\ RealNow(mem'[0])
    <3>1. CASE CreateChain
      BY <3>1, NewChainFacts, ProfileFacts DEF CreateChain, Persist, Modify, TypeOK
    <3>2. ASSUME NEW h \in Hops, RecordHop(h) PROVE RealNow(store') /\ RealNow(mem'[0])
      <4>1. mem[0] \in Chain
        BY ProfileFacts DEF TypeOK
      <4>2. mem'[0] = WithHop([mem[0] EXCEPT !.status = "active"], h, "delegated")
        BY <3>2, ProfileFacts DEF RecordHop, Persist, Modify, TypeOK
      <4>3. store' = mem'[0] /\ mem'[0].results = mem[0].results
        BY <3>2, <4>1, <4>2, DelegatedFacts DEF RecordHop, Persist
      <4>4. QED
        BY <4>3, <1>1, <1>2, ProfileFacts
    <3>3. CASE UNCHANGED <<store, mem>>
      BY <3>3, <1>1, <1>2, ProfileFacts
    <3>4. QED
      BY <1>5, <3>1, <3>2, <3>3 DEF Originator, SendRequest, Abandon
  <2>4. \A q \in Profiles : q = 0 \/ q \in Hops
    BY DepthAssumption DEF Profiles, Hops
  <2>5. \A q \in Profiles : RealNow(mem'[q])
    BY <2>1, <2>3, <2>4, <1>1, <1>2
  <2>6. QED
    BY <2>2, <2>3, <2>5, <1>3
<1>6. CASE UNCHANGED vars
  <2>1. RealNow(store') /\ \A q \in Profiles : RealNow(mem'[q])
    BY <1>6, <1>1, <1>2 DEF vars
  <2>2. QED
    BY <2>1, <1>3, <1>6 DEF vars
<1>7. QED
    BY <1>4, <1>5, <1>6 DEF Next

\* Only propagate_result completes the chain in the store, and it does so
\* after its loop has completed the hops of a copy whose workers are done.
LEMMA CompletedStep == TypeOK /\ InFlight /\ CompletedIsWhole /\ [Next]_vars => CompletedIsWhole'
<1> SUFFICES ASSUME TypeOK, InFlight, CompletedIsWhole, [Next]_vars PROVE CompletedIsWhole'
    OBVIOUS
<1>1. ASSUME store' = store PROVE CompletedIsWhole'
    BY <1>1 DEF CompletedIsWhole, AllDone, Recorded
<1>2. ASSUME store'.status # "completed" PROVE CompletedIsWhole'
    BY <1>2 DEF CompletedIsWhole
<1>3. \A p \in Hops : mem[p] \in Chain
    BY ProfileFacts DEF TypeOK
<1>4. CASE CreateChain
    BY <1>2, <1>4, NewChainFacts DEF CreateChain, Persist
<1>5. ASSUME NEW h \in Hops, RecordHop(h) PROVE CompletedIsWhole'
  <2>1. mem[0] \in Chain
    BY ProfileFacts DEF TypeOK
  <2>2. store'.status = "active"
    BY <1>5, <2>1, DelegatedFacts DEF RecordHop, Persist
  <2>3. QED
    BY <1>2, <2>2
<1>6. ASSUME NEW p \in Hops, Link(p) PROVE CompletedIsWhole'
  <2>1. mem[p].status # "completed"
    BY <1>6 DEF Link, InFlight, OpenWhileWorking, Terminal
  <2>2. WithHop(mem[p], p, "working").status = mem[p].status
    BY <1>3, WithHopFacts DEF HopStatuses
  <2>3. store'.status # "completed"
    BY <1>6, <2>1, <2>2 DEF Link, Persist
  <2>4. QED
    BY <1>2, <2>3
<1>7. ASSUME NEW p \in Hops, Collect(p) PROVE CompletedIsWhole'
  <2>1. mem[p].status # "completed"
    BY <1>7 DEF Collect, InFlight, OpenWhileWorking, Terminal
  <2>2. WithResult(p).status = mem[p].status
    BY <1>3, WithResultFacts
  <2>3. QED
    BY <1>2, <1>7, <2>1, <2>2 DEF Collect, Persist
<1>8. ASSUME NEW p \in Hops, Close(p) PROVE CompletedIsWhole'
  <2>1. store' = [mem[p] EXCEPT !.status = "completed"]
    BY <1>8 DEF Close, Persist
  <2>2. /\ store'.hop = mem[p].hop /\ store'.workers = mem[p].workers
        /\ store'.results = mem[p].results
    BY <2>1, <1>3 DEF Chain
  <2>3. AllDone(mem[p]) /\ \A h \in Recorded(mem[p]) : mem[p].hop[h] = "completed"
    BY <1>8 DEF Close, InFlight, LoopsOverHops
  <2>4. QED
    BY <2>2, <2>3 DEF CompletedIsWhole, AllDone, Recorded
<1>9. ASSUME NEW p \in Hops, CloseFailed(p) PROVE CompletedIsWhole'
  <2>1. [mem[p] EXCEPT !.status = "failed"].status = "failed"
    BY <1>3 DEF Chain
  <2>2. QED
    BY <1>2, <1>9, <2>1 DEF CloseFailed, Persist
<1>10. QED
    BY <1>1, <1>4, <1>5, <1>6, <1>7, <1>8, <1>9
    DEF Next, Originator, Gateway, SendRequest, LoadRow, LoadHops, Spawn, Execute,
        CompleteWorker, Propagate, PropagateError, Answer, Acknowledge, Raise, Crash,
        Abandon, vars

-----------------------------------------------------------------------------

LEMMA IInvStep == IInv /\ [Next]_vars => IInv'
BY TypeStep, SentStep, WorkersStep, OpenStep, LoopsStep, ReturnPathStep, ResultsStep,
   CompletedStep
DEF IInv, InFlight

\* The invariant, and with it what every process relies on, holds in every
\* behaviour: whatever the processes of a chain read, write, lose or repeat.
THEOREM Invariance == Spec => []IInv
<1>1. QED
    BY InitIInv, IInvStep, PTL DEF Spec

\* Types are kept (chain rows, copies, steps, workers, responses).
THEOREM TypeCorrect == Spec => []TypeOK
<1>1. IInv => TypeOK
    BY DEF IInv
<1>2. QED
    BY Invariance, <1>1, PTL

\* The hops in the store and in every copy lead down from the originator
\* without a gap, and each of them was told (delegate, delegate_down_chain).
THEOREM ReturnPathHolds == Spec => []ReturnPath
<1>1. IInv => ReturnPath
    BY DEF IInv
<1>2. QED
    BY Invariance, <1>1, PTL

\* A result that is recorded or sent is of a completed worker
\* (complete_worker, propagate_result, _send_response).
THEOREM ResultsAreRealHolds == Spec => []ResultsAreReal
<1>1. IInv => ResultsAreReal
    BY DEF IInv
<1>2. QED
    BY Invariance, <1>1, PTL

\* A chain that is completed in the store has no open hop and no worker
\* without a result, whoever saved it last (ChainStore.save).
THEOREM CompletedIsWholeHolds == Spec => []CompletedIsWhole
<1>1. IInv => CompletedIsWhole
    BY DEF IInv
<1>2. QED
    BY Invariance, <1>1, PTL

-----------------------------------------------------------------------------
(* The live view of the registry and the bus (LiveView), for all sets of   *)
(* rows and browsers and for histories of any length.                      *)

ClientType == [pc : {"new", "added", "open", "gone"}, joined : BOOLEAN,
               got : SUBSET (1..events), before : 0..events]

\* What the bus and the WebSocket server hold: events that there are, and an
\* open client is one of the connections.
ServerTypeOK ==
    /\ events \in Nat /\ calling \in {0, events}
    /\ tasks \subseteq [event : 1..events, begun : BOOLEAN, todo : SUBSET Clients]
    /\ \A t \in tasks : t.todo # {} => t.begun
    /\ client \in [Clients -> ClientType]
    /\ \A c \in Clients : client[c].pc \in {"added", "open"} => client[c].joined

ViewIInv == ServerTypeOK /\ NothingMissed

LEMMA ViewStarts == ViewInit => ViewIInv
  BY DEF ClientType, ViewInit, ViewIInv, ServerTypeOK, NothingMissed

\* Connections come and go: a client that opens has just been sent the history.
LEMMA ClientStep ==
    ASSUME ViewIInv, NEW c \in Clients,
           \/ AddConnection(c) \/ SendHistory(c)
           \/ Leave(c) \/ RemoveConnection(c)
    PROVE  ViewIInv'
<1> USE BoundsAreNatural DEF ViewIInv, ServerTypeOK
<1>1. UNCHANGED <<events, calling, tasks>>
    BY DEF AddConnection, SendHistory, Leave, RemoveConnection, busVars
<1>2. \A d \in Clients \ {c} : client'[d] = client[d]
    BY DEF AddConnection, SendHistory, Leave, RemoveConnection
<1>3. /\ client' \in [Clients -> ClientType]
      /\ client'[c].pc \in {"added", "open"} => client'[c].joined
  <2>1. CASE SendHistory(c)
    <3>1. {e \in 1..events : e + Recent > events} \in SUBSET (1..events) /\ events \in 0..events
        OBVIOUS
    <3>2. QED
        BY <2>1, <3>1 DEF SendHistory, ClientType
  <2>2. CASE AddConnection(c) \/ Leave(c) \/ RemoveConnection(c)
    <3> DEFINE r == client[c]
    <3>1. \/ client' = [client EXCEPT ![c] = [r EXCEPT !.pc = "added", !.joined = TRUE]]
          \/ client' = [client EXCEPT ![c] = [r EXCEPT !.pc = "gone"]]
          \/ /\ client' = [client EXCEPT ![c] = [r EXCEPT !.joined = FALSE]]
             /\ r.pc = "gone"
        BY <2>2 DEF AddConnection, Leave, RemoveConnection
    <3>2. r \in ClientType /\ (r.pc \in {"added", "open"} => r.joined)
        OBVIOUS
    <3>3. /\ [r EXCEPT !.pc = "added", !.joined = TRUE] \in ClientType
          /\ [r EXCEPT !.pc = "gone"] \in ClientType
          /\ [r EXCEPT !.joined = FALSE] \in ClientType
          /\ [r EXCEPT !.pc = "added", !.joined = TRUE].joined
          /\ [r EXCEPT !.pc = "gone"].pc = "gone"
          /\ r.pc = "gone" => [r EXCEPT !.joined = FALSE].pc = "gone"
        BY <3>2 DEF ClientType
    <3> HIDE DEF r
    <3>4. QED
        BY <3>1, <3>2, <3>3
  <2>3. QED
    BY <2>1, <2>2
<1>4. client'[c].pc = "open" =>
         client'[c].before = events /\ client'[c].got = {e \in 1..events : e + Recent > events}
    BY DEF AddConnection, SendHistory, Leave, RemoveConnection, ClientType
<1>5. ServerTypeOK'
    BY <1>1, <1>2, <1>3 DEF ClientType
<1>6. NothingMissed'
    BY <1>1, <1>2, <1>4 DEF NothingMissed
<1>7. QED
    BY <1>5, <1>6

\* A broadcast that begins takes every open client for a target.
LEMMA StartStep ==
    ASSUME ViewIInv, NEW t \in tasks, BroadcastStart(t)
    PROVE  ViewIInv'
<1> DEFINE u == [t EXCEPT !.begun = TRUE, !.todo = Connections]
<1> USE DEF ViewIInv, ServerTypeOK, ClientType
<1>1. UNCHANGED <<events, calling, client>>
    BY DEF BroadcastStart, busVars
<1>2. /\ t \in [event : 1..events, begun : BOOLEAN, todo : SUBSET Clients]
      /\ Connections \in SUBSET Clients
    BY DEF Connections
<1>3. /\ u \in [event : 1..events, begun : BOOLEAN, todo : SUBSET Clients]
      /\ u.event = t.event /\ u.begun /\ u.todo = Connections
    BY <1>2
<1>4. tasks' \subseteq (tasks \ {t}) \cup {u}
    BY DEF BroadcastStart, Keep
<1>5. tasks \ {t} \subseteq tasks' /\ (Connections # {} => u \in tasks')
    BY DEF BroadcastStart, Keep
<1> HIDE DEF u
<1>6. ServerTypeOK'
    BY <1>1, <1>3, <1>4
<1>7. NothingMissed'
  <2> SUFFICES ASSUME NEW c \in Clients, client[c].pc = "open",
                      NEW e \in 1..events, e + Recent > client[c].before,
                      e \notin client[c].got, e # calling
               PROVE  \E v \in tasks' : v.event = e /\ (~v.begun \/ c \in v.todo)
    BY <1>1 DEF NothingMissed
  <2>1. PICK v \in tasks : v.event = e /\ (~v.begun \/ c \in v.todo)
    BY DEF NothingMissed
  <2>2. CASE v = t
    BY <1>3, <1>5, <2>1, <2>2 DEF Connections
  <2>3. CASE v # t
    BY <1>5, <2>1, <2>3
  <2>4. QED
    BY <2>2, <2>3
<1>8. QED
    BY <1>6, <1>7

\* A broadcast that goes on has sent its event to one client, or lost it.
LEMMA SendStep ==
    ASSUME ViewIInv, NEW t \in tasks, BroadcastSend(t)
    PROVE  ViewIInv'
<1> USE DEF ViewIInv, ServerTypeOK, ClientType
<1>1. UNCHANGED <<events, calling>>
    BY DEF BroadcastSend, busVars
<1>2. t \in [event : 1..events, begun : BOOLEAN, todo : SUBSET Clients]
    OBVIOUS
<1>3. PICK d \in t.todo :
        /\ Keep(t, t.todo \ {d})
        /\ client' = IF client[d].pc = "gone" THEN [client EXCEPT ![d].joined = FALSE]
                     ELSE [client EXCEPT ![d].got = @ \cup {t.event}]
    BY DEF BroadcastSend
<1> DEFINE u == [t EXCEPT !.begun = TRUE, !.todo = t.todo \ {d}]
<1>4. /\ u \in [event : 1..events, begun : BOOLEAN, todo : SUBSET Clients]
      /\ u.event = t.event /\ u.begun /\ u.todo = t.todo \ {d}
    BY <1>2
<1>5. tasks' \subseteq (tasks \ {t}) \cup {u}
    BY <1>3 DEF Keep
<1>6. tasks \ {t} \subseteq tasks' /\ (t.todo \ {d} # {} => u \in tasks')
    BY <1>3 DEF Keep
<1> HIDE DEF u
<1>7. d \in Clients
    BY <1>2
<1>8. /\ client' \in [Clients -> ClientType]
      /\ \A c \in Clients : /\ client'[c].pc = client[c].pc
                            /\ client'[c].before = client[c].before
                            /\ client[c].got \subseteq client'[c].got
                            /\ client'[c].pc \in {"added", "open"} => client'[c].joined
      /\ client[d].pc = "open" => t.event \in client'[d].got
    BY <1>2, <1>3, <1>7
<1>9. ServerTypeOK'
    BY <1>1, <1>4, <1>5, <1>8
<1>10. NothingMissed'
  <2> SUFFICES ASSUME NEW c \in Clients, client[c].pc = "open",
                      NEW e \in 1..events, e + Recent > client[c].before,
                      e \notin client'[c].got, e # calling
               PROVE  \E v \in tasks' : v.event = e /\ (~v.begun \/ c \in v.todo)
    BY <1>1, <1>8 DEF NothingMissed
  <2>1. PICK v \in tasks : v.event = e /\ (~v.begun \/ c \in v.todo)
    BY <1>8 DEF NothingMissed
  <2>2. CASE v = t
    <3>1. c # d /\ c \in t.todo
        BY <1>3, <1>8, <2>1, <2>2
    <3>2. QED
        BY <1>4, <1>6, <2>1, <2>2, <3>1
  <2>3. CASE v # t
    BY <1>6, <2>1, <2>3
  <2>4. QED
    BY <2>2, <2>3
<1>11. QED
    BY <1>9, <1>10

\* The watcher's thread publishes an event, and schedules its broadcast.
LEMMA EventStep ==
    ASSUME ViewIInv, UNCHANGED client,
           \/ OnEvent
           \/ Publish /\ UNCHANGED tasks
    PROVE  ViewIInv'
<1> USE BoundsAreNatural DEF ViewIInv, ServerTypeOK, ClientType
<1>1. CASE OnEvent
  <2> DEFINE t == [event |-> calling, begun |-> FALSE, todo |-> {}]
  <2>1. UNCHANGED events /\ calling' = 0 /\ calling # 0
    BY <1>1 DEF OnEvent
  <2>2. tasks \subseteq tasks' /\ tasks' \subseteq tasks \cup {t}
    BY <1>1 DEF OnEvent
  <2>3. (\E c \in Clients : client[c].joined) => t \in tasks'
    BY <1>1 DEF OnEvent, Connections
  <2>4. t \in [event : 1..events, begun : BOOLEAN, todo : SUBSET Clients] /\ ~t.begun
       /\ t.todo = {} /\ t.event = calling
    BY <2>1
  <2> HIDE DEF t
  <2>5. ServerTypeOK'
    BY <2>1, <2>2, <2>4
  <2>6. NothingMissed'
    <3> SUFFICES ASSUME NEW c \in Clients, client[c].pc = "open",
                        NEW e \in 1..events, e + Recent > client[c].before,
                        e \notin client[c].got
                 PROVE  \E v \in tasks' : v.event = e /\ (~v.begun \/ c \in v.todo)
        BY <2>1 DEF NothingMissed
    <3>1. CASE e = calling
        BY <2>3, <2>4, <3>1
    <3>2. CASE e # calling
        BY <2>2, <3>2 DEF NothingMissed
    <3>3. QED
        BY <3>1, <3>2
  <2>7. QED
    BY <2>5, <2>6
<1>2. CASE Publish /\ UNCHANGED tasks
  <2>1. calling = 0 /\ events' = events + 1 /\ calling' = events'
    BY <1>2 DEF Publish
  <2>2. ServerTypeOK'
    BY <1>2, <2>1
  <2>3. NothingMissed'
    BY <1>2, <2>1 DEF NothingMissed
  <2>4. QED
    BY <2>2, <2>3
<1>3. QED
    BY <1>1, <1>2

LEMMA ViewStep == ASSUME ViewIInv, ViewNext PROVE ViewIInv'
<1>1. ASSUME UNCHANGED <<events, calling, tasks, client>> PROVE ViewIInv'
    BY <1>1 DEF ViewIInv, ServerTypeOK, ClientType, NothingMissed
<1>2. CASE OnEvent \/ (Publish /\ UNCHANGED serverVars)
  <2>1. UNCHANGED client /\ (OnEvent \/ (Publish /\ UNCHANGED tasks))
    BY <1>2 DEF OnEvent, serverVars
  <2>2. QED
    BY <2>1, EventStep, SMT
<1>3. CASE Server
    BY <1>3, ClientStep, StartStep, SendStep DEF Server
<1>4. CASE World \/ Read \/ ReadFails
  <2>1. UNCHANGED <<events, calling, tasks, client>>
    BY <1>4 DEF World, Read, ReadFails, Tick, WorkerChanges,
        GatewayChanges, Change, Stamp, Commit, ReadMessages,
        ReadWorkers, ReadGateway, busVars, serverVars
  <2>2. QED
    BY <1>1, <2>1
<1>5. CASE Report
  <2>1. OnEvent \/ (Publish /\ UNCHANGED serverVars)
    BY <1>5 DEF Report, PublishMessage, PublishWorker, PublishGateway
  <2>2. QED
    BY <1>2, <2>1
<1>6. QED
    BY <1>3, <1>4, <1>5 DEF ViewNext

LEMMA ViewInvariance == ViewSpec => []ViewIInv
<1>1. ViewIInv /\ [ViewNext]_viewVars => ViewIInv'
  <2>1. ASSUME ViewIInv, UNCHANGED viewVars PROVE ViewIInv'
    BY <2>1 DEF viewVars, ViewIInv, ServerTypeOK, ClientType, NothingMissed
  <2>2. QED
    BY <2>1, ViewStep
<1> QED BY <1>1, ViewStarts, PTL DEF ViewSpec

\* No open client misses an event of its history or a later one, for any
\* number of clients and broadcasts under way.
THEOREM NothingMissedHolds == ViewSpec => []NothingMissed
<1>1. ViewIInv => NothingMissed
    BY DEF ViewIInv
<1> QED BY <1>1, ViewInvariance, PTL

-----------------------------------------------------------------------------
(* What the watcher holds                                                  *)

\* The rows that there are to be read, and the times of those committed.
WorldTyped ==
    /\ now \in 0..MaxTime
    /\ created \in [Messages -> (0..MaxTime) \cup {Nothing}]
    /\ committed \subseteq Messages /\ outrun \subseteq committed
    /\ \A m \in committed : created[m] \in 0..MaxTime
    /\ workers \in Seq([id : Workers, status : States \cup {"deleted"}])
    /\ up \in BOOLEAN
    /\ changes \in 0..MaxChanges

News == [worker : [Workers -> States \cup {Nothing}], up : BOOLEAN]

\* What each check has found is of its kind.
WatcherTyped ==
    /\ last \in 0..MaxTime
    /\ snapshot \in News
    /\ shown \in [message : SUBSET committed, worker : [Workers -> States \cup {Nothing}],
                  up : BOOLEAN]
    /\ \/ watch \in [at : {"messages"}, todo : SUBSET committed]
       \/ watch \in [at : {"workers"}, todo : SUBSET Workers]
       \/ watch \in [at : {"gateway"}, todo : SUBSET BOOLEAN]

LEMMA WorldStarts ==
    ASSUME ViewInit
    PROVE  WorldTyped /\ WatcherTyped
<1> USE BoundsAreNatural, WorkersAreFinite
<1>1. \A i \in 1..Cardinality(Workers) : Order[i] \in Workers
  <2> DEFINE C == Cardinality(Workers)
             Is(f) == f \in [1..C -> Workers] /\ \A i, j \in DOMAIN f : f[i] = f[j] => i = j
  <2>1. \E f : Is(f)
    <3>1. PICK f \in Bijection(1..C, Workers) : TRUE
        BY FS_CardinalityType DEF ExistsBijection
    <3> QED BY <3>1 DEF Bijection, Injection, IsInjective, Surjection
  <2>2. C = Cardinality(Workers)
    OBVIOUS
  <2> HIDE DEF C
  <2>3. Order \in [1..C -> Workers]
    BY <2>1, <2>2, Zenon DEF Order
  <2> QED BY <2>3 DEF C
<1>2. workers \in Seq([id : Workers, status : States \cup {"deleted"}])
  <2>1. PICK n \in 0..Cardinality(Workers) :
           workers = [i \in 1..n |-> [id |-> Order[i], status |-> "running"]]
    BY Zenon DEF ViewInit
  <2>2. Cardinality(Workers) \in Nat
    BY FS_CardinalityType
  <2>3. \A i \in 1..n : Order[i] \in Workers
    BY <1>1, <2>2
  <2>4. \A i \in 1..n : [id |-> Order[i], status |-> "running"]
                            \in [id : Workers, status : States \cup {"deleted"}]
    BY <2>3 DEF States
  <2> DEFINE Row == [id : Workers, status : States \cup {"deleted"}]
  <2> HIDE DEF Row
  <2>5. workers \in [1..n -> Row] /\ n \in Nat
    BY <2>1, <2>2, <2>4 DEF Row
  <2>6. workers \in Seq(Row)
    BY <2>5
  <2> QED BY <2>6 DEF Row
<1>3. WorldTyped
  <2>1. /\ now = 0 /\ created = [m \in Messages |-> Nothing] /\ committed = {} /\ outrun = {}
        /\ up = FALSE /\ changes = 0
    BY Zenon DEF ViewInit
  <2>2. /\ now \in 0..MaxTime /\ changes \in 0..MaxChanges
        /\ created \in [Messages -> (0..MaxTime) \cup {Nothing}]
    BY <2>1
  <2> QED BY <1>2, <2>1, <2>2 DEF WorldTyped
<1>4. WatcherTyped
    BY DEF WatcherTyped, ViewInit, News
<1> QED BY <1>3, <1>4

\* What is committed stays so, and what it has been given as its time.
LEMMA WorldStep ==
    ASSUME WorldTyped, WatcherTyped, World
    PROVE  WorldTyped' /\ WatcherTyped'
<1> USE BoundsAreNatural
<1>1. UNCHANGED <<last, watch, snapshot, shown>> /\ committed \subseteq committed'
    BY DEF World, Tick, WorkerChanges, GatewayChanges, Change,
           Stamp, Commit, watchVars
<1>2. WatcherTyped'
    BY <1>1 DEF WatcherTyped
<1>3. CASE Tick
    BY <1>2, <1>3 DEF Tick, WorldTyped
<1>4. CASE GatewayChanges
    BY <1>2, <1>4 DEF GatewayChanges, Change, WorldTyped
<1>5. CASE WorkerChanges
  <2> DEFINE Row == [id : Workers, status : States \cup {"deleted"}]
  <2>1. workers' \in Seq(Row)
    <3>1. workers \in Seq(Row)
        BY DEF WorldTyped
    <3>2. ASSUME NEW w \in Workers, workers' = <<[id |-> w, status |-> "running"]>> \o workers
          PROVE  workers' \in Seq(Row)
      <4>1. [id |-> w, status |-> "running"] \in Row
        BY DEF States
      <4> HIDE DEF Row
      <4> QED BY <3>1, <3>2, <4>1
    <3>3. ASSUME NEW i \in DOMAIN workers, NEW s \in States \cup {"deleted"},
                 workers' = [workers EXCEPT ![i].status = s]
          PROVE  workers' \in Seq(Row)
      <4>1. workers[i] \in Row
        <5> HIDE DEF Row
        <5> QED BY <3>1
      <4>2. [workers[i] EXCEPT !.status = s] \in Row
        BY <4>1
      <4>3. workers' = [workers EXCEPT ![i] = [workers[i] EXCEPT !.status = s]]
        BY <3>3
      <4> HIDE DEF Row
      <4> QED BY <3>1, <4>2, <4>3
    <3> QED BY <1>5, <3>2, <3>3 DEF WorkerChanges
  <2> QED BY <1>2, <1>5, <2>1 DEF WorkerChanges, Change, WorldTyped
<1>6. ASSUME NEW m \in Messages, Stamp(m) PROVE WorldTyped'
  <2>1. created' \in [Messages -> (0..MaxTime) \cup {Nothing}]
    BY <1>6 DEF Stamp, WorldTyped
  <2>2. \A k \in committed : created'[k] \in 0..MaxTime
    BY <1>6 DEF Stamp, WorldTyped
  <2> QED BY <1>6, <2>1, <2>2 DEF Stamp, WorldTyped
<1>7. ASSUME NEW m \in Messages, Commit(m) PROVE WorldTyped'
    BY <1>7 DEF Commit, WorldTyped
<1> QED BY <1>2, <1>3, <1>4, <1>5, <1>6, <1>7 DEF World

\* What a check finds is of its kind, and so is what is left of it.
LEMMA FoundTyped ==
    ASSUME WatcherTyped, NEW items, Found(items),
           watch.at = "messages" => items \subseteq committed,
           watch.at = "workers" => items \subseteq Workers,
           watch.at = "gateway" => items \subseteq BOOLEAN
    PROVE  \/ watch' \in [at : {"messages"}, todo : SUBSET committed]
           \/ watch' \in [at : {"workers"}, todo : SUBSET Workers]
           \/ watch' \in [at : {"gateway"}, todo : SUBSET BOOLEAN]
<1>1. CASE items = {}
  <2>1. watch' = [at |-> Following[watch.at], todo |-> {}]
    BY <1>1 DEF Found
  <2>2. Following[watch.at] \in {"messages", "workers", "gateway"}
    BY DEF WatcherTyped, Following
  <2> QED BY <2>1, <2>2
<1>2. CASE items # {}
  <2>1. watch' = [watch EXCEPT !.todo = items]
    BY <1>2 DEF Found
  <2> QED BY <2>1 DEF WatcherTyped
<1> QED BY <1>1, <1>2

LEMMA ListedTyped == ASSUME WorldTyped PROVE Listed \in [Workers -> States \cup {Nothing}]
<1> DEFINE Places(w) == {i \in Rows : /\ workers[i].id = w
                                           /\ Cardinality({j \in Rows : j < i}) < Newest}
<1>1. ASSUME NEW w \in Workers, NEW i \in Places(w) PROVE workers[i].status \in States
  <2>1. i \in DOMAIN workers /\ workers[i].status # "deleted"
    BY <1>1 DEF Rows
  <2>2. workers[i].status \in States \cup {"deleted"}
    <3> DEFINE Row == [id : Workers, status : States \cup {"deleted"}]
    <3>1. workers \in Seq(Row)
        BY DEF WorldTyped
    <3>2. workers[i] \in Row
        <4> HIDE DEF Row
        <4> QED BY <2>1, <3>1
    <3> QED BY <3>2
  <2> QED BY <2>1, <2>2
<1>2. Listed = [w \in Workers |->
          IF Places(w) = {} THEN Nothing ELSE workers[CHOOSE i \in Places(w) : TRUE].status]
    BY Zenon DEF Listed
<1> HIDE DEF Places
<1>3. ASSUME NEW w \in Workers, Places(w) # {}
      PROVE  workers[CHOOSE i \in Places(w) : TRUE].status \in States
    BY <1>1, <1>3
<1> QED BY <1>2, <1>3

LEMMA WatcherStep ==
    ASSUME WorldTyped, WatcherTyped,
           Read \/ ReadFails \/ Report
    PROVE  WorldTyped' /\ WatcherTyped'
<1> USE BoundsAreNatural
<1> DEFINE WatchTyped ==
        \/ watch' \in [at : {"messages"}, todo : SUBSET committed]
        \/ watch' \in [at : {"workers"}, todo : SUBSET Workers]
        \/ watch' \in [at : {"gateway"}, todo : SUBSET BOOLEAN]
<1>1. WorldTyped' /\ committed' = committed
  <2>1. CASE ReadFails
    BY <2>1 DEF ReadFails, WorldTyped
  <2>2. CASE ~ ReadFails
    <3>1. UNCHANGED worldVars
        BY <2>2 DEF Read, Report, ReadMessages, ReadWorkers, ReadGateway,
                    OnEvent, PublishMessage, PublishWorker, PublishGateway
    <3> QED BY <3>1 DEF worldVars, WorldTyped
  <2> QED BY <2>1, <2>2
<1>2. /\ watch.at = "messages" => watch.todo \subseteq committed
      /\ watch.at = "workers" => watch.todo \subseteq Workers
      /\ watch.at = "gateway" => watch.todo \subseteq BOOLEAN
    BY DEF WatcherTyped
<1>3. ASSUME NEW item, Published(item) PROVE WatchTyped
  <2>1. Found(watch.todo \ {item})
    BY <1>3 DEF Published
  <2> QED BY <1>2, <2>1, FoundTyped
<1>4. CASE ReadFails
  <2>1. watch' = [watch EXCEPT !.at = Following[watch.at]] /\ watch.todo = {}
    BY <1>4 DEF ReadFails
  <2>2. Following[watch.at] \in {"messages", "workers", "gateway"}
    BY DEF WatcherTyped, Following
  <2>3. WatchTyped
    BY <2>1, <2>2 DEF WatcherTyped
  <2> HIDE DEF WatchTyped
  <2>4. UNCHANGED <<last, snapshot, shown>>
    BY <1>4 DEF ReadFails
  <2> QED BY <1>1, <2>3, <2>4 DEF WatcherTyped, WatchTyped
<1>5. CASE ReadMessages
  <2>1. WatchTyped
    BY <1>5, FoundTyped DEF ReadMessages, Begin
  <2>2. UNCHANGED <<last, snapshot, shown>>
    BY <1>5 DEF ReadMessages
  <2> QED BY <1>1, <2>1, <2>2 DEF WatcherTyped
<1>6. CASE ReadWorkers
  <2>1. WatchTyped
    BY <1>6, FoundTyped DEF ReadWorkers, Begin
  <2>2. UNCHANGED <<last, shown>> /\ snapshot' = [snapshot EXCEPT !.worker = Listed]
    BY <1>6 DEF ReadWorkers
  <2>3. snapshot' \in News
    BY <2>2, ListedTyped DEF WatcherTyped, News
  <2> QED BY <1>1, <2>1, <2>2, <2>3 DEF WatcherTyped
<1>7. CASE ReadGateway
  <2>1. up \in BOOLEAN
    BY DEF WorldTyped
  <2>2. WatchTyped
    BY <1>7, <2>1, FoundTyped DEF ReadGateway, Begin
  <2>3. UNCHANGED <<last, shown>> /\ snapshot' \in News
    BY <1>7, <2>1 DEF ReadGateway, WatcherTyped, News
  <2> QED BY <1>1, <2>2, <2>3 DEF WatcherTyped
<1>8. CASE OnEvent
    BY <1>1, <1>8 DEF OnEvent, watchVars, WatcherTyped
<1>9. CASE PublishMessage
  <2>1. PICK m \in watch.todo :
           /\ last' = created[m] /\ shown' = [shown EXCEPT !.message = @ \cup {m}]
           /\ Published(m) /\ UNCHANGED snapshot
    BY <1>9 DEF PublishMessage
  <2>2. m \in committed
    BY <1>2, <1>9 DEF PublishMessage
  <2>3. last' \in 0..MaxTime
    BY <2>1, <2>2 DEF WorldTyped
  <2>4. shown' \in [message : SUBSET committed, worker : [Workers -> States \cup {Nothing}],
                    up : BOOLEAN]
    BY <2>1, <2>2 DEF WatcherTyped
  <2>5. WatchTyped
    BY <1>3, <2>1
  <2> HIDE DEF WatchTyped
  <2> QED BY <1>1, <2>1, <2>3, <2>4, <2>5 DEF WatcherTyped, WatchTyped
<1>10. CASE PublishWorker
  <2>1. PICK w \in watch.todo :
           /\ shown' = [shown EXCEPT !.worker[w] = snapshot.worker[w]]
           /\ Published(w) /\ UNCHANGED <<last, snapshot>>
    BY <1>10 DEF PublishWorker
  <2>2. w \in Workers
    BY <1>2, <1>10 DEF PublishWorker
  <2>3. snapshot.worker[w] \in States \cup {Nothing}
    BY <2>2 DEF WatcherTyped, News
  <2>4. shown' \in [message : SUBSET committed, worker : [Workers -> States \cup {Nothing}],
                    up : BOOLEAN]
    BY <2>1, <2>2, <2>3 DEF WatcherTyped
  <2>5. WatchTyped
    BY <1>3, <2>1
  <2> HIDE DEF WatchTyped
  <2> QED BY <1>1, <2>1, <2>4, <2>5 DEF WatcherTyped, WatchTyped
<1>11. CASE PublishGateway
  <2>1. PICK news \in watch.todo :
           /\ shown' = [shown EXCEPT !.up = news]
           /\ Published(news) /\ UNCHANGED <<last, snapshot>>
    BY <1>11 DEF PublishGateway
  <2>2. news \in BOOLEAN
    BY <1>2, <1>11 DEF PublishGateway
  <2>3. shown' \in [message : SUBSET committed, worker : [Workers -> States \cup {Nothing}],
                    up : BOOLEAN]
    BY <2>1, <2>2 DEF WatcherTyped
  <2>4. WatchTyped
    BY <1>3, <2>1
  <2> HIDE DEF WatchTyped
  <2> QED BY <1>1, <2>1, <2>3, <2>4 DEF WatcherTyped, WatchTyped
<1> QED BY <1>4, <1>5, <1>6, <1>7, <1>8, <1>9, <1>10, <1>11 DEF Read, Report

\* The types of the live view: in particular what a check has found is of its
\* kind when it is published, only committed messages are shown, and a client
\* is sent only events that there are.
THEOREM LiveViewTypeCorrect == ViewSpec => []ViewTypeOK
<1> DEFINE Inv0 == WorldTyped /\ WatcherTyped
<1>1. ViewInit => Inv0
    BY WorldStarts
<1>2. Inv0 /\ [ViewNext]_viewVars => Inv0'
  <2> SUFFICES ASSUME Inv0, [ViewNext]_viewVars PROVE Inv0'
    OBVIOUS
  <2>1. CASE World
    BY <2>1, WorldStep
  <2>2. CASE Read \/ ReadFails \/ Report
    BY <2>2, WatcherStep
  <2>3. CASE Server
    <3>1. UNCHANGED worldVars /\ UNCHANGED watchVars
        BY <2>3 DEF Server, AddConnection, SendHistory, Leave, RemoveConnection,
                    BroadcastStart, BroadcastSend
    <3> QED BY <3>1 DEF worldVars, watchVars, WorldTyped, WatcherTyped
  <2>4. CASE UNCHANGED viewVars
    BY <2>4 DEF viewVars, WorldTyped, WatcherTyped
  <2> QED BY <2>1, <2>2, <2>3, <2>4 DEF ViewNext
<1>3. Inv0 /\ ServerTypeOK => ViewTypeOK
  <2> SUFFICES ASSUME Inv0, ServerTypeOK PROVE ViewTypeOK
    OBVIOUS
  <2>1. \A i \in DOMAIN workers : workers[i] \in [id : Workers, status : States \cup {"deleted"}]
    <3> DEFINE Row == [id : Workers, status : States \cup {"deleted"}]
    <3>1. workers \in Seq(Row)
        BY DEF WorldTyped
    <3>2. \A i \in DOMAIN workers : workers[i] \in Row
        <4> HIDE DEF Row
        <4> QED BY <3>1
    <3> QED BY <3>2
  <2>2. /\ watch.at \in {"messages", "workers", "gateway"}
        /\ snapshot.worker \in [Workers -> States \cup {Nothing}] /\ snapshot.up \in BOOLEAN
        /\ shown.message \subseteq committed /\ last \in 0..MaxTime
        /\ shown.worker \in [Workers -> States \cup {Nothing}] /\ shown.up \in BOOLEAN
    BY DEF WatcherTyped, News
  <2>3. \A t \in tasks : t.event \in 1..events /\ t.todo \subseteq Clients
    BY DEF ServerTypeOK
  <2>4. calling \in {0, events} /\ client \in [Clients -> ClientType]
    BY DEF ServerTypeOK
  <2> QED BY <2>1, <2>2, <2>3, <2>4 DEF WorldTyped, ViewTypeOK, ClientType
<1>4. ViewSpec => []ServerTypeOK
    BY ViewInvariance, PTL DEF ViewIInv
<1> QED BY <1>1, <1>2, <1>3, <1>4, PTL DEF ViewSpec

=============================================================================
