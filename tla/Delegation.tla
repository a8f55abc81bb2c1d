----------------------------- MODULE Delegation -----------------------------
(***************************************************************************)
(* One delegation chain, from its creation to the responses that travel    *)
(* back up: the orchestrator (core/integration/orchestrator.py), the chain *)
(* object (delegation.py), the result collector (result_propagation.py),   *)
(* the chain store (chain_store.py) and the gateways that execute the      *)
(* requests (integrations/hermes/gateway_hook.py and ipc_listener.py).     *)
(*                                                                         *)
(* Profile 0 is the originator, and the tool call that delegates down the  *)
(* hierarchy runs in its process; profile h, the target of hop h, has a    *)
(* gateway process of its own, whose one listener thread polls, handles    *)
(* and acknowledges.  Every process works on its own copy of the chain     *)
(* and saves the whole of it.  The requests are in a Mailbox, which the    *)
(* message bus implements.  Responses are recorded as they are sent.       *)
(*                                                                         *)
(* Left out: task texts and result texts, priorities, the empty-task       *)
(* early return, and a raw request without a chain.                        *)
(***************************************************************************)
EXTENDS Integers

CONSTANTS
    Depth,        \* the hops of the path from the originator to the target
    Worker,       \* subagent identifiers
    NoWorker,     \* "no worker"
    MaxFaults     \* bound: crashes and failing statements

ASSUME DepthAssumption == Depth \in Nat \ {0}
ASSUME NoWorkerAssumption == NoWorker \notin Worker
ASSUME MaxFaultsAssumption == MaxFaults \in Nat

Hops == 1..Depth
Profiles == 0..Depth

VARIABLES
    store,        \* the row of table chains and its hops
    mem,          \* mem[p], the chain object of p's process
    pc,           \* pc[p], what p's process does next
    wk,           \* wk[p], the worker p's gateway has spawned for the request
    todo,         \* todo[p], the hops p's loop over reversed(hops) has left
    box,          \* box[h], where the request of hop h stands
    worker,       \* worker[w], the status of w in its registry
    responses,    \* history: the TASK_RESPONSE messages sent
    faults        \* how many crashes and failures there have been

vars == <<store, mem, pc, wk, todo, box, worker, responses, faults>>

Requests == INSTANCE Mailbox WITH Msg <- Hops

-----------------------------------------------------------------------------
(* DelegationChain *)

HopStatuses == {"unrecorded", "delegated", "working", "completed", "failed"}
ChainStatuses == {"pending", "active", "completed", "failed"}
Terminal == {"completed", "failed"}

Chain == [status : ChainStatuses, hop : [Hops -> HopStatuses],
          workers : SUBSET Worker, results : SUBSET Worker]

NewChain == [status |-> "pending", hop |-> [h \in Hops |-> "unrecorded"],
             workers |-> {}, results |-> {}]

\* chain.hops
Recorded(chain) == {h \in Hops : chain.hop[h] # "unrecorded"}

\* complete_worker returns this: every worker of the chain has reported.
AllDone(chain) == chain.workers # {} /\ chain.workers \subseteq chain.results

\* The hops are walked from the last to the first.
IsLast(h, S) == h \in S /\ \A g \in S : g <= h

WithHop(chain, h, s) == [chain EXCEPT !.hop[h] = s]

Response(h, kind, w, direct) ==
    [hop |-> h, kind |-> kind, worker |-> w, direct |-> direct]

Steps == {"idle", "delegating", "recording", "done",
          "loading hops", "spawning", "linking", "executing", "completing", "collecting",
          "propagating", "failing", "answering result", "answering error", "acking"}

TypeOK ==
    /\ store \in Chain
    /\ mem \in [Profiles -> Chain]
    /\ pc \in [Profiles -> Steps]
    /\ wk \in [Profiles -> Worker \cup {NoWorker}]
    /\ todo \in [Profiles -> SUBSET Hops]
    /\ Requests!BoxTypeOK
    /\ worker \in [Worker -> {"none", "running", "completed"}]
    /\ responses \subseteq [hop : Hops, kind : {"result", "error"},
                            worker : Worker, direct : BOOLEAN]
    /\ faults \in 0..MaxFaults

Init ==
    /\ store = NewChain
    /\ mem = [p \in Profiles |-> NewChain]
    /\ pc = [p \in Profiles |-> "idle"]
    /\ wk = [p \in Profiles |-> NoWorker]
    /\ todo = [p \in Profiles |-> {}]
    /\ Requests!BoxInit
    /\ worker = [w \in Worker |-> "none"]
    /\ responses = {}
    /\ faults = 0

Goto(p, step) == pc' = [pc EXCEPT ![p] = step]

\* p's process changes its chain object, and saves it as well.
Modify(p, chain) == mem' = [mem EXCEPT ![p] = chain]
Persist(p, chain) == Modify(p, chain) /\ store' = chain

\* An exception of the try block of _run_and_complete: fail_chain.
StartFailing(p) ==
    /\ Goto(p, "failing")
    /\ todo' = [todo EXCEPT ![p] = Recorded(mem[p])]

\* p's handling of its request ends, normally or not.
Forget(p) ==
    /\ Goto(p, "idle")
    /\ Modify(p, NewChain)
    /\ wk' = [wk EXCEPT ![p] = NoWorker]
    /\ todo' = [todo EXCEPT ![p] = {}]

-----------------------------------------------------------------------------
(* The originator: create_chain, then delegate for one hop after another. *)

CreateChain ==
    /\ pc[0] = "idle"
    /\ Persist(0, NewChain)
    /\ Goto(0, "delegating")
    /\ UNCHANGED <<wk, todo, box, worker, responses, faults>>

\* Fault: the hop is recorded, and the loop goes on, before the request is sent.
SendRequestLate(h) ==
    /\ pc[0] = "delegating"
    /\ h \notin Recorded(mem[0])
    /\ \A g \in 1..(h - 1) : g \in Recorded(mem[0])
    /\ Persist(0, WithHop([mem[0] EXCEPT !.status = "active"], h, "delegated"))
    /\ Goto(0, "recording")
    /\ UNCHANGED <<wk, todo, box, worker, responses, faults>>

\* The request of the next hop is on the bus before the hop is in the chain.
SendRequest(h) ==
    /\ pc[0] = "delegating"
    /\ mem[0].status \notin Terminal           \* otherwise ChainAlreadyComplete
    /\ h \notin Recorded(mem[0])
    /\ \A g \in 1..(h - 1) : g \in Recorded(mem[0])
    /\ Requests!Send(h)
    /\ Goto(0, "recording")
    /\ UNCHANGED <<store, mem, wk, todo, worker, responses, faults>>

RecordHop(h) ==
    /\ pc[0] = "recording"
    /\ h \notin Recorded(mem[0])
    /\ \A g \in 1..(h - 1) : g \in Recorded(mem[0])
    /\ Persist(0, WithHop([mem[0] EXCEPT !.status = "active"], h, "delegated"))
    /\ Goto(0, IF h = Depth THEN "done" ELSE "delegating")
    /\ UNCHANGED <<wk, todo, box, worker, responses, faults>>

-----------------------------------------------------------------------------
(* A gateway takes its request and loads the chain from the store.  The    *)
(* row and the hops are two SELECTs outside any transaction.               *)

LoadRow(p) ==
    /\ pc[p] = "idle"
    /\ p \in Requests!Queued
    /\ Modify(p, [store EXCEPT !.hop = NewChain.hop])
    /\ Goto(p, "loading hops")
    /\ UNCHANGED <<store, wk, todo, box, worker, responses, faults>>

LoadHops(p) ==
    /\ pc[p] = "loading hops"
    /\ Modify(p, [mem[p] EXCEPT !.hop = store.hop])
    /\ Goto(p, "spawning")
    /\ UNCHANGED <<store, wk, todo, box, worker, responses, faults>>

\* A new identifier, which one does not matter.
FreeWorker == CHOOSE w \in Worker : worker[w] = "none"

\* spawn_worker: ChainAlreadyComplete is swallowed by handle_message and the
\* request is acknowledged; otherwise a worker is registered ...
Spawn(p) ==
    /\ pc[p] = "spawning"
    /\ \/ /\ mem[p].status \in Terminal
          /\ Goto(p, "acking")
          /\ UNCHANGED <<mem, wk, worker>>
       \/ /\ mem[p].status \notin Terminal
          /\ \E w \in Worker : worker[w] = "none"
          /\ LET w == FreeWorker
             IN  /\ worker' = [worker EXCEPT ![w] = "running"]
                 /\ wk' = [wk EXCEPT ![p] = w]
                 /\ Modify(p, [mem[p] EXCEPT !.workers = @ \cup {w}])
          /\ Goto(p, "linking")
    /\ UNCHANGED <<store, todo, box, responses, faults>>

\* ... and linked to the chain, which is saved.
Link(p) ==
    /\ pc[p] = "linking"
    /\ Persist(p, IF mem[p].hop[p] = "delegated" THEN WithHop(mem[p], p, "working") ELSE mem[p])
    /\ Goto(p, "executing")
    /\ UNCHANGED <<wk, todo, box, worker, responses, faults>>

\* The agent process ends, with an answer, with an error or killed.
Execute(p) ==
    /\ pc[p] = "executing"
    /\ \/ Goto(p, "completing") /\ UNCHANGED todo
       \/ StartFailing(p)
    /\ UNCHANGED <<store, mem, wk, box, worker, responses, faults>>

-----------------------------------------------------------------------------
(* complete_worker and propagate_result. *)

\* Fault: the result is collected although the registry was not updated.
CompleteWorkerSkipped(p) ==
    /\ pc[p] = "completing"
    /\ Goto(p, "collecting")
    /\ UNCHANGED <<store, mem, wk, todo, box, worker, responses, faults>>

CompleteWorker(p) ==
    /\ pc[p] = "completing"
    /\ worker' = [worker EXCEPT ![wk[p]] = "completed"]
    /\ Goto(p, "collecting")
    /\ UNCHANGED <<store, mem, wk, todo, box, responses, faults>>

\* collect_worker_result
WithResult(p) == [mem[p] EXCEPT !.results = @ \cup {wk[p]}]

\* Fault: one result is enough to propagate.
CollectOne(p) ==
    /\ pc[p] = "collecting"
    /\ LET chain == WithResult(p)
       IN  /\ Persist(p, chain)
           /\ todo' = [todo EXCEPT ![p] = Recorded(chain)]
           /\ Goto(p, "propagating")
    /\ UNCHANGED <<wk, box, worker, responses, faults>>

\* The result is recorded in the chain, which is saved; the caller
\* propagates when every worker that this copy knows of has reported.
Collect(p) ==
    /\ pc[p] = "collecting"
    /\ LET chain == WithResult(p)
       IN  /\ Persist(p, chain)
           /\ IF AllDone(chain)
                THEN /\ todo' = [todo EXCEPT ![p] = Recorded(chain)]
                     /\ Goto(p, "propagating")
                ELSE /\ Goto(p, "answering result")
                     /\ UNCHANGED todo
    /\ UNCHANGED <<wk, box, worker, responses, faults>>

\* propagate_up: a response per hop, from the last to the first ...
Propagate(p) ==
    /\ pc[p] = "propagating"
    /\ \E h \in Hops :
          /\ IsLast(h, todo[p])
          /\ responses' = responses \cup {Response(h, "result", wk[p], FALSE)}
          /\ Modify(p, WithHop(mem[p], h, "completed"))
          /\ todo' = [todo EXCEPT ![p] = @ \ {h}]
    /\ UNCHANGED <<store, pc, wk, box, worker, faults>>

\* ... and only then the chain is completed, and saved.
Close(p) ==
    /\ pc[p] = "propagating"
    /\ todo[p] = {}
    /\ Persist(p, [mem[p] EXCEPT !.status = "completed"])
    /\ Goto(p, "answering result")
    /\ UNCHANGED <<wk, todo, box, worker, responses, faults>>

-----------------------------------------------------------------------------
(* fail_chain, the response to the sender of the request, and the          *)
(* acknowledgement.                                                        *)

\* propagate_error; the worker stays as it is in its registry.
PropagateError(p) ==
    /\ pc[p] = "failing"
    /\ \E h \in Hops :
          /\ IsLast(h, todo[p])
          /\ responses' = responses \cup {Response(h, "error", wk[p], FALSE)}
          /\ Modify(p, IF mem[p].hop[h] \in Terminal THEN mem[p] ELSE WithHop(mem[p], h, "failed"))
          /\ todo' = [todo EXCEPT ![p] = @ \ {h}]
    /\ UNCHANGED <<store, pc, wk, box, worker, faults>>

CloseFailed(p) ==
    /\ pc[p] = "failing"
    /\ todo[p] = {}
    /\ Persist(p, [mem[p] EXCEPT !.status = "failed"])
    /\ Goto(p, "answering error")
    /\ UNCHANGED <<wk, todo, box, worker, responses, faults>>

\* Fault: the response is left to the propagation over the recorded hops.
AnswerSkipped(p) ==
    /\ pc[p] \in {"answering result", "answering error"}
    /\ Goto(p, "acking")
    /\ UNCHANGED <<store, mem, wk, todo, box, worker, responses, faults>>

Answer(p) ==
    /\ pc[p] \in {"answering result", "answering error"}
    /\ LET kind == IF pc[p] = "answering result" THEN "result" ELSE "error"
       IN  responses' = responses \cup {Response(p, kind, wk[p], TRUE)}
    /\ Goto(p, "acking")
    /\ UNCHANGED <<store, mem, wk, todo, box, worker, faults>>

Acknowledge(p) ==
    /\ pc[p] = "acking"
    /\ Requests!Settle({p})
    /\ Forget(p)
    /\ UNCHANGED <<store, worker, responses, faults>>

-----------------------------------------------------------------------------
(* What can go wrong *)

\* A statement on one of the databases raises ("database is locked").
\* Before the try block, and in fail_chain, handle_message swallows the
\* exception and the request is acknowledged; within it the chain, as the
\* process has it in memory, is failed; a failed answer is logged; a failed
\* acknowledgement leaves the request to the next poll.
Raise(p) ==
    /\ faults < MaxFaults
    /\ faults' = faults + 1
    /\ \/ /\ pc[p] \in {"loading hops", "spawning", "linking", "failing",
                         "answering result", "answering error"}
          /\ Goto(p, "acking")
          /\ UNCHANGED <<mem, wk, todo>>
       \/ /\ pc[p] \in {"completing", "propagating"}
          /\ StartFailing(p)
          /\ UNCHANGED <<mem, wk>>
       \/ /\ pc[p] = "collecting"
          /\ Modify(p, WithResult(p))
          /\ StartFailing(p)
          /\ UNCHANGED wk
       \/ /\ pc[p] = "acking"
          /\ Forget(p)
    /\ UNCHANGED <<store, box, worker, responses>>

\* The gateway process dies and is started again: the request it was
\* handling is still pending.
Crash(p) ==
    /\ faults < MaxFaults
    /\ faults' = faults + 1
    /\ pc[p] # "idle"
    /\ Forget(p)
    /\ UNCHANGED <<store, box, worker, responses>>

\* The originator's process dies, or delegate raises: no more hops.
Abandon ==
    /\ faults < MaxFaults
    /\ faults' = faults + 1
    /\ pc[0] \in {"delegating", "recording"}
    /\ Goto(0, "done")
    /\ UNCHANGED <<store, mem, wk, todo, box, worker, responses>>

Originator ==
    \/ CreateChain
    \/ \E h \in Hops : SendRequest(h)
    \/ \E h \in Hops : RecordHop(h)

Gateway(p) ==
    \/ LoadRow(p) \/ LoadHops(p) \/ Spawn(p) \/ Link(p) \/ Execute(p)
    \/ CompleteWorker(p) \/ Collect(p) \/ Propagate(p) \/ Close(p)
    \/ PropagateError(p) \/ CloseFailed(p) \/ Answer(p) \/ Acknowledge(p)

Next ==
    \/ Originator
    \/ \E p \in Hops : Gateway(p)
    \/ \E p \in Hops : Raise(p)
    \/ \E p \in Hops : Crash(p)
    \/ Abandon

Spec == Init /\ [][Next]_vars

\* The tool call runs on, the listener threads poll for ever, and every agent
\* process ends, by itself or because the watchdog kills it.
FairSpec == Spec /\ WF_vars(Originator) /\ \A p \in Hops : WF_vars(Gateway(p))

-----------------------------------------------------------------------------
(* Properties *)

Chains == {store} \cup {mem[p] : p \in Profiles}

\* The way back is never broken: in the store and in every copy, whichever
\* save came last and wherever a process died, the hops recorded are those
\* from the originator down to some profile, without a gap, and each was
\* told of the task.
ReturnPath ==
    \A chain \in Chains : \A h \in Recorded(chain) :
        /\ box[h] # "unsent"
        /\ \A g \in 1..h : g \in Recorded(chain)

\* Nothing is reported that has not been done: the results of a chain, and
\* the results sent up the hierarchy, are of workers whose completion is in
\* their registry.
ResultsAreReal ==
    /\ \A chain \in Chains : \A w \in chain.results : worker[w] = "completed"
    /\ \A r \in responses : r.kind = "result" => worker[r.worker] = "completed"

\* A chain that is completed in the store is completed throughout: the
\* workers it lists have reported and its hops are completed, although the
\* saves of several processes overwrite each other.
CompletedIsWhole ==
    store.status = "completed" =>
        /\ AllDone(store)
        /\ \A h \in Recorded(store) : store.hop[h] = "completed"

\* Without crashes and failing statements the originator is answered, by a
\* response over the first hop, however the gateways along the path race.
Answered == \E r \in responses : r.hop = 1

OriginatorAnswered == (box[1] = "queued") ~> (Answered \/ faults > 0)

=============================================================================
