------------------------------ MODULE Delivery ------------------------------
(***************************************************************************)
(* How a TASK_RESPONSE reaches the owner: the gateways on the way up       *)
(* forward it from parent to parent (integrations/hermes/gateway_hook.py,  *)
(* _forward_response_upstream), the gateway of the root writes it to the   *)
(* delivery queue, a directory of files, and calls the delivery hook in a  *)
(* thread of its own (_deliver_to_owner), and the dispatcher, another      *)
(* process, delivers the files that are not marked yet (delivery.py).      *)
(* Messages are in a Mailbox.  The gateway remembers in memory what it     *)
(* has delivered.  A file that is being written is torn for its readers,   *)
(* and stays so if its writer dies.                                        *)
(*                                                                         *)
(* Profile 0 is the root, profile p + 1 answers to profile p.  Left out:   *)
(* notification files, which nothing here reads, and the user_talk flag,   *)
(* on which no decision of these functions depends.  A pass of the         *)
(* dispatcher lists the queue in one step.                                 *)
(***************************************************************************)
EXTENDS Integers

CONSTANTS
    Depth,        \* gateways 0..Depth are on the way up
    Msg,          \* message identifiers
    NoMsg,        \* "no message"
    File,         \* the names of files of the delivery queue
    NoFile,       \* "no file"
    Answers,      \* the payloads of responses; see AnswersAssumption
    NoTask,       \* an empty task key ...
    NoWorker,     \* ... and worker id, which propagated results have
    Budgets       \* bounds: <<a, f>> is in Budgets if runs with a responses
                  \* of agents and f crashes and failures are explored

ASSUME DepthAssumption == Depth \in Nat
ASSUME BudgetsAssumption == Budgets \subseteq Nat \X Nat /\ <<0, 0>> \in Budgets
ASSUME NobodyAssumption == NoMsg \notin Msg /\ NoFile \notin File
ASSUME AnswersAssumption ==
    /\ Answers # {}
    /\ \A a \in Answers :
        /\ DOMAIN a = {"task", "worker", "content", "trivial", "specialist"}
        /\ a.trivial \in BOOLEAN /\ a.specialist \in BOOLEAN

Gateways == 0..Depth

VARIABLES
    box,          \* box[m], where message m stands
    info,         \* info[m]: recipient, payload, whether it was forwarded
    answered,     \* how many responses the agents have sent
    pc,           \* pc[p], what the listener thread of gateway p does next
    msg,          \* msg[p], the message it is handling
    current,      \* the file that the root's listener thread is working on
    file,         \* file[f], the state of file f of the queue
    about,        \* about[f], the message whose response f holds
    thread,       \* thread[f], the root's hook thread for f
    delivered,    \* what the root's gateway remembers to have delivered
    calls,        \* history: the files this gateway process called the hook for
    dispatcher,   \* what the dispatcher does next, and for which file
    pending,      \* the files that its pass over the queue has left
    told,         \* history: <<f, who>>, a hook call by who for f succeeded
    lost,         \* history: messages whose forwarding or filing failed
    faults        \* how many crashes and failures there have been

mail == <<box, info, answered>>
queue == <<file, about>>
root == <<current, thread, delivered, calls>>
pass == <<dispatcher, pending>>
history == <<told, lost, faults>>
vars == <<box, info, answered, pc, msg, current, file, about, thread,
          delivered, calls, dispatcher, pending, told, lost, faults>>

Mail == INSTANCE Mailbox

Within(a, f) == \E b \in Budgets : a \in 0..b[1] /\ f \in 0..b[2]

NoInfo == [to |-> 0, answer |-> CHOOSE a \in Answers : TRUE, forwarded |-> FALSE]
Nothing == [tasks |-> {}, workers |-> {}, contents |-> {}]
Resting == [step |-> "idle", file |-> NoFile]

\* Every variable has a value that the code can give it, a gateway handles a
\* message that the bus still offers, and it writes to a file only while it
\* handles one.
TypeOK ==
    /\ Mail!BoxTypeOK
    /\ info \in [Msg -> [to : Gateways, answer : Answers, forwarded : BOOLEAN]]
    /\ Within(answered, faults)
    /\ pc \in [Gateways -> {"idle", "handling", "writing", "filtering", "acking"}]
    /\ msg \in [Gateways -> Msg \cup {NoMsg}]
    /\ current \in File \cup {NoFile}
    /\ file \in [File -> {"none", "torn", "pending", "delivered"}]
    /\ about \in [File -> Msg \cup {NoMsg}]
    /\ thread \in [File -> {"none", "calling", "marking", "writing"}]
    /\ delivered \in [tasks : SUBSET {a.task : a \in Answers},
                      workers : SUBSET {a.worker : a \in Answers},
                      contents : SUBSET {a.content : a \in Answers}]
    /\ calls \subseteq File
    /\ dispatcher \in [step : {"idle", "calling", "marking", "writing"},
                       file : File \cup {NoFile}]
    /\ pending \subseteq File
    /\ told \subseteq File \X {"gateway", "dispatcher"}
    /\ lost \subseteq Msg
    /\ \A p \in Gateways :
          IF pc[p] = "idle" THEN msg[p] = NoMsg ELSE msg[p] \in Mail!Queued
    /\ pc[0] \in {"writing", "filtering"} <=> current # NoFile

Init ==
    /\ Mail!BoxInit
    /\ info = [m \in Msg |-> NoInfo]
    /\ answered = 0
    /\ pc = [p \in Gateways |-> "idle"]
    /\ msg = [p \in Gateways |-> NoMsg]
    /\ current = NoFile
    /\ file = [f \in File |-> "none"]
    /\ about = [f \in File |-> NoMsg]
    /\ thread = [f \in File |-> "none"]
    /\ delivered = Nothing
    /\ calls = {}
    /\ dispatcher = Resting
    /\ pending = {}
    /\ told = {}
    /\ lost = {}
    /\ faults = 0

Goto(p, step) == pc' = [pc EXCEPT ![p] = step]
Fault == Within(answered, faults + 1) /\ faults' = faults + 1

-----------------------------------------------------------------------------
(* The listener thread of every gateway. *)

SendTo(p, answer, forwarded) ==
    LET fresh == CHOOSE m \in Msg : box[m] = "unsent"
    IN  /\ \E m \in Msg : box[m] = "unsent"
        /\ Mail!Send(fresh)
        /\ info' = [info EXCEPT ![fresh] =
                       [to |-> p, answer |-> answer, forwarded |-> forwarded]]

\* An agent below p, or the propagation of a chain, sends p a response.
Respond(p, answer) ==
    /\ Within(answered + 1, faults)
    /\ answered' = answered + 1
    /\ SendTo(p, answer, FALSE)
    /\ UNCHANGED <<pc, msg, queue, root, pass, history>>

Poll(p, m) ==
    /\ pc[p] = "idle"
    /\ m \in Mail!Queued /\ info[m].to = p
    /\ msg' = [msg EXCEPT ![p] = m]
    /\ Goto(p, "handling")
    /\ UNCHANGED <<mail, queue, root, pass, history>>

\* A gateway that has a parent sends it a copy of the response.
Forward(p) ==
    /\ pc[p] = "handling" /\ p > 0
    /\ SendTo(p - 1, info[msg[p]].answer, TRUE)
    /\ Goto(p, "acking")
    /\ UNCHANGED <<answered, msg, queue, root, pass, history>>

\* A send that raises is logged, and the response is acknowledged all the same.
ForwardFails(p) ==
    /\ pc[p] = "handling" /\ p > 0
    /\ Fault
    /\ lost' = lost \cup {msg[p]}
    /\ Goto(p, "acking")
    /\ UNCHANGED <<mail, msg, queue, root, pass, told>>

Acknowledge(p) ==
    /\ pc[p] = "acking"
    /\ Mail!Settle({msg[p]})
    /\ msg' = [msg EXCEPT ![p] = NoMsg]
    /\ Goto(p, "idle")
    /\ UNCHANGED <<info, answered, queue, root, pass, history>>

\* An acknowledge that raises is swallowed: the bus offers the message again.
AcknowledgeFails(p) ==
    /\ pc[p] = "acking"
    /\ Fault
    /\ msg' = [msg EXCEPT ![p] = NoMsg]
    /\ Goto(p, "idle")
    /\ UNCHANGED <<mail, queue, root, pass, told, lost>>

-----------------------------------------------------------------------------
(* The root: _deliver_to_owner. *)

\* The specialist bubble-up filter.
Suppressed(m) == info[m].forwarded /\ info[m].answer.specialist

Suppress ==
    /\ pc[0] = "handling"
    /\ Suppressed(msg[0])
    /\ Goto(0, "acking")
    /\ UNCHANGED <<mail, msg, queue, root, pass, history>>

\* Fault: the response is acknowledged before it is in the queue.
StartFileAcked ==
    LET fresh == CHOOSE f \in File : file[f] = "none"
    IN  /\ pc[0] = "handling"
        /\ ~ Suppressed(msg[0])
        /\ \E f \in File : file[f] = "none"
        /\ Mail!Settle({msg[0]})
        /\ current' = fresh
        /\ file' = [file EXCEPT ![fresh] = "torn"]
        /\ about' = [about EXCEPT ![fresh] = msg[0]]
        /\ Goto(0, "writing")
        /\ UNCHANGED <<info, answered, msg, thread, delivered, calls, pass, history>>

\* Fault: the file starts out as delivered, since the hook is about to be called.
FinishFileMarked ==
    /\ pc[0] = "writing"
    /\ file' = [file EXCEPT ![current] = "delivered"]
    /\ Goto(0, "filtering")
    /\ UNCHANGED <<mail, msg, about, root, pass, history>>

\* Every other response gets a new file, before anything else is decided.
StartFile ==
    LET fresh == CHOOSE f \in File : file[f] = "none"
    IN  /\ pc[0] = "handling"
        /\ ~ Suppressed(msg[0])
        /\ \E f \in File : file[f] = "none"
        /\ current' = fresh
        /\ file' = [file EXCEPT ![fresh] = "torn"]
        /\ about' = [about EXCEPT ![fresh] = msg[0]]
        /\ Goto(0, "writing")
        /\ UNCHANGED <<mail, msg, thread, delivered, calls, pass, history>>

FinishFile ==
    /\ pc[0] = "writing"
    /\ file' = [file EXCEPT ![current] = "pending"]
    /\ Goto(0, "filtering")
    /\ UNCHANGED <<mail, msg, about, root, pass, history>>

\* A write that raises is logged, and the response goes on to the hook.
FileFails ==
    /\ pc[0] = "writing"
    /\ Fault
    /\ lost' = lost \cup {msg[0]}
    /\ Goto(0, "filtering")
    /\ UNCHANGED <<mail, msg, queue, root, pass, told>>

\* The three layers of deduplication: a layer marks what it lets pass before
\* the next layer is asked, and all of them before the hook is called.
TaskKnown(a) == a.task # NoTask /\ a.task \in delivered.tasks
WorkerKnown(a) == a.worker # NoWorker /\ a.worker \in delivered.workers
ContentKnown(a) == a.content \in delivered.contents

Remember(a) ==
    [tasks    |-> delivered.tasks \cup ({a.task} \ {NoTask}),
     workers  |-> IF TaskKnown(a) THEN delivered.workers
                  ELSE delivered.workers \cup ({a.worker} \ {NoWorker}),
     contents |-> IF TaskKnown(a) \/ WorkerKnown(a) THEN delivered.contents
                  ELSE delivered.contents \cup {a.content}]

\* Fault: the last layer lets pass what it marked for another response.
FilterLeaky ==
    LET a == info[msg[0]].answer
    IN  /\ pc[0] = "filtering"
        /\ delivered' = IF a.trivial THEN delivered ELSE Remember(a)
        /\ IF a.trivial \/ TaskKnown(a) \/ WorkerKnown(a)
             THEN UNCHANGED <<thread, calls>>
             ELSE /\ thread' = [thread EXCEPT ![current] = "calling"]
                  /\ calls' = calls \cup {current}
        /\ current' = NoFile
        /\ Goto(0, "acking")
        /\ UNCHANGED <<mail, msg, queue, pass, history>>

\* A trivial content is not delivered and not remembered; one that passes
\* every layer starts a hook thread.
Filter ==
    LET a == info[msg[0]].answer
    IN  /\ pc[0] = "filtering"
        /\ delivered' = IF a.trivial THEN delivered ELSE Remember(a)
        /\ IF a.trivial \/ TaskKnown(a) \/ WorkerKnown(a) \/ ContentKnown(a)
             THEN UNCHANGED <<thread, calls>>
             ELSE /\ thread' = [thread EXCEPT ![current] = "calling"]
                  /\ calls' = calls \cup {current}
        /\ current' = NoFile
        /\ Goto(0, "acking")
        /\ UNCHANGED <<mail, msg, queue, pass, history>>

-----------------------------------------------------------------------------
(* The root's hook threads: _deliver_async. *)

\* The hook returns False or raises: this is logged, the thread ends.
HookFails(f) ==
    /\ thread[f] = "calling"
    /\ thread' = [thread EXCEPT ![f] = "none"]
    /\ UNCHANGED <<mail, pc, msg, current, queue, delivered, calls, pass, history>>

HookSucceeds(f) ==
    /\ thread[f] = "calling"
    /\ told' = told \cup {<<f, "gateway">>}
    /\ thread' = [thread EXCEPT ![f] = "marking"]
    /\ UNCHANGED <<mail, pc, msg, current, queue, delivered, calls, pass, lost, faults>>

\* The thread reads its file back; one that it cannot read is left as it is.
StartMark(f) ==
    /\ thread[f] = "marking"
    /\ IF file[f] = "torn"
         THEN /\ thread' = [thread EXCEPT ![f] = "none"]
              /\ UNCHANGED file
         ELSE /\ thread' = [thread EXCEPT ![f] = "writing"]
              /\ file' = [file EXCEPT ![f] = "torn"]
    /\ UNCHANGED <<mail, pc, msg, current, about, delivered, calls, pass, history>>

FinishMark(f) ==
    /\ thread[f] = "writing"
    /\ thread' = [thread EXCEPT ![f] = "none"]
    /\ file' = [file EXCEPT ![f] = "delivered"]
    /\ UNCHANGED <<mail, pc, msg, current, about, delivered, calls, pass, history>>

-----------------------------------------------------------------------------
(* The dispatcher: DeliveryDispatcher.process. *)

At(step, f) == dispatcher = [step |-> step, file |-> f]

\* A pass takes the files that it can read and that are not marked.
GetPending ==
    /\ dispatcher = Resting /\ pending = {}
    /\ pending' = {f \in File : file[f] = "pending"}
    /\ UNCHANGED <<mail, pc, msg, queue, root, dispatcher, history>>

\* Fault: the file is marked whatever the hook returned.
DispatchFailsMarked(f) ==
    /\ At("calling", f)
    /\ dispatcher' = [step |-> "marking", file |-> f]
    /\ UNCHANGED <<mail, pc, msg, queue, root, pending, history>>

\* It reads each of them again, without looking at the mark again.
Read(f) ==
    /\ dispatcher = Resting /\ f \in pending
    /\ pending' = pending \ {f}
    /\ dispatcher' = IF file[f] = "torn" THEN Resting
                     ELSE [step |-> "calling", file |-> f]
    /\ UNCHANGED <<mail, pc, msg, queue, root, history>>

DispatchFails(f) ==
    /\ At("calling", f)
    /\ dispatcher' = Resting
    /\ UNCHANGED <<mail, pc, msg, queue, root, pending, history>>

DispatchSucceeds(f) ==
    /\ At("calling", f)
    /\ told' = told \cup {<<f, "dispatcher">>}
    /\ dispatcher' = [step |-> "marking", file |-> f]
    /\ UNCHANGED <<mail, pc, msg, queue, root, pending, lost, faults>>

StartMarkDelivered(f) ==
    /\ At("marking", f)
    /\ file' = [file EXCEPT ![f] = "torn"]
    /\ dispatcher' = [step |-> "writing", file |-> f]
    /\ UNCHANGED <<mail, pc, msg, about, root, pending, history>>

\* If a hook thread writes the file at the same time, its text, which is
\* longer, may remain behind the text of the dispatcher.
FinishMarkDelivered(f) ==
    /\ At("writing", f)
    /\ \E state \in {"delivered"} \cup
                    (IF <<f, "gateway">> \in told THEN {"torn"} ELSE {}) :
          file' = [file EXCEPT ![f] = state]
    /\ dispatcher' = Resting
    /\ UNCHANGED <<mail, pc, msg, about, root, pending, history>>

-----------------------------------------------------------------------------
(* Crashes: what is in memory is gone, files and messages stay. *)

CrashGateway(p) ==
    /\ Fault
    /\ Goto(p, "idle")
    /\ msg' = [msg EXCEPT ![p] = NoMsg]
    /\ IF p = 0
         THEN /\ current' = NoFile
              /\ thread' = [f \in File |-> "none"]
              /\ delivered' = Nothing
              /\ calls' = {}
         ELSE UNCHANGED root
    /\ UNCHANGED <<mail, queue, pass, told, lost>>

CrashDispatcher ==
    /\ Fault
    /\ dispatcher' = Resting
    /\ pending' = {}
    /\ UNCHANGED <<mail, pc, msg, queue, root, told, lost>>

Listen(p) ==
    \/ \E m \in Msg : Poll(p, m)
    \/ Forward(p)
    \/ Acknowledge(p)
    \/ p = 0 /\ (Suppress \/ StartFile \/ FinishFile \/ Filter)

HookThread(f) == HookFails(f) \/ HookSucceeds(f) \/ StartMark(f) \/ FinishMark(f)

Dispatch(f) ==
    Read(f) \/ DispatchFails(f) \/ StartMarkDelivered(f) \/ FinishMarkDelivered(f)

Next ==
    \/ \E p \in Gateways, answer \in Answers : Respond(p, answer)
    \/ \E p \in Gateways :
          Listen(p) \/ ForwardFails(p) \/ AcknowledgeFails(p) \/ CrashGateway(p)
    \/ FileFails
    \/ \E f \in File : HookThread(f) \/ Dispatch(f) \/ DispatchSucceeds(f)
    \/ GetPending
    \/ CrashDispatcher

Spec == Init /\ [][Next]_vars

\* The loops of the listeners and of the dispatcher go on; a hook call that
\* is tried again and again succeeds in the end.  Nothing is assumed of the
\* hook threads, of agents, or of faults.
Fairness ==
    /\ \A p \in Gateways : WF_vars(Listen(p))
    /\ WF_vars(GetPending \/ \E f \in File : Dispatch(f))
    /\ \A f \in File : SF_vars(DispatchSucceeds(f))

FairSpec == Spec /\ Fairness

-----------------------------------------------------------------------------
(* Properties *)

Told(f) == \E who \in {"gateway", "dispatcher"} : <<f, who>> \in told

\* A response that the root has acknowledged, and that is not one the filter
\* suppresses, is in the delivery queue, through all crashes: its file is
\* readable, or its hook call has succeeded and the marking tore it, or the
\* write itself had raised ("the delivery file serves as the audit trail",
\* gateway_hook.py _forward_response_upstream).
Audited ==
    \A m \in Msg :
        /\ box[m] = "settled"
        /\ info[m].to = 0
        /\ ~ Suppressed(m)
        => \/ m \in lost
           \/ \E f \in File : about[f] = m /\ (file[f] \in {"pending", "delivered"} \/ Told(f))

\* Nobody marks a file as delivered whose hook call has not succeeded, however
\* the hook threads, the dispatcher and the crashes of both interleave.
MarkedWasTold == \A f \in File : file[f] = "delivered" => Told(f)

\* One process of the root's gateway never calls the hook for two responses of
\* one task, of one worker or with one content (the deduplication layers).
CallsDiffer ==
    \A f, g \in calls :
        LET a == info[about[f]].answer
            b == info[about[g]].answer
        IN  f # g => /\ a.task = b.task => a.task = NoTask
                     /\ a.worker = b.worker => a.worker = NoWorker
                     /\ a.content # b.content

\* A response that an agent sends reaches the owner in the end, even if the
\* deduplication withholds it or the hook thread fails, unless the filter for
\* specialists suppresses it or its forwarding or filing failed.
OwnerHears ==
    \A a \in {b \in Answers : ~ b.specialist} :
        (\E m \in Mail!Queued : info[m].answer = a) ~>
            \/ \E f \in File : Told(f) /\ info[about[f]].answer = a
            \/ \E m \in lost : info[m].answer = a

=============================================================================
