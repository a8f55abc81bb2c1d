------------------------------- MODULE Inbox -------------------------------
(***************************************************************************)
(* One task on its way into one profile's inbox and everybody who takes    *)
(* messages out of it: the tool that sends it (send_to_profile in          *)
(* tools/hierarchy_tools.py), the gateway's poll loops and its one-shot    *)
(* mode (ipc_listener.py, gateway_hook.py), the profile's own agent        *)
(* (check_inbox) and a Claude Code session that works through task files   *)
(* (integrations/claude_code/message_bridge.py, adapter.py).  None of them *)
(* knows of the others; they meet in the rows of the bus and in the files. *)
(*                                                                         *)
(* Left out: the result that the orchestrator passes up a chain on top of  *)
(* the response (propagate_result, in Delegation), and the upstream copy   *)
(* of a response that was received (Delivery).                             *)
(***************************************************************************)
EXTENDS Naturals, FiniteSets

CONSTANTS
    Hop,         \* the request of the chain's last hop, for the target
    Raw,         \* the request that send_to_profile puts on the bus itself
    Threads,     \* poll loops the gateway can have had at one time
    Importers,   \* calls of import_results that may run at the same time
    Nothing,     \* no message in hand, no file
    MaxFaults,   \* crashes and failing statements, all together
    MaxCalls,    \* calls of check_inbox, prepare_session and process_once
    MaxCount     \* attempts and replies are counted up to this number

ASSUME BoundsAreNatural == MaxFaults \in Nat /\ MaxCalls \in Nat /\ MaxCount \in Nat
ASSUME MessagesDiffer == Hop # Raw /\ Nothing \notin {Hop, Raw}
ASSUME NothingIsNoFile == Nothing \notin {"torn", "whole"}

Messages == {Hop, Raw}

VARIABLES
    status,      \* per message: "none", "pending" or "settled"
    call,        \* where send_to_profile is; "cron" also while its job waits
    stop,        \* the listener's stop event
    loop,        \* per thread: its batch and the message it has handled
    inbox,       \* check_inbox: what it still has to acknowledge, what it took
    shown,       \* messages a check_inbox returned to the agent
    task,        \* per message: the file in pending/
    result,      \* per message: the file in results/
    session,     \* prepare_session and the Claude Code session, file by file
    importer,    \* per importer: its step and the message whose file it read
    tries,       \* how often somebody set out to execute the task
    replies,     \* how many responses were sent for it, results and errors
    used,        \* faults and calls so far
    handled,     \* history: messages a poll loop has passed to its handler
    lost,        \* history: messages acknowledged by a check_inbox that failed
    disturbed,   \* history: a fault, or an acknowledgement that came too late
    resent       \* history: a result was read again after it had been read

vars == <<status, call, stop, loop, inbox, shown, task, result, session,
          importer, tries, replies, used, handled, lost, disturbed, resent>>

gatewayVars == <<stop, loop, handled>>
agentVars == <<inbox, shown, lost>>
claudeVars == <<task, result, session, importer, resent>>
countVars == <<tries, replies>>

Files == {Nothing, "torn", "whole"}
NoThread == [run |-> FALSE, batch |-> {}, hand |-> Nothing]
NoSession == [pc |-> "idle", todo |-> {}, file |-> Nothing]
NoImport == [pc |-> "idle", file |-> Nothing]

TypeOK ==
    /\ status \in [Messages -> {"none", "pending", "settled"}]
    /\ call \in {"start", "chain", "asked", "raw", "sent", "cron", "waiting", "end"}
    /\ stop \in BOOLEAN
    /\ loop \in [Threads -> [run : BOOLEAN, batch : SUBSET Messages,
                             hand : Messages \cup {Nothing}]]
    /\ inbox \in [todo : SUBSET Messages, taken : SUBSET Messages]
    /\ shown \subseteq Messages
    /\ task \in [Messages -> Files]
    /\ result \in [Messages -> Files]
    /\ session \in [pc : {"idle", "export", "write", "work", "report"},
                    todo : SUBSET Messages, file : Messages \cup {Nothing}]
    /\ importer \in [Importers -> [pc : {"idle", "send", "unlink"},
                                   file : Messages \cup {Nothing}]]
    /\ tries \in 0..MaxCount /\ replies \in 0..MaxCount
    /\ used \in [faults : 0..MaxFaults, calls : 0..MaxCalls]
    /\ handled \subseteq Messages
    /\ lost \subseteq Messages
    /\ disturbed \in BOOLEAN /\ resent \in BOOLEAN

Init ==
    /\ status = [m \in Messages |-> "none"]
    /\ call = "start"
    /\ stop = TRUE
    /\ loop = [t \in Threads |-> NoThread]
    /\ inbox = [todo |-> {}, taken |-> {}]
    /\ shown = {}
    /\ task = [m \in Messages |-> Nothing]
    /\ result = [m \in Messages |-> Nothing]
    /\ session = NoSession
    /\ importer = [i \in Importers |-> NoImport]
    /\ tries = 0 /\ replies = 0
    /\ used = [faults |-> 0, calls |-> 0]
    /\ handled = {}
    /\ lost = {}
    /\ disturbed = FALSE /\ resent = FALSE

-----------------------------------------------------------------------------

Pending == {m \in Messages : status[m] = "pending"}
Queue(m) == status' = [status EXCEPT ![m] = "pending"]
Settle(m) == status' = [status EXCEPT ![m] = "settled"]

More(n) == IF n = MaxCount THEN n ELSE n + 1
Attempt == tries' = More(tries)
Reply == replies' = More(replies)

Call == /\ used.calls < MaxCalls
        /\ used' = [used EXCEPT !.calls = @ + 1]

Fault == /\ used.faults < MaxFaults
         /\ used' = [used EXCEPT !.faults = @ + 1]
         /\ disturbed' = TRUE

-----------------------------------------------------------------------------
(* send_to_profile, one call.                                              *)

\* The specialist guard refuses; track goes down the chain; all else, and a
\* tracked message from the root to somebody further down, is sent raw.
SendStart ==
    /\ call = "start"
    /\ call' \in {"end", "chain", "raw"}
    /\ UNCHANGED <<status, gatewayVars, agentVars, claudeVars, countVars, used,
                   disturbed>>

\* delegate_down_chain puts a request before each hop, the target's last.
ChainSend ==
    /\ call = "chain"
    /\ Queue(Hop)
    /\ call' = "asked"
    /\ UNCHANGED <<gatewayVars, agentVars, claudeVars, countVars, used, disturbed>>

ChainEnds ==
    /\ call = "asked"
    /\ call' = "end"
    /\ UNCHANGED <<status, gatewayVars, agentVars, claudeVars, countVars, used,
                   disturbed>>

\* A hop that cannot be asked or recorded raises: what was sent stays sent and
\* the same task goes out once more, raw.
ChainFails ==
    /\ call \in {"chain", "asked"}
    /\ Fault
    /\ call' = "raw"
    /\ UNCHANGED <<status, gatewayVars, agentVars, claudeVars, countVars>>

\* deliver_to wants a cron job, wait_for_response a subagent; neither looks at
\* the request that is on the bus as well.
RawSend ==
    /\ call = "raw"
    /\ Queue(Raw)
    /\ call' \in {"cron", "waiting", "end"}
    /\ UNCHANGED <<gatewayVars, agentVars, claudeVars, countVars, used, disturbed>>

RawFails ==
    /\ call = "raw"
    /\ Fault
    /\ call' = "end"
    /\ UNCHANGED <<status, gatewayVars, agentVars, claudeVars, countVars>>

\* The job runs the task and delivers its output without the bus.
CronRuns ==
    /\ call = "cron"
    /\ Attempt
    /\ call' = "end"
    /\ UNCHANGED <<status, gatewayVars, agentVars, claudeVars, replies, used,
                   disturbed>>

\* The subagent's answer is put on the bus as a response to the raw request.
SubagentAnswers ==
    /\ call = "waiting"
    /\ Attempt
    /\ Reply
    /\ call' = "end"
    /\ UNCHANGED <<status, gatewayVars, agentVars, claudeVars, used, disturbed>>

\* No job, no delegate_task, a failing subagent, or a response that cannot be
\* recorded: the tool reports it and the request stays on the bus.
SubagentFails ==
    /\ call \in {"cron", "waiting"}
    /\ Fault
    /\ call' = "end"
    /\ tries' \in {tries, More(tries)}
    /\ UNCHANGED <<status, gatewayVars, agentVars, claudeVars, replies>>

-----------------------------------------------------------------------------
(* The gateway: IPCListener.start, stop and _poll_loop, process_once.      *)

\* start clears the event, also for a thread that has not noticed it yet.
ListenerStart ==
    /\ stop
    /\ \E t \in Threads :
         /\ ~loop[t].run
         /\ loop' = [loop EXCEPT ![t].run = TRUE]
    /\ stop' = FALSE
    /\ UNCHANGED <<status, call, handled, agentVars, claudeVars, countVars, used, disturbed>>

\* stop sets the event; its join gives up after two intervals.
ListenerStop ==
    /\ ~stop
    /\ Call
    /\ stop' = TRUE
    /\ UNCHANGED <<status, call, loop, handled, agentVars, claudeVars, countVars, disturbed>>

LoopExit(t) ==
    /\ loop[t].run /\ stop
    /\ loop[t].batch = {}
    /\ loop' = [loop EXCEPT ![t] = NoThread]
    /\ UNCHANGED <<status, call, stop, handled, agentVars, claudeVars, countVars, used,
                   disturbed>>

\* Fault: what is polled is acknowledged at once.
PollAcknowledges(t) ==
    /\ loop[t].run /\ ~stop
    /\ loop[t].batch = {} /\ Pending # {}
    /\ loop' = [loop EXCEPT ![t].batch = Pending]
    /\ status' = [m \in Messages |-> IF m \in Pending THEN "settled" ELSE status[m]]
    /\ UNCHANGED <<call, stop, handled, agentVars, claudeVars, countVars, used,
                   disturbed>>

\* Fault: what was handled once is left alone.
PollNew(t) ==
    /\ loop[t].run /\ ~stop
    /\ loop[t].batch = {} /\ Pending \ handled # {}
    /\ loop' = [loop EXCEPT ![t].batch = Pending \ handled]
    /\ UNCHANGED <<status, call, stop, handled, agentVars, claudeVars, countVars, used,
                   disturbed>>

Poll(t) ==
    /\ loop[t].run /\ ~stop
    /\ loop[t].batch = {} /\ Pending # {}
    /\ loop' = [loop EXCEPT ![t].batch = Pending]
    /\ UNCHANGED <<status, call, stop, handled, agentVars, claudeVars, countVars, used,
                   disturbed>>

Hand(t) ==
    /\ loop[t].hand = Nothing
    /\ \E m \in loop[t].batch : /\ loop' = [loop EXCEPT ![t].hand = m]
                               /\ handled' = handled \cup {m}

\* Fault: the result is sent before the completion is recorded, and when that
\* fails the error is sent as well.
HandleAnswersEarly(t) ==
    /\ Hand(t)
    /\ \/ UNCHANGED <<countVars, used, disturbed>>
       \/ Attempt /\ Reply /\ UNCHANGED <<used, disturbed>>
       \/ Fault /\ Attempt /\ replies' = More(More(replies))
    /\ UNCHANGED <<status, call, stop, agentVars, claudeVars>>

\* handle_message registers a worker for the task and, if there is an
\* executor, attempts it and sends the result or, when the execution or its
\* completion raises, the error.  Nothing is sent when no worker could be
\* spawned, the failure could not be recorded or the send failed: what goes
\* wrong is swallowed.
Handle(t) ==
    /\ Hand(t)
    /\ \/ UNCHANGED <<countVars, used, disturbed>>
       \/ Attempt /\ Reply /\ UNCHANGED <<used, disturbed>>
       \/ Fault /\ tries' \in {tries, More(tries)} /\ UNCHANGED replies
    /\ UNCHANGED <<status, call, stop, agentVars, claudeVars>>

\* An acknowledgement that raises is swallowed; the message is polled again
\* unless somebody else settled it.
Acknowledge(t) ==
    /\ LET m == loop[t].hand IN
       /\ m # Nothing
       /\ loop' = [loop EXCEPT ![t].hand = Nothing, ![t].batch = @ \ {m}]
       /\ \/ Settle(m) /\ UNCHANGED <<used, disturbed>>
          \/ Fault /\ UNCHANGED status
    /\ UNCHANGED <<call, stop, handled, agentVars, claudeVars, countVars>>

GatewayCrash ==
    /\ \E t \in Threads : loop[t].run
    /\ Fault
    /\ stop' = TRUE
    /\ loop' = [t \in Threads |-> NoThread]
    /\ UNCHANGED <<status, call, handled, agentVars, claudeVars, countVars>>

\* process_once handles what is pending, as above, and acknowledges nothing.
\* This is one message of its poll; a second one is another such step.
ProcessOnce ==
    /\ Pending # {}
    /\ Call
    /\ \/ UNCHANGED countVars
       \/ Attempt /\ UNCHANGED replies
       \/ Attempt /\ Reply
    /\ UNCHANGED <<status, call, gatewayVars, agentVars, claudeVars, disturbed>>

-----------------------------------------------------------------------------
(* check_inbox, called by the profile's agent.                             *)

InboxPoll ==
    /\ inbox = [todo |-> {}, taken |-> {}]
    /\ Pending # {}
    /\ Call
    /\ inbox' = [inbox EXCEPT !.todo = Pending]
    /\ UNCHANGED <<status, call, gatewayVars, shown, lost, claudeVars, countVars,
                   disturbed>>

\* Each message is put in the answer and acknowledged before the next.
InboxTake(m) ==
    /\ m \in inbox.todo
    /\ status[m] = "pending"
    /\ Settle(m)
    /\ inbox' = [todo |-> inbox.todo \ {m}, taken |-> inbox.taken \cup {m}]
    /\ UNCHANGED <<call, gatewayVars, shown, lost, claudeVars, countVars, used,
                   disturbed>>

InboxReturn ==
    /\ inbox.todo = {} /\ inbox.taken # {}
    /\ inbox' = [todo |-> {}, taken |-> {}]
    /\ shown' = shown \cup inbox.taken
    /\ UNCHANGED <<status, call, gatewayVars, lost, claudeVars, countVars, used,
                   disturbed>>

\* A message that was settled meanwhile makes the acknowledgement raise: the
\* call returns an error, and what it had taken already is in no answer.
InboxTooLate(m) ==
    /\ m \in inbox.todo
    /\ status[m] # "pending"
    /\ inbox' = [todo |-> {}, taken |-> {}]
    /\ lost' = lost \cup inbox.taken
    /\ disturbed' = TRUE
    /\ UNCHANGED <<status, call, gatewayVars, shown, claudeVars, countVars, used>>

\* The bus fails, or the agent's process ends.
InboxFails ==
    /\ inbox.todo # {} \/ inbox.taken # {}
    /\ Fault
    /\ inbox' = [todo |-> {}, taken |-> {}]
    /\ lost' = lost \cup inbox.taken
    /\ UNCHANGED <<status, call, gatewayVars, shown, claudeVars, countVars>>

-----------------------------------------------------------------------------
(* prepare_session, the session's work, import_results.                    *)

\* Pending messages are polled and not acknowledged.
ExportPoll ==
    /\ session = NoSession
    /\ Pending # {}
    /\ Call
    /\ session' = [pc |-> "export", todo |-> Pending, file |-> Nothing]
    /\ UNCHANGED <<status, call, gatewayVars, agentVars, task, result, importer,
                   resent, countVars, disturbed>>

\* A file that exists is left as it is, a torn one too.
ExportOpen(m) ==
    /\ session.pc = "export"
    /\ m \in session.todo
    /\ LET rest == [session EXCEPT !.todo = @ \ {m}] IN
       \/ /\ task[m] # Nothing
          /\ session' = rest
          /\ UNCHANGED task
       \/ /\ task[m] = Nothing
          /\ session' = [rest EXCEPT !.pc = "write", !.file = m]
          /\ task' = [task EXCEPT ![m] = "torn"]
    /\ UNCHANGED <<status, call, gatewayVars, agentVars, result, importer, resent,
                   countVars, used, disturbed>>

ExportWrite ==
    /\ session.pc = "write"
    /\ task' = [task EXCEPT ![session.file] = "whole"]
    /\ session' = [session EXCEPT !.pc = "export", !.file = Nothing]
    /\ UNCHANGED <<status, call, gatewayVars, agentVars, result, importer, resent,
                   countVars, used, disturbed>>

ExportEnds ==
    /\ session.pc = "export" /\ session.todo = {}
    /\ session' = [session EXCEPT !.pc = "work"]
    /\ UNCHANGED <<status, call, gatewayVars, agentVars, task, result, importer,
                   resent, countVars, used, disturbed>>

\* The session works on a task file it can read and, completed or failed, opens
\* the result's file.
Work(m) ==
    /\ session.pc = "work"
    /\ task[m] = "whole"
    /\ Attempt
    /\ result' = [result EXCEPT ![m] = "torn"]
    /\ session' = [session EXCEPT !.pc = "report", !.file = m]
    /\ UNCHANGED <<status, call, gatewayVars, agentVars, task, importer, resent,
                   replies, used, disturbed>>

\* write_result_file replaces an earlier result; clear_pending_file may follow.
Report ==
    /\ session.pc = "report"
    /\ result' = [result EXCEPT ![session.file] = "whole"]
    /\ task' \in {task, [task EXCEPT ![session.file] = Nothing]}
    /\ session' = NoSession
    /\ UNCHANGED <<status, call, gatewayVars, agentVars, importer, resent, countVars,
                   used, disturbed>>

SessionEnds ==
    /\ session.pc = "work"
    /\ session' = NoSession
    /\ UNCHANGED <<status, call, gatewayVars, agentVars, task, result, importer,
                   resent, countVars, used, disturbed>>

SessionCrash ==
    /\ session # NoSession
    /\ Fault
    /\ session' = NoSession
    /\ UNCHANGED <<status, call, gatewayVars, agentVars, task, result, importer,
                   resent, countVars>>

\* A torn file does not parse: it is reported and left for the next import.
ImportRead(i, m) ==
    /\ importer[i].pc = "idle"
    /\ result[m] = "whole"
    /\ importer' = [importer EXCEPT ![i] = [pc |-> "send", file |-> m]]
    /\ resent' = (resent \/ \E j \in Importers \ {i} : importer[j].file = m)
    /\ UNCHANGED <<status, call, gatewayVars, agentVars, task, result, session,
                   countVars, used, disturbed>>

ImportSend(i) ==
    /\ importer[i].pc = "send"
    /\ Reply
    /\ importer' = [importer EXCEPT ![i].pc = "unlink"]
    /\ UNCHANGED <<status, call, gatewayVars, agentVars, task, result, session, resent,
                   tries, used, disturbed>>

\* The file goes, whatever was written to it since; if it is gone, unlink
\* raises and the import counts as an error although it was sent.
ImportUnlink(i) ==
    /\ importer[i].pc = "unlink"
    /\ result' = [result EXCEPT ![importer[i].file] = Nothing]
    /\ importer' = [importer EXCEPT ![i] = NoImport]
    /\ UNCHANGED <<status, call, gatewayVars, agentVars, task, session, resent, countVars,
                   used, disturbed>>

\* The send fails, or the process ends before the file is removed.
ImportFails(i) ==
    /\ importer[i].pc \in {"send", "unlink"}
    /\ Fault
    /\ importer' = [importer EXCEPT ![i] = NoImport]
    /\ resent' = (resent \/ importer[i].pc = "unlink")
    /\ UNCHANGED <<status, call, gatewayVars, agentVars, task, result, session, countVars>>

-----------------------------------------------------------------------------

Sender ==
    \/ SendStart \/ ChainSend \/ ChainEnds \/ ChainFails
    \/ RawSend \/ RawFails \/ CronRuns \/ SubagentAnswers \/ SubagentFails

Gateway ==
    \/ ListenerStart \/ ListenerStop \/ GatewayCrash \/ ProcessOnce
    \/ \E t \in Threads : Poll(t) \/ Handle(t) \/ Acknowledge(t) \/ LoopExit(t)

Agent ==
    \/ InboxPoll \/ InboxReturn \/ InboxFails
    \/ \E m \in Messages : InboxTake(m) \/ InboxTooLate(m)

Claude ==
    \/ ExportPoll \/ ExportWrite \/ ExportEnds \/ Report \/ SessionEnds \/ SessionCrash
    \/ \E m \in Messages : ExportOpen(m) \/ Work(m)
    \/ \E i \in Importers : \/ ImportSend(i) \/ ImportUnlink(i) \/ ImportFails(i)
                            \/ \E m \in Messages : ImportRead(i, m)

Next == Sender \/ Gateway \/ Agent \/ Claude

Spec == Init /\ [][Next]_vars

\* The threads of the listener and a call of the agent go on while they can;
\* nobody has to call anything, and faults need not happen.
FairSpec ==
    /\ Spec
    /\ \A t \in Threads : WF_vars(Poll(t) \/ Handle(t) \/ Acknowledge(t) \/ LoopExit(t))

-----------------------------------------------------------------------------
(* Properties.                                                             *)

\* A settled message was passed to the gateway's handler, or is in the answer
\* a check_inbox is building or has returned, or was lost by a check_inbox, and
\* that only after a fault or beside another consumer of the same messages
\* (_poll_loop acknowledges after handling, check_inbox before it answers).
NoneLost ==
    \A m \in Messages : status[m] = "settled" =>
        \/ m \in handled \cup inbox.taken \cup shown
        \/ m \in lost /\ disturbed

\* However the consumers overlap and whatever fails, no more responses are
\* sent, results and errors together, than somebody set out to execute the
\* task, unless a result file was read a second time: beside another import
\* or after one that ended between its send and its unlink.
RepliesEarned == replies > tries => resent

\* While a listener is left running, every pending message is settled, whoever
\* takes it and however often the listener was stopped and started before.
Served ==
    <>[]~stop => \A m \in Messages : status[m] = "pending" ~> status[m] = "settled"
=============================================================================
