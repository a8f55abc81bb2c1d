------------------------------ MODULE Gateways ------------------------------
(***************************************************************************)
(* The gateway processes of one profile: who launches and stops them, how  *)
(* a process id in a file is to keep them from running twice               *)
(* (integrations/hermes/activation.py, message_router.py,                  *)
(* ui/api/gateways.py, ui/api/setup.py and ui/services.py).  An agent's    *)
(* process activates the profile before it sends; the user interface       *)
(* starts and stops gateways as well.  Every process sees the file and the *)
(* process table; nothing is locked between two processes.  What a gateway *)
(* does with the messages is in Inbox.                                     *)
(***************************************************************************)
EXTENDS Naturals, FiniteSets

CONSTANTS
    Pids,       \* process ids of the operating system
    Agents,     \* processes with a HermesProfileActivator and a router
    Consoles,   \* request threads of the user interface, all in one process
    Nothing,    \* no file, no entry, no process
    Torn,       \* the file between its truncation and its contents
    Stub        \* the entry True: somebody else's gateway was found

Ui == "ui"      \* the parent of what a console launches

ASSUME ConstantsDiffer ==
    /\ Agents \cap Consoles = {} /\ Ui \notin Agents
    /\ {Nothing, Torn, Stub} \cap (Pids \cup Agents) = {}
    /\ Nothing # Torn /\ Nothing # Stub /\ Torn # Stub

VARIABLES
    proc,       \* per process id: what runs, whose child it is, told to stop
    pidFile,    \* contents of gateway-<profile>.pid
    entry,      \* per agent: _active_gateways of the profile
    client,     \* per agent and console: where it is in its operation
    raced       \* history: two clients overlapped, or a record was not made or lost

gatewayVars == <<proc, pidFile, entry, client, raced>>

Clients == Agents \cup Consoles

Free == [runs |-> "free", parent |-> Nothing, told |-> FALSE]
Idle == [pc |-> "idle", pid |-> Nothing, linked |-> FALSE]

ProcType == [runs : {"free", "gateway", "zombie", "other"},
             parent : Agents \cup {Ui, Nothing}, told : BOOLEAN]

PcSet == {"idle", "check", "probe", "unlink", "launch", "open", "write", "send",
          "popen", "kill", "forget"}
ClientType == [pc : PcSet, pid : Pids \cup {Nothing}, linked : BOOLEAN]

GatewayTypeOK ==
    /\ proc \in [Pids -> ProcType]
    /\ pidFile \in Pids \cup {Nothing, Torn}
    /\ entry \in [Agents -> Pids \cup {Nothing, Stub}]
    /\ client \in [Clients -> ClientType]
    /\ raced \in BOOLEAN

GatewayInit ==
    /\ proc = [p \in Pids |-> Free]
    /\ pidFile = Nothing
    /\ entry = [a \in Agents |-> Nothing]
    /\ client = [c \in Clients |-> Idle]
    /\ raced = FALSE

-----------------------------------------------------------------------------
(* What the operations ask and do.                                         *)

Gateway(p) == proc[p].runs = "gateway"
Serving == {p \in Pids : Gateway(p) /\ ~proc[p].told}

\* os.kill(pid, 0) succeeds for a zombie and for any process that reused the id.
Exists(p) == proc[p].runs # "free"

\* It fails without a process, and for one that this user may not signal.
Refuses(p) == proc[p].runs \in {"free", "other"}

\* get_gateway_status; a torn record means not running.
Running == pidFile \in Pids /\ Exists(pidFile)
NotRunning == pidFile \in Pids => Refuses(pidFile)

\* A Popen that runs, or a stub, which is believed without a look.
is_active(a) == entry[a] = Stub \/ (entry[a] \in Pids /\ Gateway(entry[a]))

\* From its look at the file until its gateway is on record, a client relies
\* on what it read; two such windows that overlap can both launch.
Window == {"probe", "unlink", "launch", "open", "write", "popen"}
Others(c) == {d \in Clients \ {c} : client[d].pc \in Window}

Go(c, pc) == client' = [client EXCEPT ![c].pc = pc]
GoWith(c, pc, p) == client' = [client EXCEPT ![c].pc = pc, ![c].pid = p]
Done(c) == client' = [client EXCEPT ![c] = Idle]

Raced(when) == raced' = (raced \/ when)

\* Removing the file takes the record of whatever gateway it names by now, and
\* a writer that opened the file before writes into a file without a name.
Unlinked(c, next) ==
    /\ pidFile' = Nothing
    /\ client' = [d \in Clients |->
                    IF d = c THEN next ELSE [client[d] EXCEPT !.linked = FALSE]]
    /\ Raced(pidFile \in Serving)

\* subprocess.Popen reaps the children nobody holds any more before it forks.
Reaped(parent, kept) ==
    [p \in Pids |-> IF /\ proc[p].runs = "zombie" /\ proc[p].parent = parent
                       /\ p # kept
                    THEN Free ELSE proc[p]]

Spawned(p, parent, kept) ==
    /\ ~Exists(p)
    /\ proc' = [Reaped(parent, kept) EXCEPT
                  ![p] = [runs |-> "gateway", parent |-> parent, told |-> FALSE]]

\* A dead child stays a zombie until its parent reaps it or ends.
Corpse(p) ==
    IF proc[p].parent = Nothing THEN Free
    ELSE [proc[p] EXCEPT !.runs = "zombie", !.told = FALSE]

-----------------------------------------------------------------------------
(* route_message, send_to_profile: is_active, activate_profile, send.      *)

\* A Popen that ended is reaped and forgotten.
RouteStart(a) ==
    /\ client[a].pc = "idle"
    /\ LET e == entry[a] IN
       \/ /\ is_active(a)
          /\ Go(a, "send")
          /\ UNCHANGED <<proc, entry>>
       \/ /\ e \in Pids /\ ~Gateway(e)
          /\ proc' = [proc EXCEPT ![e] = Free]
          /\ entry' = [entry EXCEPT ![a] = Nothing]
          /\ Go(a, "check")
       \/ /\ e = Nothing
          /\ Go(a, "check")
          /\ UNCHANGED <<proc, entry>>
    /\ UNCHANGED <<pidFile, raced>>

\* _is_gateway_running reads the file.
CheckFile(a) ==
    /\ client[a].pc = "check"
    /\ \/ pidFile = Nothing /\ Go(a, "launch")
       \/ pidFile = Torn /\ Go(a, "unlink")
       \/ pidFile \in Pids /\ GoWith(a, "probe", pidFile)
    /\ Raced(Others(a) # {})
    /\ UNCHANGED <<proc, pidFile, entry>>

\* A process that may not be signalled counts as dead, any other as a gateway.
Probe(a) ==
    /\ client[a].pc = "probe"
    /\ LET p == client[a].pid IN
       \/ /\ Exists(p)
          /\ entry' = [entry EXCEPT ![a] = Stub]
          /\ Go(a, "send")
       \/ /\ Refuses(p)
          /\ Go(a, "unlink")
          /\ UNCHANGED entry
    /\ UNCHANGED <<proc, pidFile, raced>>

UnlinkStale(a) ==
    /\ client[a].pc = "unlink"
    /\ Unlinked(a, [client[a] EXCEPT !.pc = "launch"])
    /\ UNCHANGED <<proc, entry>>

\* _launch_gateway_subprocess.
Launch(a) ==
    /\ client[a].pc = "launch"
    /\ \E p \in Pids :
         /\ Spawned(p, a, entry[a])
         /\ GoWith(a, "open", p)
    /\ UNCHANGED <<pidFile, entry, raced>>

\* No script, or no process: activation fails and the message is sent anyway.
LaunchFails(a) ==
    /\ client[a].pc = "launch"
    /\ Go(a, "send")
    /\ UNCHANGED <<proc, pidFile, entry, raced>>

\* write_text truncates the file and then writes the process id.
RecordOpen(a) ==
    /\ client[a].pc = "open"
    /\ pidFile' = Torn
    /\ client' = [client EXCEPT ![a].pc = "write", ![a].linked = TRUE]
    /\ UNCHANGED <<proc, entry, raced>>

\* Fault: the process id is kept in memory only.
RecordEntryOnly(a) ==
    /\ client[a].pc = "write"
    /\ entry' = [entry EXCEPT ![a] = client[a].pid]
    /\ Go(a, "send")
    /\ UNCHANGED <<proc, pidFile, raced>>

\* The process id is written into the file that was opened, and the Popen
\* object is kept.
RecordWrite(a) ==
    /\ client[a].pc = "write"
    /\ pidFile' = IF client[a].linked THEN client[a].pid ELSE pidFile
    /\ entry' = [entry EXCEPT ![a] = client[a].pid]
    /\ Go(a, "send")
    /\ Raced(~client[a].linked)
    /\ UNCHANGED proc

\* The write raises: activation reports failure, the gateway keeps running.
RecordFails(a) ==
    /\ client[a].pc \in {"open", "write"}
    /\ Go(a, "send")
    /\ Raced(TRUE)
    /\ UNCHANGED <<proc, pidFile, entry>>

\* The message goes to the bus whatever the activation returned.
Send(a) ==
    /\ client[a].pc = "send"
    /\ Done(a)
    /\ UNCHANGED <<proc, pidFile, entry, raced>>

-----------------------------------------------------------------------------
(* deactivate_profile, shutdown, and the end of an agent's process.        *)

\* Fault: the Popen object is kept.
DeactivateKeeps(a) ==
    /\ client[a].pc = "idle"
    /\ entry[a] \in Pids
    /\ proc' = [proc EXCEPT ![entry[a]] = Free]
    /\ Go(a, "forget")
    /\ UNCHANGED <<pidFile, entry, raced>>

\* SIGTERM and a wait, or SIGKILL without one: the gateway is dead either way,
\* in the second case as a zombie of the agent.
DeactivateKill(a) ==
    /\ client[a].pc = "idle"
    /\ entry[a] \in Pids
    /\ \E waited \in BOOLEAN :
         proc' = [proc EXCEPT ![entry[a]] = IF waited THEN Free ELSE Corpse(entry[a])]
    /\ entry' = [entry EXCEPT ![a] = Nothing]
    /\ Go(a, "forget")
    /\ UNCHANGED <<pidFile, raced>>

DeactivateUnlink(a) ==
    /\ client[a].pc = "forget"
    /\ Unlinked(a, Idle)
    /\ UNCHANGED <<proc, entry>>

\* A stub is popped; the gateway it stood for goes on.
DeactivateStub(a) ==
    /\ client[a].pc = "idle"
    /\ entry[a] = Stub
    /\ entry' = [entry EXCEPT ![a] = Nothing]
    /\ UNCHANGED <<proc, pidFile, client, raced>>

\* shutdown waits at most five seconds and leaves the file where it is.
Shutdown(a) ==
    /\ client[a].pc = "idle"
    /\ entry[a] # Nothing
    /\ IF entry[a] = Stub THEN UNCHANGED proc
       ELSE \/ /\ proc' = [proc EXCEPT ![entry[a]] = Free]
            \/ /\ Gateway(entry[a])
               /\ proc' = [proc EXCEPT ![entry[a]].told = TRUE]
    /\ entry' = [entry EXCEPT ![a] = Nothing]
    /\ UNCHANGED <<pidFile, client, raced>>

\* The agent ends without shutdown, as it does after every task: its gateways
\* are detached and go on, its dead children are reaped by init.
AgentEnds(a) ==
    /\ entry' = [entry EXCEPT ![a] = Nothing]
    /\ Done(a)
    /\ proc' = [p \in Pids |->
                  IF proc[p].parent # a THEN proc[p]
                  ELSE IF proc[p].runs = "zombie" THEN Free
                  ELSE [proc[p] EXCEPT !.parent = Nothing]]
    /\ Raced(client[a].pc \in {"open", "write"})
    /\ UNCHANGED pidFile

-----------------------------------------------------------------------------
(* The user interface: start, stop, start-all and stop-all.                *)

ConsoleStart(c) ==
    /\ client[c].pc = "idle"
    /\ NotRunning
    /\ Go(c, "popen")
    /\ Raced(Others(c) # {})
    /\ UNCHANGED <<proc, pidFile, entry>>

\* The gateway is launched and its process id is recorded nowhere.
ConsolePopen(c) ==
    /\ client[c].pc = "popen"
    /\ \E p \in Pids :
         /\ Spawned(p, Ui, Nothing)
    /\ Done(c)
    /\ raced' = TRUE
    /\ UNCHANGED <<pidFile, entry>>

ConsoleStop(c) ==
    /\ client[c].pc = "idle"
    /\ Running
    /\ GoWith(c, "kill", pidFile)
    /\ UNCHANGED <<proc, pidFile, entry, raced>>

\* SIGTERM goes to whatever has the id by now; without a process, or without
\* the right to signal it, the request fails and the file stays.
ConsoleKill(c) ==
    /\ client[c].pc = "kill"
    /\ LET p == client[c].pid IN
       \/ /\ Gateway(p)
          /\ proc' = [proc EXCEPT ![p].told = TRUE]
          /\ Go(c, "forget")
       \/ /\ proc[p].runs \in {"zombie", "other"}
          /\ Go(c, "forget")
          /\ UNCHANGED proc
       \/ /\ Refuses(p)
          /\ Done(c)
          /\ UNCHANGED proc
    /\ UNCHANGED <<pidFile, entry, raced>>

ConsoleUnlink(c) ==
    /\ client[c].pc = "forget"
    /\ Unlinked(c, Idle)
    /\ UNCHANGED <<proc, entry>>

-----------------------------------------------------------------------------
(* The operating system.                                                   *)

GatewayDies(p) ==
    /\ Gateway(p)
    /\ proc' = [proc EXCEPT ![p] = Corpse(p)]
    /\ UNCHANGED <<pidFile, entry, client, raced>>

\* A free process id is given to a process that is no gateway, and freed again.
PidReused(p) ==
    /\ proc[p].runs = "free"
    /\ proc' = [proc EXCEPT ![p].runs = "other"]
    /\ UNCHANGED <<pidFile, entry, client, raced>>

OtherEnds(p) ==
    /\ proc[p].runs = "other"
    /\ proc' = [proc EXCEPT ![p].runs = "free"]
    /\ UNCHANGED <<pidFile, entry, client, raced>>

-----------------------------------------------------------------------------

AgentStep(a) ==
    \/ RouteStart(a) \/ CheckFile(a) \/ Probe(a) \/ UnlinkStale(a)
    \/ Launch(a) \/ LaunchFails(a) \/ RecordOpen(a) \/ RecordWrite(a)
    \/ RecordFails(a) \/ Send(a)
    \/ DeactivateKill(a) \/ DeactivateUnlink(a) \/ DeactivateStub(a)
    \/ Shutdown(a) \/ AgentEnds(a)

ConsoleStep(c) ==
    \/ ConsoleStart(c) \/ ConsolePopen(c)
    \/ ConsoleStop(c) \/ ConsoleKill(c) \/ ConsoleUnlink(c)

SystemStep(p) == GatewayDies(p) \/ PidReused(p) \/ OtherEnds(p)

GatewayNext ==
    \/ \E a \in Agents : AgentStep(a)
    \/ \E c \in Consoles : ConsoleStep(c)
    \/ \E p \in Pids : SystemStep(p)

GatewaySpec == GatewayInit /\ [][GatewayNext]_gatewayVars

-----------------------------------------------------------------------------
(* Properties.                                                             *)

\* An agent's Popen entry always names its own child, running or not yet
\* reaped: is_active never takes a stranger for its gateway and
\* deactivate_profile never signals one, however ids are reused.
EntryIsChild ==
    \A a \in Agents : entry[a] \in Pids =>
        /\ proc[entry[a]].runs \in {"gateway", "zombie"}
        /\ proc[entry[a]].parent = a

\* Two gateways serve the profile at once only if two clients looked at the
\* file in overlapping windows, or a launch was never put on record, or the
\* record of a live gateway was removed: restarts, stale files, zombies and
\* reused ids alone never lead to a second gateway (_is_gateway_running).
OneGateway ==
    Cardinality(Serving) > 1 => raced
=============================================================================
