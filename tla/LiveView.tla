------------------------------ MODULE LiveView ------------------------------
(***************************************************************************)
(* What the browser is shown of the system while it runs (ui/realtime): a  *)
(* watcher thread polls the databases and the process id files and         *)
(* publishes what changed (db_watcher.py), the bus keeps a history and     *)
(* calls its subscriber (event_bus.py), and the event loop of the          *)
(* WebSocket server sends each event to the connections (ws_server.py).    *)
(* The rows are written by other processes at any time.                    *)
(*                                                                         *)
(* Left out: messages that are deleted or archived before the watcher      *)
(* polls, and are never shown; changes of a message's status, which        *)
(* _check_messages does not look for, though the class says so; and the    *)
(* registries of other managers, of which one that cannot be read ends a   *)
(* check of the workers before it has come to the rest.                    *)
(***************************************************************************)
EXTENDS Naturals, Sequences, FiniteSets

CONSTANTS
    Messages,      \* rows of the bus, in the order of their ids
    Workers,       \* rows of one project manager's registry
    Clients,       \* browsers, each of which connects once
    Newest,        \* worker rows that are looked at (20)
    Recent,        \* events that a new client is sent (50)
    MaxTime,       \* the clock stops here
    MaxChanges,    \* changes of workers and gateway and failing reads, all together
    Nothing        \* no row, no status, not told

ASSUME BoundsAreNatural ==
    /\ Newest \in Nat \ {0} /\ Recent \in Nat \ {0}
    /\ MaxTime \in Nat /\ MaxChanges \in Nat

ASSUME WorkersAreFinite == IsFiniteSet(Workers)

VARIABLES
    now,         \* the clock that created_at is read from
    created,     \* per message: created_at, or Nothing
    committed,   \* messages whose row can be read
    outrun,      \* history: those that were committed too late to be seen
    last,        \* _last_message_time
    workers,     \* the registry's rows, newest first, the deleted ones kept in place
    up,          \* the gateway's process id file names a live process
    changes,     \* changes so far
    watch,       \* the watcher: the check it is in and what it has to publish
    snapshot,    \* _last_worker_snapshot and _last_gateway_pids
    shown,       \* messages published, and the last news of workers and gateway
    events,      \* events appended to the history
    calling,     \* the event whose callbacks are to be called, or 0
    tasks,       \* broadcasts on the event loop: event and targets
    client       \* per client: connection, events received, events before its history

viewVars == <<now, created, committed, outrun, last, workers, up, changes, watch,
            snapshot, shown, events, calling, tasks, client>>

worldVars == <<now, created, committed, outrun, workers, up, changes>>
watchVars == <<last, watch, snapshot, shown>>
busVars == <<events, calling>>
serverVars == <<tasks, client>>

States == {"running", "completed"}    \* two of the four tell a change

\* The names that the workers from before the watcher's start happen to have.
Order == CHOOSE f \in [1..Cardinality(Workers) -> Workers] :
           \A i, j \in DOMAIN f : f[i] = f[j] => i = j

ViewTypeOK ==
    /\ now \in 0..MaxTime
    /\ created \in [Messages -> (0..MaxTime) \cup {Nothing}]
    /\ committed \subseteq Messages /\ outrun \subseteq committed
    /\ last \in 0..MaxTime
    /\ \A i \in DOMAIN workers : workers[i] \in [id : Workers, status : States \cup {"deleted"}]
    /\ up \in BOOLEAN
    /\ changes \in 0..MaxChanges
    /\ watch.at \in {"messages", "workers", "gateway"}
    /\ snapshot.worker \in [Workers -> States \cup {Nothing}] /\ snapshot.up \in BOOLEAN
    /\ shown.message \subseteq committed
    /\ shown.worker \in [Workers -> States \cup {Nothing}] /\ shown.up \in BOOLEAN
    /\ calling \in {0, events}
    /\ \A t \in tasks : t.event \in 1..events /\ t.todo \subseteq Clients
    /\ client \in [Clients -> [pc : {"new", "added", "open", "gone"},
                               joined : BOOLEAN, got : SUBSET (1..events),
                               before : 0..events]]

ViewInit ==
    /\ now = 0
    /\ created = [m \in Messages |-> Nothing]
    /\ committed = {} /\ outrun = {}
    /\ last = 0
    /\ \E n \in 0..Cardinality(Workers) :
         workers = [i \in 1..n |-> [id |-> Order[i], status |-> "running"]]
    /\ up = FALSE
    /\ changes = 0
    /\ watch = [at |-> "messages", todo |-> {}]
    /\ snapshot = [worker |-> [w \in Workers |-> Nothing], up |-> FALSE]
    /\ shown = [message |-> {}, worker |-> [w \in Workers |-> Nothing], up |-> FALSE]
    /\ events = 0 /\ calling = 0
    /\ tasks = {}
    /\ client = [c \in Clients |-> [pc |-> "new", joined |-> FALSE,
                                got |-> {}, before |-> 0]]

-----------------------------------------------------------------------------
(* The rest of the system.                                                 *)

Tick ==
    /\ now < MaxTime
    /\ now' = now + 1
    /\ UNCHANGED <<created, committed, outrun, workers, up, changes, watchVars, busVars,
                   serverVars>>

\* A sender stamps its message and commits the row later; a row with the same
\* or a later time may be committed before it.
Stamp(m) ==
    /\ created[m] = Nothing
    /\ created' = [created EXCEPT ![m] = now]
    /\ UNCHANGED <<now, committed, outrun, workers, up, changes, watchVars, busVars,
                   serverVars>>

Commit(m) ==
    /\ created[m] # Nothing /\ m \notin committed
    /\ committed' = committed \cup {m}
    /\ outrun' = IF created[m] = 0 \/ \E n \in committed : created[n] >= created[m]
                 THEN outrun \cup {m} ELSE outrun
    /\ UNCHANGED <<now, created, workers, up, changes, watchVars, busVars, serverVars>>

Change ==
    /\ changes < MaxChanges
    /\ changes' = changes + 1
    /\ UNCHANGED <<now, created, committed, outrun, watchVars, busVars, serverVars>>

WorkerChanges ==
    /\ Change
    /\ \/ \E w \in Workers :
            /\ \A i \in DOMAIN workers : workers[i].id # w
            /\ workers' = <<[id |-> w, status |-> "running"]>> \o workers
       \/ \E i \in DOMAIN workers, s \in States \cup {"deleted"} :
            /\ workers[i].status \notin {s, "deleted"}
            /\ workers' = [workers EXCEPT ![i].status = s]
    /\ UNCHANGED up

GatewayChanges ==
    /\ Change
    /\ up' = ~up
    /\ UNCHANGED workers

-----------------------------------------------------------------------------
(* DatabaseWatcher._poll_loop: three checks in turn, each a read of the     *)
(* database and then one event after the other.                            *)

\* The newest rows, as a status per worker.
Rows == {i \in DOMAIN workers : workers[i].status # "deleted"}
Listed ==
    [w \in Workers |->
        LET at == {i \in Rows : /\ workers[i].id = w
                                /\ Cardinality({j \in Rows : j < i}) < Newest}
        IN  IF at = {} THEN Nothing ELSE workers[CHOOSE i \in at : TRUE].status]

Begin(check) == watch.at = check /\ watch.todo = {} /\ calling = 0
Following == [messages |-> "workers", workers |-> "gateway", gateway |-> "messages"]

\* What a check found is published item by item; the next check follows.
Found(items) ==
    watch' = IF items = {} THEN [at |-> Following[watch.at], todo |-> {}]
             ELSE [watch EXCEPT !.todo = items]
Published(item) == Found(watch.todo \ {item})

ReadMessages ==
    /\ Begin("messages")
    /\ Found({m \in committed : created[m] > last})
    /\ UNCHANGED <<worldVars, last, snapshot, shown, busVars, serverVars>>

\* Fault: only workers that were not listed before are reported.
ReadWorkersNew ==
    /\ Begin("workers")
    /\ Found({w \in Workers : Listed[w] # Nothing /\ snapshot.worker[w] = Nothing})
    /\ snapshot' = [snapshot EXCEPT !.worker = Listed]
    /\ UNCHANGED <<worldVars, last, shown, busVars, serverVars>>

\* A worker that left the newest rows is not reported; one that comes back is
\* reported as new.
ReadWorkers ==
    /\ Begin("workers")
    /\ Found({w \in Workers : Listed[w] # Nothing /\ Listed[w] # snapshot.worker[w]})
    /\ snapshot' = [snapshot EXCEPT !.worker = Listed]
    /\ UNCHANGED <<worldVars, last, shown, busVars, serverVars>>

ReadGateway ==
    /\ Begin("gateway")
    /\ Found(IF up = snapshot.up THEN {} ELSE {up})
    /\ snapshot' = [snapshot EXCEPT !.up = up]
    /\ UNCHANGED <<worldVars, last, shown, busVars, serverVars>>

\* A read that raises is logged, and the next check follows.
ReadFails ==
    /\ watch.todo = {} /\ calling = 0
    /\ changes < MaxChanges
    /\ changes' = changes + 1
    /\ watch' = [watch EXCEPT !.at = Following[@]]
    /\ UNCHANGED <<now, created, committed, outrun, workers, up, last, snapshot, shown,
                   busVars, serverVars>>

\* EventBus.publish appends and copies the subscribers under the lock ...
Publish ==
    /\ calling = 0
    /\ events' = events + 1
    /\ calling' = events + 1

\* ... and calls them: WebSocketBridge.on_event schedules a broadcast unless
\* there is no connection.
Connections == {c \in Clients : client[c].joined}

OnEvent ==
    /\ calling # 0
    /\ tasks' = IF Connections = {} THEN tasks
                ELSE tasks \cup {[event |-> calling, begun |-> FALSE, todo |-> {}]}
    /\ calling' = 0
    /\ UNCHANGED <<worldVars, watchVars, events, client>>

\* The oldest row first; the mark follows each row.
PublishMessage ==
    /\ watch.at = "messages"
    /\ \E m \in watch.todo :
         /\ \A n \in watch.todo : created[m] <= created[n]
         /\ Publish
         /\ last' = created[m]
         /\ shown' = [shown EXCEPT !.message = @ \cup {m}]
         /\ Published(m)
    /\ UNCHANGED <<worldVars, snapshot, serverVars>>

PublishWorker ==
    /\ watch.at = "workers"
    /\ \E w \in watch.todo :
         /\ Publish
         /\ shown' = [shown EXCEPT !.worker[w] = snapshot.worker[w]]
         /\ Published(w)
    /\ UNCHANGED <<worldVars, last, snapshot, serverVars>>

PublishGateway ==
    /\ watch.at = "gateway"
    /\ \E news \in watch.todo :
         /\ Publish
         /\ shown' = [shown EXCEPT !.up = news]
         /\ Published(news)
    /\ UNCHANGED <<worldVars, last, snapshot, serverVars>>

-----------------------------------------------------------------------------
(* The event loop of the WebSocket server.  A handler that has added its    *)
(* connection does not give the loop away before it has sent the history;  *)
(* the watcher's thread may run in between.                                *)

LoopFree == \A c \in Clients : client[c].pc # "added"

AddConnection(c) ==
    /\ LoopFree
    /\ client[c].pc = "new"
    /\ client' = [client EXCEPT ![c].pc = "added", ![c].joined = TRUE]
    /\ UNCHANGED <<worldVars, watchVars, busVars, tasks>>

\* Fault: the first events of the history instead of the last.
SendHistoryOldest(c) ==
    /\ client[c].pc = "added"
    /\ client' = [client EXCEPT ![c].pc = "open",
                    ![c].before = events,
                    ![c].got = {e \in 1..events : e <= Recent}]
    /\ UNCHANGED <<worldVars, watchVars, busVars, tasks>>

\* get_recent returns the last events of the history.
SendHistory(c) ==
    /\ client[c].pc = "added"
    /\ client' = [client EXCEPT ![c].pc = "open",
                    ![c].before = events,
                    ![c].got = {e \in 1..events : e + Recent > events}]
    /\ UNCHANGED <<worldVars, watchVars, busVars, tasks>>

\* A broadcast takes the connections of the moment and sends to one after the
\* other; each send may wait for a slow client.
Keep(t, targets) ==
    tasks' = (tasks \ {t}) \cup
             (IF targets = {} THEN {} ELSE {[t EXCEPT !.begun = TRUE, !.todo = targets]})

BroadcastStart(t) ==
    /\ LoopFree
    /\ ~t.begun
    /\ Keep(t, Connections)
    /\ UNCHANGED <<worldVars, watchVars, busVars, client>>

BroadcastSend(t) ==
    /\ LoopFree
    /\ \E c \in t.todo :
         /\ Keep(t, t.todo \ {c})
         /\ client' = IF client[c].pc = "gone"
                      THEN [client EXCEPT ![c].joined = FALSE]
                      ELSE [client EXCEPT ![c].got = @ \cup {t.event}]
    /\ UNCHANGED <<worldVars, watchVars, busVars>>

\* A client goes; the handler or a failing send removes the connection.
Leave(c) ==
    /\ client[c].pc = "open"
    /\ client' = [client EXCEPT ![c].pc = "gone"]
    /\ UNCHANGED <<worldVars, watchVars, busVars, tasks>>

RemoveConnection(c) ==
    /\ LoopFree
    /\ client[c].pc = "gone" /\ client[c].joined
    /\ client' = [client EXCEPT ![c].joined = FALSE]
    /\ UNCHANGED <<worldVars, watchVars, busVars, tasks>>

-----------------------------------------------------------------------------

World == Tick \/ WorkerChanges \/ GatewayChanges \/ \E m \in Messages : Stamp(m) \/ Commit(m)

Read == ReadMessages \/ ReadWorkers \/ ReadGateway
Report == OnEvent \/ PublishMessage \/ PublishWorker \/ PublishGateway

Server ==
    \/ \E c \in Clients :
         AddConnection(c) \/ SendHistory(c) \/ Leave(c) \/ RemoveConnection(c)
    \/ \E t \in tasks : BroadcastStart(t) \/ BroadcastSend(t)

ViewNext == World \/ Read \/ ReadFails \/ Report \/ Server

ViewSpec == ViewInit /\ [][ViewNext]_viewVars

\* The watcher's thread goes on; MaxChanges bounds the reads that fail.
ViewFairSpec ==
    /\ ViewSpec
    /\ WF_viewVars(Report \/ Read \/ ReadFails)

-----------------------------------------------------------------------------
(* Properties.                                                             *)

\* An open client has received, or is about to be sent, every event from the
\* first of its history to the last that on_event was called with, although
\* the history is read and the connections are looked at by two threads.
NothingMissed ==
    \A c \in Clients : client[c].pc = "open" =>
        \A e \in 1..events : e + Recent > client[c].before =>
            \/ e \in client[c].got \/ e = calling
            \/ \E t \in tasks : t.event = e /\ (~t.begun \/ c \in t.todo)

\* Every committed message is shown, except one whose time is not later than
\* that of a row committed before it or of the watcher's start; and a worker
\* among the newest rows that stays as it is, is shown as it is.
Seen ==
    /\ \A m \in Messages : m \in committed ~> m \in shown.message \cup outrun
    /\ \A w \in Workers, s \in States :
         <>[](Listed[w] = s) => <>[](shown.worker[w] = s)
=============================================================================
