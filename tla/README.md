# A TLA+ verification of hierarchical-agents

The program adds an organisation to a set of agents: a registry of profiles in
a hierarchy, a message bus between them, delegation chains that carry a task
down the hierarchy and its results back up, workers that execute, and a memory
with a lifecycle. Every part keeps its state in a SQLite database (some also in
files), and every gateway, tool call, UI request and CLI command is a process
or a thread of its own that opens those databases. The locks and transactions
of the code cover one statement, or a few; almost every operation is
"read, decide, write". What can go wrong is therefore in the interleavings, in
crashes between two writes, and in copies that are stale when they are saved,
and this is what the modules here are about.

Paths below are relative to the repository.

## 1. The parts of the system

| Part | State | Operations | Hard behaviour |
|------|-------|------------|----------------|
| IPC bus `core/ipc/message_bus.py`, `cleanup.py`, `models.py` | tables `messages`, `message_archive` | send, poll, acknowledge, mark_read, delete, expire, archive | check and update in two locks; sweeps with an old clock; archive against delete |
| Protocol `core/ipc/protocol.py` | none | builds requests, responses, broadcasts | none of its own |
| Subagent registry `core/workers/` | table `subagents`, context files per worker, callbacks in memory | register, update_status, complete, delete, serialize_state, resume | completion reported by callbacks after the commit; files written one after another; status before context in resume |
| Delegation chains `core/integration/` | tables `chains`, `hops`; a chain object in every process | create, delegate, spawn_worker, complete_worker, propagate_result, fail_chain | whole-record saves of stale copies; request sent before its hop is recorded |
| Gateway `integrations/hermes/gateway_hook.py`, `ipc_listener.py` | one listener thread, deduplication sets in memory, hook threads | handle request, handle response, forward, deliver | every exception swallowed and the message acknowledged; hook thread against dispatcher |
| Delivery dispatcher `integrations/hermes/delivery.py` | directory of JSON files | pass over the queue, mark | torn files, retries from a stale list |
| Worker bridge `integrations/hermes/worker_bridge.py` | agent subprocess and its pipes | spawn, complete, fail, invoke_agent | select, blocking reads and the watchdog; children that inherit the pipes |
| Profile registry `core/registry/` | tables `profiles`, `onboarding_briefs` | create, update, reassign, delete, suspend, activate, submit brief; integrity scan, organisation chart | validation and write in different locks; what the scan misses |
| Memory `core/memory/` | tables of entries with tiers, transitions and budgets | store, get, update, delete, transition, garbage collection | check-then-update; budgets enforced from stale readings |
| Knowledge base and context manager `core/memory/` | table of entries; none | add, update, delete, search; build a brief within a budget | sections read one by one; arithmetic of the cut |
| Activation and routing `integrations/hermes/activation.py`, `message_router.py`, `ui/api/gateways.py`, `ui/api/setup.py` | pid files, processes | activate, deactivate, route, start, stop | check-then-launch; files that name the dead or a stranger |
| Hierarchy tools `tools/hierarchy_tools.py` | none of their own | the tool calls of an agent | partial chains with a raw fall-back; an inbox acknowledged while it is read |
| Claude Code bridge `integrations/claude_code/` | task and response files | prepare a session, import its results | crash between send and unlink; two consumers of one message |
| Summarization `integrations/hermes/summarization.py` | none | run from managers to heads to the CEO's report | rows and inboxes that change between its stages |
| Real-time UI `ui/realtime/` | high-water marks, ring buffer, sockets | poll databases, publish | rows committed late, history against live events |
| UI and dashboard API, CLI, profile bridge, templates, scripts | none | read, format, call the parts above | none of their own |

How they interact: a tool call creates a chain (chains) and sends one request
per hop (bus). The gateway of each hop's profile polls its messages, loads the
chain, registers a worker, runs an agent (worker bridge), records the result
in the chain, propagates it over the recorded hops, answers the sender and
acknowledges the request. Responses that reach a gateway with a parent are
forwarded to the parent's gateway; the gateway of the root writes them to the
delivery queue and calls a hook, and the dispatcher, a separate process,
retries what is not marked. The profile registry is what every part asks for
parents and roles.

An agent also reads the memories of those above it and the shared knowledge,
is given a brief of both when it starts, and may take messages from its inbox
itself or through a Claude Code session, beside the listener. The UI shows all of
it live.

Correctness, part by part: no message is lost or handled again after it is
settled; a worker is reported, keeps its result and resumes from a consistent
context; a chain's way back has no gap, its results are real, and the
originator is answered; what reaches the owner is on file, told, and not told
needlessly; the hierarchy is a forest under the CEO; a memory
entry grows cold no earlier than its age allows, is purged only when old, in
order and when the budget asks for it; a profile is served by one gateway; a
message taken by several consumers is not lost and not answered more often
than it was worked on; an agent's process is ended and its result is real; an
agent is told what its ancestors know and nobody else's memory, within the
budget; the CEO's report is fed from below; what happens is shown.

## 2. The modules

| Module | Models | Extends or uses |
|--------|--------|-----------------|
| `Mailbox` | what the bus promises about one message: unsent, queued, settled, retired | |
| `MessageBus` | the bus and its cleanup, statement by statement | implements `Mailbox` |
| `SubagentRegistry` | the worker registry, its context files, resume | |
| `Delegation` | one chain, its originator and a gateway per hop | `Mailbox` for the requests |
| `Delivery` | responses from the gateways to the owner | `Mailbox` for the messages |
| `ProfileRegistry` | the profiles and the hierarchy | |
| `Integrity` | the integrity scan, the chain of command and the chart, as operators | extends `ProfileRegistry` |
| `Memory` | one profile's memory: tiers, collector, budget | |
| `Gateways` | who launches and stops the gateway processes of a profile | |
| `Inbox` | the consumers of one tracked message and its raw fall-back | |
| `AgentRun` | one worker, its agent's process and its pipes | |
| `LiveView` | the watcher, the event bus and the WebSocket server | |
| `Org` | rows of the registry that change under their readers | |
| `Summaries` | the summarization pipeline | extends `Org` |
| `Briefs` | knowledge base, context manager and the tools that read upwards | extends `Org` |
| `Briefing` | the two directions over one organisation | composes `Summaries` and `Briefs` |
| `MessageBusProofs` | theorems on the bus and on the gateway processes | extends `MessageBus`, `Gateways` |
| `SubagentRegistryProofs` | theorems on the registry and on the agent's call | extends `SubagentRegistry`, `AgentRun` |
| `DelegationProofs` | theorems on a chain and on the live view | extends `Delegation`, `LiveView` |
| `ProfileRegistryProofs` | theorems on the registry and on the scan | extends `Integrity` |
| `DeliveryProofs`, `MemoryProofs`, `InboxProofs`, `BriefingProofs` | theorems | the module each is named after |
| `...MC` | constants for TLC | the module each is named after |

The gateway is seen from four sides: `Delegation` has its handling of
TASK_REQUEST messages along one chain, `Delivery` that of TASK_RESPONSE
messages, `Inbox` its threads, restarts and rivals for one message, and
`AgentRun` the execution of a task. `Delegation` and `Delivery` take the bus as
`Mailbox`, which `MessageBusProofs` shows to be implemented by `MessageBus`;
`Inbox` takes a message as pending or settled, which is `Mailbox` without
expiry. Three modules are proved about beside another one and therefore name
their specification for themselves: `GatewaySpec`, `RunSpec`, `ViewSpec` and,
like these, what they are made of. Each module states its `TypeOK`; the runs
leave it out and give what they check to the properties below, and the proofs
establish it.

**Mailbox and MessageBus.** `active` and `archived` are the two tables,
`status` and `expires` the columns. A client is a thread of control; its `pc`
stands between two locked statements of one call, `arg` and `stamp` hold what
the call read earlier (the message, the clock). `SendStart`/`SendInsert`,
`Target`/`Validate`/`Update` (acknowledge and mark_read through
`_transition_status`), `DeleteCheck`/`DeleteRow`, `ExpireStart`/`ExpireRows`
and `ArchiveRows` are the statements of the code in their order. `Crash` drops
a call between two of them. A poll reads the clock (`PollStart`) before it
takes the lock for its select (`PollRows`); `Answer` is what that finds, with
`include_expired` also what has expired. What is sent, settled or removed in
between makes the two differ. The definitions named `...Misnamed`, `...Any`,
`...Late` and the like, each with a comment that begins with "Fault", are not
part of the specifications: they are the altered definitions that show each
property to depend on the code.

**SubagentRegistry.** A worker's row, two of its context files, session and
metadata (each with the save that wrote it, or torn), and clients whose calls
are at a step. `complete` commits, reads back and calls the callbacks (`Report`);
`serialize_state` and `save_session` truncate and write file after file and skip
what they are not given (`SaveStart`, `SaveSession`, `SaveMetadataOpen`,
`SaveMetadata`); nothing keeps two of them apart, and two that overlap may leave
a file with a mixture of their texts (`Written`). `resume` validates and
changes the status (`ResumeCheck`, `ResumeWrite`) and then loads
(`LoadMetadata`, `LoadSession`, `ResumeReturn`). `drift` is history: how the two
files of a worker may stand to each other.

**Delegation.** `store` is the row of the chain and its hops, `mem[p]` the
chain object of process p. `SendRequest` and `RecordHop` are the two halves of
`ChainOrchestrator.delegate`; `LoadRow` and `LoadHops` the two SELECTs of
`ChainStore.get`; `Spawn`, `Link`, `Execute`, `CompleteWorker`, `Collect`,
`Propagate`, `Close`, `Answer`, `Acknowledge` the gateway's handling of a
request, with `PropagateError` and `CloseFailed` for `fail_chain`. `Raise` is
a failing statement at each step and goes where the code's except clauses go;
`Crash` loses the process's memory, and the request is polled again.

**Delivery.** `Forward` and `Acknowledge` are the gateways on the way up. At
the root, `StartFile`/`FinishFile` write the audit file (torn in between),
`Filter` is the three-layer deduplication and `HookSucceeds`, `StartMark`,
`FinishMark` the hook thread. `GetPending`, `Read`, `DispatchSucceeds`,
`StartMarkDelivered`, `FinishMarkDelivered` are the dispatcher. The root's
memory of what it delivered is lost in `CrashGateway`.

**ProfileRegistry.** `role`, `parent`, `status` and `brief` are the columns. A
call has read `old`, is to write `new`, and climbs (`at`, `seen`) when it
checks for a cycle, one row per step. `UpdateProfile` is the start of
update_profile, in which reassign, delete, suspend, activate and the
submission of a brief end; `Write` is its UPDATE, which names only the fields
that were given. `roleChanged` and `overlapped` are history: whether a role
was ever written, and whether two calls that move a profile or change a role
were ever in progress together.

**Memory.** `tier`, `byte_size` and `budget` are columns of the code's tables,
`trail` the recorded transitions of an entry. Times are orders: entries are
numbered by `created_at`, `later[e]` holds the entries accessed after e, and
`age[e]` is the tier that the thresholds in days allow (`GrowOlder`). A
collector's pass `gc[c]` assesses all entries (`Assess`), applies what it
planned, each move in the two locked blocks of `transition_tier`
(`BeginMove`, `FinishMove`, or `FailMove`), and then either ends
(`EndCommand`: the run-gc command does no more) or enforces the budget:
`ReadLimits` and `ReadUsage` are the blocks of `check_budget`,
`ListCandidates`, `Purge`, `FailPurge` and `NextTier` the loops of
`enforce_budget` over the tiers and their candidates. Several passes, and the
agent's calls, run over one database from different processes. `overtaken`
and `alone` are history: which entries had their tier written over a newer
one, and whether anyone else changed the rows since a pass read the limits.

**Integrity.** The rules of `scan_integrity` are sets of issues, `Chain` the
walk of `get_chain_of_command`, `render_org_chart` the set of profiles that a
chart shows. The scan and the chart take one SELECT of the table and so are
operators on a state of `ProfileRegistry`: whatever hierarchy the racing calls
produce, the scan is evaluated on it. `get_chain_of_command` reads one row per
query; `Chain` is what it finds while nobody changes the table, as the scan's
own climb over its copy of the rows does, and `Briefs` has the walk among
changes. Two facts about the chart are not stated: without a
root it starts from the CEO that comes first by name, which may be an archived
one, and with active profiles only that chart is empty.

**Gateways.** `proc` is the process table: what runs under an id, whose child
it is, whether it was told to stop. `pidFile` is the file, torn while it is
written; `entry[a]` is `_active_gateways` in an agent's process: a child's id,
or `Stub` for somebody else's gateway. `RouteStart`, `CheckFile`, `Probe`,
`UnlinkStale`, `Launch`, `RecordOpen`, `RecordWrite` and `Send` are the steps of
`activate_profile` and of the send that follows whatever it returned;
`DeactivateKill`, `DeactivateUnlink`, `DeactivateStub` and `Shutdown` undo it,
`Console...` are the buttons of the UI, which record nothing. `linked` says
that a writer has the file open that still has a name: unlinking it under the
writer loses the record. `raced` is history.

**Inbox.** `send_to_profile` sends a tracked message down the chain
(`ChainSend`), and if that fails sends it raw (`RawSend`), so that there can be
two messages for one task. They are taken by the threads of a listener that is
stopped and started (`Poll`, `Handle`, `Acknowledge`, `LoopExit`), by
`ProcessOnce`, by `check_inbox` message by message (`InboxTake`) and by the
files of a Claude Code session (`ExportOpen`, `ExportWrite`, `Work`, `Report`,
then `ImportRead`, `ImportSend`, `ImportUnlink`). `tries` counts how often
somebody set out to execute the task, `replies` the responses: a gateway sends
one for an execution that succeeded and one for an execution or completion that
failed, but none when even that raises (`Handle`). A handler that never returns
is not part of the module; `AgentRun` has it.

**AgentRun.** A pipe holds `pipe[s]` characters of what the agent wrote,
`ahead[s]` are those that Python's text stream has fetched without having
returned them, `open[s]` are the processes that hold its writing end: the agent
and a child that inherits it. `Select`, `ReadReturns`, `ReadFetches` and
`ReadEnds` are a select and the read that follows, `CheckIdle` the watchdog,
`DrainTakes`, `DrainEnds` and `DrainTimesOut` the communicate after it;
`ReadRaises` is output that cannot be decoded, after which the agent is left
running; `Complete`, `CompleteLate`, `Fail` and `Respond` are what the callers
make of the end of the call.
Text streams read ahead, so a result may lack the last piece that was fetched,
less than one chunk. The tool `spawn_tracked_worker` names a status that does
not exist when it fails (`hierarchy_tools.py:775`), so its worker stays
running.

**LiveView.** `ReadMessages`/`PublishMessage`, `ReadWorkers`/`PublishWorker` and
`ReadGateway`/`PublishGateway` are the three checks of the watcher, each of which
reads first and publishes event by event; `OnEvent` hands an event to the
server's thread, `BroadcastStart` and `BroadcastSend` deliver it to the
connections it finds, `AddConnection` and `SendHistory` admit a client.
A message takes its time (`Stamp`) before it is committed (`Commit`). Rows of
messages are only ever added: what is deleted or archived before the watcher
polls is never shown, by the code as well. Each client connects once.

**Org, Summaries, Briefs, Briefing.** The rows of the registry change at any
time (`OrgChanges`), by the writes that `ProfileRegistry` takes apart.
`Summaries` is one run of the pipeline: a stage lists its profiles (`List`),
each author's row is read again (`Begin`), its reports and messages are read
(`ReadReports`, `ReadMessages`) and the summary is sent or the daily report
made. A summary is the set of profiles it speaks of. The summaries are task
requests without a task, which a gateway marks read and skips (`Consume`).
`Briefs` is what an agent reads: the walk up, one row per step (`Climb`), the
stores of the ancestors one after another (`ReadAncestors`), the knowledge base
in the order of its updates, the sections of an activation or task brief (with
what a manager adds to a task, `Given`), and their cut (`Cut`). Sections are
lengths. `Look` keeps the code's habit of remembering that a profile has no
memory database, for the life of the process.
In `Briefing` a behaviour has the pipeline or the agent (`side`), since neither
reads what the other writes.

## 3. What is checked

| Run | Result | Shows |
|-----|--------|-------|
| `MessageBus` | passes | `Conservation`: a sent message is in exactly one table or was deleted by a call. `OnlyOverdueExpires`: no message is expired before its time. `Lifecycle`: which status a write may replace. `NeverOfferedAgain`: what was settled, removed or (but for `include_expired`) expired when a poll was called is not in its answer, though its select comes later than its reading of the clock. `MailboxSpec`: the bus implements `Mailbox` |
| `SubagentRegistry` | passes | `Reporting`, `ArchivedWasFinished`, `ResultKept`, `NeverReturns`, `ContextConsistent`: how far a resume may trust files that nothing protects. After whole saves the session and the metadata it returns are of one save, unless a save is going on or they are rewritten while they are read; after one that died half way, or saved the session alone, the session is newer than the metadata and never older. After a save of the metadata alone, or two that overlapped, nothing is promised. The code notices none of these mixtures: `resume` fails only on a missing or torn file |
| `Delegation` | passes | `ReturnPath`, `ResultsAreReal`, `CompletedIsWhole` and, without faults, `OriginatorAnswered` |
| `Delivery` | passes | `Audited`, `MarkedWasTold`, `CallsDiffer`, `OwnerHears` |
| `ProfileRegistry` | passes | `ForestUnlessRaced`; `RanksOrdered`: everybody reports to a higher role while no role changes (nothing looks at the children of a profile whose role changes; `ScanExact` covers what results); `BriefBeforeActive`; `ScanExact`: the scan is clean exactly when there is a forest under one CEO with ranks in order and nobody lives under the archived, and then the chart leaves nobody out |
| `Memory` | passes | `AgedEnough`; `TrailExplainsTier`: the transitions on record lead from hot to the tier, unless a pass wrote over a newer tier; `EntriesWithinBudget`; `PurgesOnlyOld`: never hot or warm; `PurgeOrder`; `NoOverPurge`: nothing is deleted once the budget is met |
| `Gateways` | passes | `EntryIsChild`: no agent signals or trusts a stranger; `OneGateway`: two gateways take a race, a launch without a record, or a record removed under a live gateway |
| `Inbox` | passes | `NoneLost`: what is settled was handled, or is shown to the agent, or was lost by an inbox call that failed; `RepliesEarned`: no more responses, results and errors together, than attempts to execute the task, except for a result file that was read twice; `Served`: with a listener left running every message is settled |
| `AgentRun` | passes | `ResultIsReal`: a result is that of a process that ended with code 0, complete but for less than one chunk, and the originator is told what the row says; `Ends`: a call ends or waits in a read that somebody can still complete |
| `AgentRunIdle` | violated | `IdleEndsCall`, the docstring of `invoke_agent`: an agent that wrote a few characters and falls silent is not noticed |
| `LiveView` | passes | `NothingMissed`: no event falls between the history and the live events; `Seen`: what is committed in the order of its times is shown, and a worker's last state |
| `Briefing` | passes | `Reported`: the report is fed from below; `ToldByAncestors`: whose memories an agent is told, as long as one profile at most moves meanwhile (with two the walk may see a chain that never was); `BriefFits` |

`AgentRunIdle` checks what a docstring of the repository says of the program;
PROJECT.json quotes the line under "findings". In these places, too, the
models differ from a comment or a document; the properties above say what does
hold there:

- `ipc/models.py:48-49` calls read and expired terminal; an acknowledgement that
  checked earlier sets them back to delivered, and `Lifecycle` lists exactly
  these late writes.
- `workers/resume.py:79-86` gives the change of status as the last step of a
  resume; it comes first, so a load that fails leaves the worker running
  (`ResumeWrite`).
- `README.md:322`, "Nothing gets lost in the middle": a stale copy saved last can
  leave a chain active for ever (`Persist` in `Delegation`).
- `gateway_hook.py:980`, "Deliver only the first one per task": what the
  deduplication withholds is on file, and the dispatcher delivers it; `CallsDiffer`
  is about the gateway's own calls.
- `README.md:320`, "Circular references are prevented": two demotions that also
  move, each validated before the other is written, close a cycle;
  `ForestUnlessRaced` has this as its exception and `ScanExact` finds it.
- `garbage_collector.py:220-221`, "satisfy both the entry and byte constraints":
  when only the bytes are exceeded, each tier yields one entry and the pass ends
  over the limit; `EntriesWithinBudget` is about the entries.
- `memory/context_manager.py:368`, "Maximum allowed token budget": the mark that is
  put behind a section that was cut is not counted, so a brief may take three
  tokens more; `BriefFits` allows for exactly these.
- `ui/realtime/db_watcher.py:22`, "new messages, status changes": only new messages
  are looked for.
- `gateway_hook.py:685-687`, a response "is always sent": not when recording the
  failure raises (`Handle` in `Inbox`, `Fail` in `AgentRun`).

**Bounds, and why they are enough.**

- MessageBus: two messages, three clients, times to live never, 0 and 1, a
  clock up to 3. The races are between two calls about one message and a third
  one that sweeps; the second message makes a sweep touch several rows. A
  clock of 3 leaves a sweep that read the time early, with later ones after it.
- SubagentRegistry: one worker, as no operation looks at two of them, three
  clients, two results, two saves, whole or partial, one after the other or
  overlapping: two saves are what a mixture needs, the third client reads it.
- Delegation: two hops, which is where two gateways have copies of one chain,
  three workers so that a request which is handled again gets a new one, and
  one crash or failing statement anywhere.
- Delivery: a parent and a root; four messages, two files; two responses
  without a fault or one with a fault (`Budgets`); four payloads: one task
  answered twice, a propagated result with the same content and no task, and
  a trivial content.
- ProfileRegistry: the CEO and two more profiles, two clients, `MaxCalls` = 5
  calls: two creations, two updates that race, and one more. Updates demote,
  promote to CEO and move; three profiles allow for cycles of one and two.

- Memory: two entries of size 1 or 3, two passes at a time and three in all,
  one call of the agent besides the stores, budgets that either the entries or
  the bytes exceed, a listing of two rows. The races are between two passes
  about one entry, the third pass is the one that finds the tier of an
  overtaken write; two entries make an order of purges, and the run takes
  about two minutes with them. The listing's cut-off (`Page`, 200 in the
  code) does not bite at two entries: `PurgeOrder` states the exception for
  longer listings but the run does not reach it. Ages grow in the order of creation, as they do
  by the clock. Content updates, reads and deletions come at any point of a
  pass.

- Gateways: two agents, one console, three process ids: enough for two gateways
  and a stranger, with every id reused.
- Inbox: two threads, which is what one stop that gave up leaves, two importers,
  two messages (the tracked one and its fall-back), one fault, two calls of the
  tools (`MaxCalls`). Counters stop at `MaxCount`, more than a behaviour with one
  fault and two calls needs to tell the cases apart.
- AgentRun: a read of 2, a chunk of 3, a pipe of 3 and 4 characters per stream
  (`MaxOut`) stand for 4096, 8192 and 65536: reads that end short, fill, or block,
  chunks that fetch more than is asked for, and pipes that fill are all reached.
- LiveView: two messages, two workers of which one is listed (`Newest`), one event
  kept (`Recent`), one client, who connects once and may leave, times 0 and 1.
- Briefing: the CEO, a head and two managers, a task given no context, a little
  or too much (`Given`), two changes (of rows, memories or
  knowledge, `MaxChanges`) during a run or a call, sections of a few pieces with
  lengths that are no multiple of a token.

`CHECK_DEADLOCK FALSE` is set where the system may stop: all requests are
handled, all workers are gone, a call has ended, or the bound on calls is
reached.

**Fairness.** `Delegation` assumes weak fairness of the originator's tool call
and of each gateway: the call runs to its end, the listener thread polls for
ever, and every agent process ends, by itself or killed by the watchdog of
`invoke_agent`. `AgentRun` shows how far the last is the code's doing: `Ends`
holds for agents that stop writing, except while a read waits for an agent, or a
child of it, that keeps its pipe open, which is what `AgentRunIdle` finds; so
for `Delegation` it remains an assumption about the environment.
`Delivery` assumes weak fairness of the listener
loops and of the dispatcher's loop, which sleep and go on after any exception,
and strong fairness of a successful hook call per file: a call that is tried
again and again works in the end. Nothing is assumed of hook threads, agents or
faults. `Inbox` assumes weak fairness of each listener thread, in which a handler
returns (an agent that hangs in a read blocks the loop, which is the case that
`AgentRun` isolates), and nothing of the tools, of sessions or of whoever starts and stops the listener. `AgentRun`
assumes it of the watching thread and of time; an agent may hang at any point.
`LiveView` assumes it of the watcher's thread, whose loop goes on after any
exception, and nothing of the server's. The safety properties need none of this.

## 4. What is proved

Every theorem holds for all values of the constants under the assumptions named
in the modules: identifiers differ from their "none" values (no text of an agent
is `Nothing`), bounds, sizes and counts are natural numbers (`MaxInbox` in
`Briefing`, the sizes in `AgentRun`), enumerated inputs have the right shape,
some memories of each ancestor are read (`NotesEach` is not 0), and in `Org`
there are finitely many profiles, who at first report to a higher rank; the
watcher's worker rows are finitely many. Each proof has one inductive invariant,
which TLC has checked on the module's run, and one lemma per action that may
disturb it; the action properties follow from it step by step.

- **The bus, in MessageBusProofs.** `Invariance` has as inductive invariant the
  type invariant, `Conservation` and `OnlyOverdueExpires`, strengthened by what a
  client's clock and argument may be; `LifecycleHolds` follows
  from it step by step. `NeverOfferedAgain` is inductive together with what a
  poll in progress knows: what it came too late for was sent, and has left the
  table, is no longer pending, or expires no later than the clock that the poll
  has read (`InFlight`). And `BusImplementsMailbox` maps every step of
  the bus to a step of `Mailbox` or a stutter: an acknowledgement that lost a
  race to an expiry maps to a stutter because the message was settled already.
- **DelegationProofs, the chain.** `ReturnPath`, `ResultsAreReal` and
  `CompletedIsWhole` are not inductive. The strengthening says what a process in
  the middle of an action knows: a request whose hop is not yet recorded has
  been sent, and no other hop is ahead of it (`SentBeforeRecorded`); the worker
  of a gateway is registered, and completed from the moment it collects
  (`WorkersKnown`); a chain that a gateway works on is not closed in its copy
  (`OpenWhileWorking`); and the loops over the hops work on recorded ones
  (`LoopsOverHops`).
- **ProfileRegistryProofs.** The invariant says what each call in progress
  knows: the row it read is current unless a role changed or calls overlapped
  (`OldRow`), role and parent fit (`ValidRow`, `Creating`), and what it climbed
  is closed under parents and does not contain its profile (`Walked`). Then
  `MoveNoCycles` shows the write to close no cycle, and `RankedNoCycles` that
  ranks alone exclude cycles while no role changes. `ScanExact` needs none of
  this: `ScanIsExact` shows it of every table in which parents have rows and
  that is finite (each row was created by a call, `FinitelyMany`). What the walk
  computes is found along its steps (`UpClimbs`), it ends because it would
  otherwise have been at more profiles than there are (`ClimbEnds`), and what
  comes out leads from profile to parent without repeating itself
  (`ChainLeads`). A clean scan then is five facts about rows and their parents
  (`Sound`), from which the chain of command is climbed (`SoundChain`) and the
  chart climbed down (`ChartShows`, `ChartHides`).
- **MemoryProofs.** The invariant says what the readings of a pass still tell,
  however stale they are (`PassOK`): a planned move leads to a tier that the
  entry is old enough for (`Due`), since ages only grow and no identifier is
  used twice; a move under way is one step; a candidate for a purge is cool or
  cold unless an overtaken write has warmed it (`Old`). With the types of the
  rows (`RowsOK`) that makes `AgedEnough` and `TrailExplainsTier` inductive,
  and `PurgesOnlyOld` follows. For the budget, `BudgetInv` says what a pass
  knows as long as nobody disturbs it: its counters are the excess that is left
  (`Tallies`), it turns to the cool tier only when nothing cold is left or only
  bytes are over (`Counted`), and its candidates are the whole tier or as many
  as it was after, the least recently accessed ones (`Chosen`). That the listing
  and the choice find enough (`PurgeableRight`), and that the sum of the sizes
  shrinks by what is deleted (`SumWithout`), are facts about finite sets of any
  size; a smallest counterexample (`SmallestSet`, from the well-foundedness of
  set inclusion) takes the place of an induction. `PurgeOrder` is so proved for
  listings that are cut off, which its run does not reach.
- **Gateways, in MessageBusProofs.** `EntryIsChild` is inductive together with
  the same fact for a process that is launched and not yet in the table (`Own`):
  a launch reaps only corpses that nobody holds, and nobody but its parent reaps
  a corpse. `OneGateway` needs what a client knows inside its window (`Knows`):
  from the moment the file is found missing or stale nothing serves, afterwards
  nothing but what the client has launched; and outside every window what serves
  is on record (`OnRecord`). All of it may fail once `raced` is set, which is
  never reset.
- **SubagentRegistryProofs, the registry.** The invariant says what a call in
  progress is about to do: the write it has decided on fits its column
  (`Writing`), a worker it will archive has been completed (`Archiving`), and what
  it will report is committed (`Pending`). About the rows it says that a worker
  that is done was completed (`Done`), and about the files that they are of saves
  that were begun (`FilesOK`, `Loaded`). For `ContextConsistent` a second invariant
  (`Tidy`) says, for every value of `drift`, how the two files and what the
  savers and loaders in progress hold are ordered (`Alone`, `Behind`): it is what a
  crash, a partial save or an overlap takes away piece by piece. `Reporting`, `ArchivedWasFinished`,
  `ResultKept` and `ContextConsistent` follow; `NeverReturns` needs no
  invariant.
- **DeliveryProofs.** `Audited`, `MarkedWasTold` and `CallsDiffer` need what a
  process knows between its statements: a gateway handles its own messages
  (`Listening`), so no two acknowledge the same one; before the root
  acknowledges a response it has filed or suppressed it (`Filing`); a file that
  anybody uses is not given to another response (`UsedExist`); whoever is about
  to mark a file has called the hook for it (`Marking`); and what the hook was
  called for is remembered by all three layers (`CallsRemembered`).
- **InboxProofs.** `NoneLost` needs that what a thread will acknowledge has been
  handled (`HandsHandled`), and the type invariant that whoever writes or sends
  a file has one (`FilesHeld`). `RepliesEarned` is an account (`Account`): the
  replies, and those that a session or a file still owes (`Due`), are no more
  than the attempts, as long as no two importers hold the same file (`Apart`)
  and until one result is sent twice. Attempts are counted up to `MaxCount`,
  so the account is about the time before.
- **AgentRun, in SubagentRegistryProofs.** `ResultIsReal` follows from an account
  of the characters: what was returned, fetched ahead and is still in the pipe is
  what was written (`Flow`), and what is fetched ahead is less than a chunk except
  inside a read, or after one that raised; and from what each step of the call knows of the agent and of
  the row (`CallKnows`): from the step that completes the worker on, the agent
  has ended with code 0, its pipes are empty and nobody holds them (`AgentDone`).
- **LiveView, in DelegationProofs.** `NothingMissed` is inductive with the
  types of the bus and the server, and that an open client is one of the
  connections (`ServerTypeOK`): whoever is added before an event is in the list
  that its broadcast copies, and the history has the events before. For the types
  of the rest (`LiveViewTypeCorrect`), what is committed has its time
  (`WorldTyped`) and what a check has found is of its kind (`WatcherTyped`).
- **BriefingProofs.** The two directions share the organisation, in which the
  CEOs are those without a parent and nobody is above himself (`OrgInv`,
  `Acyclic`). What `Above` computes level by level is the smallest set that is
  closed under parents (`AboveIs`): the levels grow until they are, or hold
  everybody. For `Reported` the invariant says, of those that nothing has
  happened to, whose turn has come (`TurnInv`), that their row as it was read is
  current (`AuthorInv`), and that what they sent is received and counted
  (`CountInv`). For `ToldByAncestors` it follows the walk (`ClimbInv`): it stays
  among those that were above the caller, and has everybody who was there
  throughout behind or ahead of it, which one move cannot break
  (`WalkSurvives`) and a second one can. `BriefFits` is about the cut, whose
  folds over the sections are written out (`TotalIs`, `CutIs`); each section
  keeps to what is left of the budget (`CutStepFits`).

Only model-checked: the liveness properties (`OriginatorAnswered`, `OwnerHears`,
`Served`, `Ends`, `Seen`), since the prover handles neither fairness nor
ENABLED; and the violated run, which is a counterexample. Every invariant and
every safety property of a step that a run checks is also a theorem. Functions
defined by recursion (the walks, the layers of the chart, those above) are
proved about by a lemma that computes them number by number (`Computable`)
and one that finds a property along them (`UpTo`), which stand in for induction.

## 5. What is not modelled, and why

- Reads that format: lists, statistics, the UI and dashboard API, most of the
  CLI, the tools for status and onboarding (which call operations of
  `ProfileRegistry`). They keep no state; what they show is a SELECT.
- Text generation: prompts, profile documents, templates, the wording of
  summaries and briefs, the memory and profile adapters of the Claude Code
  bridge; `extract_learnings` matches text. One-off scripts.
- The branches of the gateway for a lookup of a parent or of a role that raises
  (`gateway_hook.py:449`, `:885`): `Delivery` takes the hierarchy as known.
- The section on active workers of a brief: `SubagentRegistry` has no
  `list_active`, the call fails and the section is always empty. The context
  manager itself is built in tests only; `Briefs` models it as a caller would
  use it.
- What `LiveView` leaves out, above; a `get_chain_of_command` that is torn by
  writes, outside `Briefs`.
- A second listener thread beside the first in `Delivery`: there the check and
  the note of the deduplication (`gateway_hook.py:981-1014`) are one step, as with
  one thread they are. `Inbox` shows that a listener that was stopped and started
  may have two, and two that handle two responses for one task at once may both
  pass the check.
- In-process gateways and a worker bridge with a chain orchestrator, which only
  tests use.
- The documents name a memory bridge that the repository has no source for.
