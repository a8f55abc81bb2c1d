-------------------------- MODULE SubagentRegistry --------------------------
(***************************************************************************)
(* The registry of worker subagents (core/workers/subagent_registry.py),   *)
(* the state files of a worker (core/workers/serialization.py) and the     *)
(* resumption of a sleeping worker from both (core/workers/resume.py).     *)
(* The registry takes its lock once per statement, so a call that reads a  *)
(* row, decides and writes is several steps, with other threads and        *)
(* processes in between.  Writing a file truncates it first: a reader, or  *)
(* a crash, may find it torn.                                              *)
(*                                                                         *)
(* One project manager's database.  Left out: token costs and artifacts,   *)
(* listing and statistics, config.json, written and read between the two   *)
(* files modelled and in the same way, and summary.md, written and read    *)
(* last.                                                                   *)
(***************************************************************************)
EXTENDS Integers

CONSTANTS
    Worker,       \* subagent identifiers
    NoWorker,     \* "no worker", for a client that is not using one
    Client,       \* the threads of control that call the registry
    Results,      \* the result summaries a worker may end with
    NoResult,     \* result_summary IS NULL
    MaxSaves      \* bound: how often the state of a worker is saved

ASSUME NoWorkerAssumption == NoWorker \notin Worker
ASSUME NoResultAssumption == NoResult \notin Results
ASSUME MaxSavesAssumption == MaxSaves \in Nat

VARIABLES
    rows,         \* the rows of table subagents
    status,       \* status[w], the column of the row
    result,       \* result[w], the result_summary column
    saves,        \* saves[w], how often a save of w's state has begun
    session,      \* session[w], the save found in session.json
    metadata,     \* metadata[w], the save found in metadata.json
    pc,           \* pc[c], the step client c takes next
    arg,          \* arg[c], the worker client c's call is about
    value,        \* value[c], the status or result client c's call will write
    context,      \* context[c], the save client c writes, or whose metadata it read
    issued,       \* history: the identifiers given out
    finished,     \* history: the workers whose row has been completed
    recorded,     \* history: <<w, r>>, result r was committed for w
    reported,     \* history: <<w, r>>, the completion callbacks were called
    lost,         \* history: <<w, r>>, the call died or raised before calling them
    drift         \* history: drift[w], how w's two files may stand to each other

table == <<rows, status, result>>
files == <<saves, session, metadata>>
client == <<pc, arg, value, context>>
history == <<issued, finished, recorded, reported, lost, drift>>
vars == <<rows, status, result, saves, session, metadata, pc, arg, value,
          context, issued, finished, recorded, reported, lost, drift>>

Statuses == {"running", "sleeping", "completed", "archived"}

\* A file holds the save of that number, no save yet, or a torn one.
Absent == 0
Torn == -1
Saves == 0..MaxSaves
Contents == Saves \cup {Torn}

\* What the saves of a worker were since its files last were of one save:
\* none; only of session.json, or broken off; also of metadata.json alone;
\* and "raced" for good once two of them overlapped.
Drifts == {"same", "ahead", "either", "raced"}

SaveSteps == {"saving_session", "saved_session", "saving_metadata", "saving_metadata_only"}
LoadSteps == {"loading_metadata", "loading_session"}
Steps == {"idle", "updating", "resuming", "completing", "reporting", "deleting", "resumed"}
            \cup SaveSteps \cup LoadSteps

TypeOK ==
    /\ rows \subseteq issued /\ issued \subseteq Worker
    /\ finished \subseteq issued
    /\ status \in [Worker -> Statuses]
    /\ result \in [Worker -> Results \cup {NoResult}]
    /\ saves \in [Worker -> Saves]
    /\ session \in [Worker -> Contents]
    /\ metadata \in [Worker -> Contents]
    /\ pc \in [Client -> Steps]
    /\ arg \in [Client -> Worker \cup {NoWorker}]
    /\ value \in [Client -> Statuses \cup Results \cup {NoResult}]
    /\ context \in [Client -> Saves]
    /\ recorded \subseteq Worker \X Results
    /\ reported \subseteq Worker \X Results
    /\ lost \subseteq Worker \X Results
    /\ drift \in [Worker -> Drifts]

Init ==
    /\ rows = {}
    /\ status = [w \in Worker |-> "running"]
    /\ result = [w \in Worker |-> NoResult]
    /\ saves = [w \in Worker |-> 0]
    /\ session = [w \in Worker |-> Absent]
    /\ metadata = [w \in Worker |-> Absent]
    /\ pc = [c \in Client |-> "idle"]
    /\ arg = [c \in Client |-> NoWorker]
    /\ value = [c \in Client |-> NoResult]
    /\ context = [c \in Client |-> Absent]
    /\ issued = {}
    /\ finished = {}
    /\ recorded = {}
    /\ reported = {}
    /\ lost = {}
    /\ drift = [w \in Worker |-> "same"]

-----------------------------------------------------------------------------

\* VALID_TRANSITIONS
Transitions ==
    [running   |-> {"sleeping", "completed"},
     sleeping  |-> {"running"},
     completed |-> {"archived"},
     archived  |-> {}]

\* Client c begins a call about worker w that goes on to step p, with value
\* v, or with the save n, to write.
BeginWith(c, p, w, v, n) ==
    /\ pc[c] = "idle"
    /\ pc' = [pc EXCEPT ![c] = p]
    /\ arg' = [arg EXCEPT ![c] = w]
    /\ value' = [value EXCEPT ![c] = v]
    /\ context' = [context EXCEPT ![c] = n]

Begin(c, p, w, v) == BeginWith(c, p, w, v, Absent)

Goto(c, p) ==
    /\ pc' = [pc EXCEPT ![c] = p]
    /\ UNCHANGED <<arg, value, context>>

\* The call returns or raises.
Return(c) ==
    /\ pc' = [pc EXCEPT ![c] = "idle"]
    /\ arg' = [arg EXCEPT ![c] = NoWorker]
    /\ value' = [value EXCEPT ![c] = NoResult]
    /\ context' = [context EXCEPT ![c] = Absent]

-----------------------------------------------------------------------------
(* Registering, changing the status and deleting. *)

\* register: a new identifier, one insert, and the get of the new row.
Register(w) ==
    /\ w \notin issued
    /\ rows' = rows \cup {w}
    /\ issued' = issued \cup {w}
    /\ status' = [status EXCEPT ![w] = "running"]
    /\ result' = [result EXCEPT ![w] = NoResult]
    /\ UNCHANGED <<files, client, finished, recorded, reported, lost, drift>>

\* Fault: the transition is not validated.
UpdateCheckAny(c, w, target) ==
    /\ w \in rows
    /\ Begin(c, "updating", w, target)
    /\ UNCHANGED <<table, files, history>>

\* update_status (sleep and archive are calls of it) reads the row and
\* validates the transition ...
UpdateCheck(c, w, target) ==
    /\ w \in rows                              \* otherwise SubagentNotFound
    /\ target \in Transitions[status[w]]       \* otherwise InvalidSubagentStatus
    /\ Begin(c, "updating", w, target)
    /\ UNCHANGED <<table, files, history>>

\* Fault: a worker that is not done loses the result it had.
UpdateWriteReset(c) ==
    /\ pc[c] = "updating"
    /\ status' = [status EXCEPT ![arg[c]] = value[c]]
    /\ result' = [result EXCEPT ![arg[c]] = NoResult]
    /\ Return(c)
    /\ UNCHANGED <<rows, files, history>>

\* ... and writes the status by a statement that looks at the id alone.
UpdateWrite(c) ==
    /\ pc[c] = "updating"
    /\ IF arg[c] \in rows
         THEN /\ status' = [status EXCEPT ![arg[c]] = value[c]]
              /\ finished' = finished \cup {w \in {arg[c]} : value[c] = "completed"}
         ELSE UNCHANGED <<status, finished>>
    /\ Return(c)
    /\ UNCHANGED <<rows, result, files, issued, recorded, reported, lost, drift>>

DeleteCheck(c, w) ==
    /\ w \in rows
    /\ Begin(c, "deleting", w, NoResult)
    /\ UNCHANGED <<table, files, history>>

DeleteRow(c) ==
    /\ pc[c] = "deleting"
    /\ rows' = rows \ {arg[c]}
    /\ Return(c)
    /\ UNCHANGED <<status, result, files, history>>

-----------------------------------------------------------------------------
(* Completing: the check, the write of status and result in one            *)
(* transaction, then the get of the row, which may be gone, and the        *)
(* callbacks with the result the caller gave.                              *)

CompleteCheck(c, w, r) ==
    /\ w \in rows
    /\ "completed" \in Transitions[status[w]]
    /\ Begin(c, "completing", w, r)
    /\ UNCHANGED <<table, files, history>>

\* Fault: the callbacks are called before the completion is committed.
CompleteWriteLate(c) ==
    /\ pc[c] = "completing"
    /\ reported' = reported \cup {<<arg[c], value[c]>>}
    /\ Goto(c, "reporting")
    /\ UNCHANGED <<table, files, issued, finished, recorded, lost, drift>>

\* Fault: the insert-or-replace of a whole row.
CompleteWriteUpsert(c) ==
    /\ pc[c] = "completing"
    /\ rows' = rows \cup {arg[c]}
    /\ status' = [status EXCEPT ![arg[c]] = "completed"]
    /\ result' = [result EXCEPT ![arg[c]] = value[c]]
    /\ finished' = finished \cup {arg[c]}
    /\ recorded' = recorded \cup {<<arg[c], value[c]>>}
    /\ Goto(c, "reporting")
    /\ UNCHANGED <<files, issued, reported, lost, drift>>

CompleteWrite(c) ==
    /\ pc[c] = "completing"
    /\ IF arg[c] \in rows
         THEN /\ status' = [status EXCEPT ![arg[c]] = "completed"]
              /\ result' = [result EXCEPT ![arg[c]] = value[c]]
              /\ finished' = finished \cup {arg[c]}
              /\ recorded' = recorded \cup {<<arg[c], value[c]>>}
              /\ Goto(c, "reporting")
              /\ UNCHANGED <<rows, files, issued, reported, lost, drift>>
         ELSE /\ Return(c)                     \* nothing matched, the get raises
              /\ UNCHANGED <<table, files, history>>

Report(c) ==
    /\ pc[c] = "reporting"
    /\ LET done == {<<arg[c], value[c]>>}
       IN  IF arg[c] \in rows
             THEN /\ reported' = reported \cup done
                  /\ UNCHANGED lost
             ELSE /\ lost' = lost \cup done    \* the get raises SubagentNotFound
                  /\ UNCHANGED reported
    /\ Return(c)
    /\ UNCHANGED <<table, files, issued, finished, recorded, drift>>

-----------------------------------------------------------------------------
(* Saving the state of a worker (serialize_state, save_session): session   *)
(* first, then metadata, each truncated and then written.  A component     *)
(* that is None is skipped and its file stays as it is.  Nothing keeps two *)
(* saves of a worker apart, and nothing asks the registry.                 *)

Saving(w) == \E d \in Client : pc[d] \in SaveSteps /\ arg[d] = w

\* drift' when a save of w ends that leaves the files like that.
Becomes(w, d) ==
    drift' = [drift EXCEPT ![w] =
                IF @ = "raced" \/ (@ = "either" /\ d = "ahead") THEN @ ELSE d]

\* What client c's write can leave in the file: two writers of one file may
\* mix their texts.
Written(c) == IF drift[arg[c]] = "raced" THEN {context[c], Torn} ELSE {context[c]}

SaveStart(c, w, step) ==
    /\ w \in issued
    /\ saves[w] < MaxSaves
    /\ BeginWith(c, step, w, NoResult, saves[w] + 1)
    /\ saves' = [saves EXCEPT ![w] = @ + 1]
    /\ drift' = IF Saving(w) THEN [drift EXCEPT ![w] = "raced"] ELSE drift
    /\ IF step = "saving_session"
         THEN session' = [session EXCEPT ![w] = Torn] /\ UNCHANGED metadata
         ELSE metadata' = [metadata EXCEPT ![w] = Torn] /\ UNCHANGED session
    /\ UNCHANGED <<table, issued, finished, recorded, reported, lost>>

SaveSession(c) ==
    /\ pc[c] = "saving_session"
    /\ \E x \in Written(c) : session' = [session EXCEPT ![arg[c]] = x]
    /\ \/ Goto(c, "saved_session") /\ UNCHANGED drift
       \/ Return(c) /\ Becomes(arg[c], "ahead")       \* metadata is None
    /\ UNCHANGED <<table, saves, metadata, issued, finished, recorded, reported, lost>>

SaveMetadataOpen(c) ==
    /\ pc[c] = "saved_session"
    /\ metadata' = [metadata EXCEPT ![arg[c]] = Torn]
    /\ Goto(c, "saving_metadata")
    /\ UNCHANGED <<table, saves, session, history>>

SaveMetadata(c) ==
    /\ pc[c] \in {"saving_metadata", "saving_metadata_only"}
    /\ \E x \in Written(c) : metadata' = [metadata EXCEPT ![arg[c]] = x]
    /\ Return(c)
    /\ Becomes(arg[c], IF pc[c] = "saving_metadata" THEN "same" ELSE "either")
    /\ UNCHANGED <<table, saves, session, issued, finished, recorded, reported, lost>>

-----------------------------------------------------------------------------
(* Resuming a sleeping worker: the registry is asked and updated first,    *)
(* the files are loaded afterwards, metadata before session.  resume reads *)
(* and validates the row once more than update_status does; the last       *)
(* check decides.                                                          *)

ResumeCheck(c, w) ==
    /\ w \in rows
    /\ "running" \in Transitions[status[w]]
    /\ Begin(c, "resuming", w, "running")
    /\ UNCHANGED <<table, files, history>>

ResumeWrite(c) ==
    /\ pc[c] = "resuming"
    /\ IF arg[c] \in rows
         THEN /\ status' = [status EXCEPT ![arg[c]] = "running"]
              /\ Goto(c, "loading_metadata")
         ELSE /\ Return(c)
              /\ UNCHANGED status
    /\ UNCHANGED <<rows, result, files, history>>

\* Required: a missing or torn metadata.json is a SerializationError.
LoadMetadata(c) ==
    /\ pc[c] = "loading_metadata"
    /\ IF metadata[arg[c]] \in {Absent, Torn}
         THEN Return(c)
         ELSE /\ pc' = [pc EXCEPT ![c] = "loading_session"]
              /\ context' = [context EXCEPT ![c] = metadata[arg[c]]]
              /\ UNCHANGED <<arg, value>>
    /\ UNCHANGED <<table, files, history>>

\* Fault: a torn session.json is taken for an empty conversation.
LoadSessionLenient(c) ==
    /\ pc[c] = "loading_session"
    /\ Goto(c, "resumed")
    /\ UNCHANGED <<table, files, history>>

\* Optional: a missing session.json is an empty conversation, a torn one an
\* error.  The resume returns its context.
LoadSession(c) ==
    /\ pc[c] = "loading_session"
    /\ IF session[arg[c]] = Torn THEN Return(c) ELSE Goto(c, "resumed")
    /\ UNCHANGED <<table, files, history>>

ResumeReturn(c) ==
    /\ pc[c] = "resumed"
    /\ Return(c)
    /\ UNCHANGED <<table, files, history>>
-----------------------------------------------------------------------------

\* The process of a client dies, or a write to a file raises; rows and files
\* stay as they are.
Crash(c) ==
    /\ pc[c] # "idle"
    /\ lost' = lost \cup {x \in recorded :
                            pc[c] = "reporting" /\ x = <<arg[c], value[c]>>}
    /\ IF pc[c] \in SaveSteps THEN Becomes(arg[c], "ahead") ELSE UNCHANGED drift
    /\ Return(c)
    /\ UNCHANGED <<table, files, issued, finished, recorded, reported>>

Next ==
    \/ \E w \in Worker : Register(w)
    \/ \E c \in Client, w \in Worker, s \in Statuses : UpdateCheck(c, w, s)
    \/ \E c \in Client : UpdateWrite(c)
    \/ \E c \in Client, w \in Worker : DeleteCheck(c, w)
    \/ \E c \in Client : DeleteRow(c)
    \/ \E c \in Client, w \in Worker, r \in Results : CompleteCheck(c, w, r)
    \/ \E c \in Client : CompleteWrite(c)
    \/ \E c \in Client : Report(c)
    \/ \E c \in Client, w \in Worker, step \in {"saving_session", "saving_metadata_only"} :
          SaveStart(c, w, step)
    \/ \E c \in Client : SaveSession(c)
    \/ \E c \in Client : SaveMetadataOpen(c)
    \/ \E c \in Client : SaveMetadata(c)
    \/ \E c \in Client, w \in Worker : ResumeCheck(c, w)
    \/ \E c \in Client : ResumeWrite(c)
    \/ \E c \in Client : LoadMetadata(c)
    \/ \E c \in Client : LoadSession(c)
    \/ \E c \in Client : ResumeReturn(c)
    \/ \E c \in Client : Crash(c)

Spec == Init /\ [][Next]_vars

-----------------------------------------------------------------------------
(* Properties *)

\* The completion callbacks, which propagate results up the hierarchy, are
\* called with results that are in the database and with all of them: a
\* committed result has been reported, is about to be, or its call died or
\* found the row deleted.
Reporting ==
    /\ reported \cup lost \subseteq recorded
    /\ \A w \in Worker, r \in Results :
          <<w, r>> \in recorded \ (reported \cup lost) =>
              \E c \in Client : pc[c] = "reporting" /\ arg[c] = w /\ value[c] = r

\* Whatever calls race, a worker is archived only after it was completed.
\* (Its status may be anything afterwards: see UpdateWrite.)
ArchivedWasFinished ==
    \A w \in rows : status[w] = "archived" => w \in finished

\* A result once recorded stays recorded, through late status changes and
\* resumptions of the worker.
ResultKeptStep ==
    \A w \in rows \cap rows' : result[w] # NoResult => result'[w] # NoResult

ResultKept == [][ResultKeptStep]_vars

\* No late write brings a deleted worker back.
NeverReturns == [][rows' \cap issued \subseteq rows]_vars

\* How far a resume can trust the two files, which are written and read
\* without any lock, in opposite orders.  Its conversation is at least as
\* recent as its metadata, through resumes that race a save, saves that die
\* half way and saves of the conversation alone; and after a whole save the
\* two are of the same save, unless the files are rewritten as they are read.
\* Nothing is promised once metadata was saved alone, until the next whole
\* save, or once two saves have overlapped.
ContextConsistentStep ==
    \A c \in Client :
        pc[c] = "loading_session" /\ pc'[c] = "resumed" =>
            LET w == arg[c]
            IN  /\ drift[w] \in {"same", "ahead"} => session[w] >= context[c]
                /\ drift[w] = "same" /\ ~ Saving(w) =>
                       session[w] = context[c] \/ metadata[w] # context[c]

ContextConsistent == [][ContextConsistentStep]_vars

=============================================================================
