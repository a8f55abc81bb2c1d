----------------------------- MODULE MessageBus -----------------------------
(***************************************************************************)
(* The IPC message bus (core/ipc/message_bus.py) and its cleanup           *)
(* (core/ipc/cleanup.py): one SQLite database, written by every gateway,   *)
(* tool, UI and CLI process.  A call of the bus takes the lock (or opens a *)
(* transaction) once per statement, so an operation that first reads a row *)
(* and then writes it is two steps here, with the calls of other processes *)
(* in between.  A process may die between any two steps.                   *)
(*                                                                         *)
(* Left out: what the bus stores and never looks at (payload, sender,      *)
(* correlation id), the recipient (a poll filters by it, a send validates  *)
(* it before anything is written), and a poll's type filter, limit and     *)
(* order: what a poll returns is some part of Answer.                      *)
(***************************************************************************)
EXTENDS Integers

CONSTANTS
    Msg,          \* message identifiers; generate_message_id never repeats one
    NoMsg,        \* "no message", for a client that is not using one
    Client,       \* the threads of control that call the bus
    TTLs,         \* the times to live a sender asks for, Never among them
    MaxTime       \* bound: the clock stops there

Never == -1       \* expires_at IS NULL

ASSUME NoMsgAssumption == NoMsg \notin Msg
ASSUME TTLAssumption == TTLs \subseteq Nat \cup {Never}
ASSUME MaxTimeAssumption == MaxTime \in Nat

VARIABLES
    now,          \* datetime.now(timezone.utc)
    active,       \* the rows of table messages
    archived,     \* the rows of table message_archive
    status,       \* status[m], the column of the row (its last value once gone)
    expires,      \* expires[m], the expires_at column
    pc,           \* pc[c], the step client c takes next
    arg,          \* arg[c], the message client c's call is about
    stamp,        \* stamp[c], the time client c's call computed earlier
    sent,         \* history: the messages whose insert was committed
    deleted,      \* history: the messages a delete call removed
    past          \* history: past[c], what c's poll came too late for

clients == <<pc, arg, stamp, past>>
history == <<sent, deleted>>
vars == <<now, active, archived, status, expires, pc, arg, stamp, sent, deleted, past>>

Statuses == {"pending", "delivered", "read", "expired"}

Steps == {"idle", "sending", "polling", "acking", "reading", "deleting",
          "expiring", "archiving"}

TypeOK ==
    /\ now \in 0..MaxTime
    /\ active \subseteq Msg
    /\ archived \subseteq Msg
    /\ status \in [Msg -> Statuses]
    /\ expires \in [Msg -> Nat \cup {Never}]
    /\ pc \in [Client -> Steps]
    /\ arg \in [Client -> Msg \cup {NoMsg}]
    /\ stamp \in [Client -> Nat \cup {Never}]
    /\ sent \subseteq Msg
    /\ deleted \subseteq Msg
    /\ past \in [Client -> SUBSET Msg]

Init ==
    /\ now = 0
    /\ active = {}
    /\ archived = {}
    /\ status = [m \in Msg |-> "pending"]
    /\ expires = [m \in Msg |-> Never]
    /\ pc = [c \in Client |-> "idle"]
    /\ arg = [c \in Client |-> NoMsg]
    /\ stamp = [c \in Client |-> 0]
    /\ sent = {}
    /\ deleted = {}
    /\ past = [c \in Client |-> {}]

-----------------------------------------------------------------------------
(* Operators of models.py, and the steps of a call. *)

\* VALID_STATUS_TRANSITIONS
Transitions ==
    [pending   |-> {"delivered", "expired"},
     delivered |-> {"read", "expired"},
     read      |-> {},
     expired   |-> {}]

\* Message.is_expired: at its expiry time a message is already expired.
IsExpired(m) == expires[m] # Never /\ now >= expires[m]

\* The client goes on to step p of a call about message m, carrying time t;
\* only a poll (S) has messages it comes too late for.
GotoPast(c, p, m, t, S) ==
    /\ pc' = [pc EXCEPT ![c] = p]
    /\ arg' = [arg EXCEPT ![c] = m]
    /\ stamp' = [stamp EXCEPT ![c] = t]
    /\ past' = [past EXCEPT ![c] = S]

Goto(c, p, m, t) == GotoPast(c, p, m, t, {})

Return(c) == Goto(c, "idle", NoMsg, 0)

\* Fault: an identifier may be given out again once its row is gone.
FreshAmongRows(m) == m \notin active /\ \A c \in Client : arg[c] # m

\* A new identifier: of no row there ever was and of no call in progress.
Fresh(m) ==
    /\ m \notin sent
    /\ \A c \in Client : arg[c] # m

-----------------------------------------------------------------------------
(* Sending: the expiry time is computed from the clock before the lock is  *)
(* taken, the insert is a transaction of its own.                          *)

SendStart(c, m, ttl) ==
    /\ pc[c] = "idle"
    /\ Fresh(m)
    /\ Goto(c, "sending", m, IF ttl = Never THEN Never ELSE now + ttl)
    /\ UNCHANGED <<now, active, archived, status, expires, history>>

SendInsert(c) ==
    /\ pc[c] = "sending"
    /\ active' = active \cup {arg[c]}
    /\ status' = [status EXCEPT ![arg[c]] = "pending"]
    /\ expires' = [expires EXCEPT ![arg[c]] = stamp[c]]
    /\ sent' = sent \cup {arg[c]}
    /\ Return(c)
    /\ UNCHANGED <<now, archived, deleted>>

-----------------------------------------------------------------------------
(* poll: the clock is read before the lock is taken, the rows are selected *)
(* afterwards.  With include_expired there is no reading at all (Never)    *)
(* and the expiry time is not looked at.                                   *)

PollStart(c, includeExpired) ==
    /\ pc[c] = "idle"
    /\ GotoPast(c, "polling", NoMsg, IF includeExpired THEN Never ELSE now,
                {m \in sent : \/ m \notin active
                              \/ status[m] # "pending"
                              \/ ~ includeExpired /\ IsExpired(m)})
    /\ UNCHANGED <<now, active, archived, status, expires, history>>

\* Fault: a message is still offered at its expiry time.
AnswerAtExpiry(c) ==
    {m \in active : /\ status[m] = "pending"
                    /\ \/ stamp[c] = Never
                       \/ expires[m] = Never
                       \/ expires[m] >= stamp[c]}

\* The rows client c's select would find now.
Answer(c) ==
    {m \in active : /\ status[m] = "pending"
                    /\ \/ stamp[c] = Never
                       \/ expires[m] = Never
                       \/ expires[m] > stamp[c]}

\* The select, with Answer(c) for its rows, ends the call and changes nothing.
PollRows(c) ==
    /\ pc[c] = "polling"
    /\ Return(c)
    /\ UNCHANGED <<now, active, archived, status, expires, history>>

-----------------------------------------------------------------------------
(* acknowledge and mark_read: _transition_status reads the row, checks its *)
(* expiry and the transition, and writes the new status later, by a second *)
(* statement that checks neither.  The get that ends the call changes      *)
(* nothing.                                                                *)

\* The status a call writes.
Target(step) == IF step = "acking" THEN "delivered" ELSE "read"

\* Fault: can_transition_to is not asked.
ValidateAny(c, m, step) ==
    /\ pc[c] = "idle"
    /\ m \in active
    /\ ~ IsExpired(m)
    /\ Goto(c, step, m, 0)
    /\ UNCHANGED <<now, active, archived, status, expires, history>>

Validate(c, m, step) ==
    /\ pc[c] = "idle"
    /\ m \in active                          \* otherwise MessageNotFound
    /\ ~ IsExpired(m)                        \* otherwise MessageExpired
    /\ Target(step) \in Transitions[status[m]]
    /\ Goto(c, step, m, 0)
    /\ UNCHANGED <<now, active, archived, status, expires, history>>

\* Fault: the row is written back whole, as an upsert.
UpdateUpsert(c) ==
    /\ pc[c] \in {"acking", "reading"}
    /\ status' = [status EXCEPT ![arg[c]] = Target(pc[c])]
    /\ active' = active \cup {arg[c]}
    /\ Return(c)
    /\ UNCHANGED <<now, archived, expires, history>>

Update(c) ==
    /\ pc[c] \in {"acking", "reading"}
    /\ status' = IF arg[c] \in active
                   THEN [status EXCEPT ![arg[c]] = Target(pc[c])]
                   ELSE status               \* UPDATE matches no row
    /\ Return(c)
    /\ UNCHANGED <<now, active, archived, expires, history>>

-----------------------------------------------------------------------------
(* delete: a get that raises when the row is missing, then the DELETE. *)

DeleteCheck(c, m) ==
    /\ pc[c] = "idle"
    /\ m \in active
    /\ Goto(c, "deleting", m, 0)
    /\ UNCHANGED <<now, active, archived, status, expires, history>>

DeleteRow(c) ==
    /\ pc[c] = "deleting"
    /\ active' = active \ {arg[c]}
    /\ deleted' = deleted \cup (active \cap {arg[c]})
    /\ Return(c)
    /\ UNCHANGED <<now, archived, status, expires, sent>>

-----------------------------------------------------------------------------
(* MessageCleanup: expire_messages reads the clock before it takes the     *)
(* lock; archive_expired copies and deletes in one transaction.            *)

\* Fault: a message without expiry time counts as overdue.
OverdueOrNull(t) ==
    {m \in active : expires[m] < t /\ status[m] \in {"pending", "delivered"}}

\* The rows expire_messages updates when its clock reading was t.
Overdue(t) ==
    {m \in active : /\ expires[m] # Never
                    /\ expires[m] < t
                    /\ status[m] \in {"pending", "delivered"}}

ExpireStart(c) ==
    /\ pc[c] = "idle"
    /\ Goto(c, "expiring", NoMsg, now)
    /\ UNCHANGED <<now, active, archived, status, expires, history>>

ExpireRows(c) ==
    /\ pc[c] = "expiring"
    /\ status' = [m \in Msg |-> IF m \in Overdue(stamp[c]) THEN "expired" ELSE status[m]]
    /\ Goto(c, "archiving", NoMsg, 0)
    /\ UNCHANGED <<now, active, archived, expires, history>>

\* Fault: the copy selects by status and the delete by expiry time.
ArchiveRowsByTime(c) ==
    /\ pc[c] \in {"idle", "archiving"}
    /\ archived' = archived \cup {m \in active : status[m] = "expired"}
    /\ active' = active \ {m \in active : IsExpired(m)}
    /\ Return(c)
    /\ UNCHANGED <<now, status, expires, history>>

\* cleanup archives after it has expired; archive_expired is also an
\* operation of its own.
ArchiveRows(c) ==
    /\ pc[c] \in {"idle", "archiving"}
    /\ LET S == {m \in active : status[m] = "expired"}
       IN  /\ archived' = archived \cup S
           /\ active' = active \ S
    /\ Return(c)
    /\ UNCHANGED <<now, status, expires, history>>

-----------------------------------------------------------------------------

\* The process of a client dies: its call ends, the database keeps what
\* was committed.
Crash(c) ==
    /\ pc[c] # "idle"
    /\ Return(c)
    /\ UNCHANGED <<now, active, archived, status, expires, history>>

Tick ==
    /\ now < MaxTime
    /\ now' = now + 1
    /\ UNCHANGED <<active, archived, status, expires, clients, history>>

Next ==
    \/ \E c \in Client, m \in Msg, ttl \in TTLs : SendStart(c, m, ttl)
    \/ \E c \in Client : SendInsert(c)
    \/ \E c \in Client, includeExpired \in BOOLEAN : PollStart(c, includeExpired)
    \/ \E c \in Client : PollRows(c)
    \/ \E c \in Client, m \in Msg, step \in {"acking", "reading"} : Validate(c, m, step)
    \/ \E c \in Client : Update(c)
    \/ \E c \in Client, m \in Msg : DeleteCheck(c, m)
    \/ \E c \in Client : DeleteRow(c)
    \/ \E c \in Client : ExpireStart(c)
    \/ \E c \in Client : ExpireRows(c)
    \/ \E c \in Client : ArchiveRows(c)
    \/ \E c \in Client : Crash(c)
    \/ Tick

Spec == Init /\ [][Next]_vars

-----------------------------------------------------------------------------
(* Properties *)

\* No message is lost or duplicated by cleanup, deletion and late writes
\* racing each other: what was inserted is in the table, in the archive or
\* was deleted by a call of delete, and in one of these only.
Conservation ==
    /\ sent = active \cup archived \cup deleted
    /\ active \cap archived = {}
    /\ active \cap deleted = {}
    /\ archived \cap deleted = {}

\* Cleanup never takes a message that a poll or an acknowledgement could
\* still have used: what is expired or archived has a time to live and is
\* past it, although the sweep's clock reading is older than its write.
OnlyOverdueExpires ==
    \A m \in Msg :
        (m \in active /\ status[m] = "expired") \/ m \in archived =>
            IsExpired(m)

\* What the unlocked gap between check and write can do to the life cycle,
\* and all it can do: a late acknowledgement or read may overwrite a
\* terminal status.  A message never goes from pending to read without
\* having been delivered, a read message is never expired, and nothing
\* returns to pending.
LateWrites == {<<"read", "delivered">>, <<"expired", "delivered">>, <<"expired", "read">>}

LifecycleStep ==
    \A m \in active \cap active' :
        \/ status'[m] = status[m]
        \/ status'[m] \in Transitions[status[m]]
        \/ <<status[m], status'[m]>> \in LateWrites

Lifecycle == [][LifecycleStep]_vars

\* A message that was acknowledged, expired, archived or deleted before a
\* poll was called, or, unless the poll asks for those too, had reached its
\* expiry time, is not among the rows the poll returns, however old the clock
\* reading has become when its select runs and whatever late writes, sweeps
\* and new sends there were in between.
NeverOfferedAgain ==
    \A c \in Client : pc[c] = "polling" => Answer(c) \cap past[c] = {}

-----------------------------------------------------------------------------
(* The bus implements the mailbox. *)

Place(m) ==
    IF m \notin sent THEN "unsent"
    ELSE IF m \notin active THEN "retired"
    ELSE IF status[m] = "pending" THEN "queued"
    ELSE "settled"

Box == INSTANCE Mailbox WITH box <- [m \in Msg |-> Place(m)]

\* Every behaviour of the bus is one of Mailbox: a message is pollable for
\* one period, then settled, then gone.
MailboxSpec == Box!BoxSpec

=============================================================================
