------------------------------ MODULE AgentRun ------------------------------
(***************************************************************************)
(* One tracked worker and the agent process that does its task             *)
(* (integrations/hermes/worker_bridge.py): the caller registers the        *)
(* worker, starts the agent with two pipes, watches them with select and   *)
(* blocking reads, kills an agent that it takes for idle, and records a    *)
(* result or an error.  The callers are spawn_and_track, the gateway's     *)
(* _run_and_complete without a chain, and spawn_tracked_worker of          *)
(* tools/hierarchy_tools.py.  The agent, the processes it leaves behind and *)
(* other users of the registry do what they like.                          *)
(***************************************************************************)
EXTENDS Naturals, FiniteSets

CONSTANTS
    ReadSize,    \* characters a read returns unless the stream ends (4096)
    ChunkSize,   \* characters it fetches from the pipe at once (8192)
    Capacity,    \* what a pipe holds
    MaxOut,      \* what is written to a stream at most
    Nothing      \* no text, no answer

Streams == {"out", "err"}
Callers == {"track", "gateway", "delegate", "noop", "tool"}

Sizes ==
    /\ ReadSize \in Nat \ {0} /\ ChunkSize \in Nat \ {0}
    /\ Capacity \in Nat \ {0} /\ MaxOut \in Nat
    /\ Nothing \notin {"result", "error"} \cup Callers

ASSUME SizesAssumption == Sizes

VARIABLES
    call,     \* who called, where the call is, the streams still to read
    row,      \* the worker's status and result_summary
    agent,    \* the process: status, exit code, whether a descendant lives
    open,     \* per stream: the processes that hold its writing end
    wrote,    \* per stream: characters written
    pipe,     \* per stream: characters in the pipe
    ahead,    \* per stream: characters fetched and not yet returned by read
    got,      \* per stream: characters in the caller's buffer
    quiet,    \* the idle timeout has passed since a read returned something
    answer    \* the gateway's response to the originator

runVars == <<call, row, agent, open, wrote, pipe, ahead, got, quiet, answer>>

pipeVars == <<open, wrote, pipe, ahead, got>>
outside == <<agent, pipeVars, quiet>>

RunTypeOK ==
    /\ call \in [by : Callers \cup {Nothing},
                 pc : {"start", "invoke", "poll", "select", "read", "idle", "drain",
                       "delegate", "complete", "fail", "tell_result", "tell_error",
                       "end"},
                 todo : SUBSET Streams]
    /\ row \in [status : {"none", "running", "sleeping", "completed", "deleted"},
                text : {Nothing, "result", "error"}]
    /\ agent \in [runs : {"none", "running", "exited", "killed"}, code : {0, 1}]
    /\ open \in [Streams -> SUBSET {"agent", "heir"}]
    /\ \A s \in Streams :
         /\ wrote[s] \in 0..MaxOut /\ got[s] \in 0..MaxOut
         /\ pipe[s] \in 0..Capacity
         /\ ahead[s] \in 0..(ReadSize + ChunkSize)
    /\ quiet \in BOOLEAN
    /\ answer \in {Nothing, "result", "error"}

RunInit ==
    /\ call = [by |-> Nothing, pc |-> "start", todo |-> {}]
    /\ row = [status |-> "none", text |-> Nothing]
    /\ agent = [runs |-> "none", code |-> 0]
    /\ open = [s \in Streams |-> {}]
    /\ wrote = [s \in Streams |-> 0]
    /\ pipe = [s \in Streams |-> 0]
    /\ ahead = [s \in Streams |-> 0]
    /\ got = [s \in Streams |-> 0]
    /\ quiet = FALSE
    /\ answer = Nothing

-----------------------------------------------------------------------------

Smaller(m, n) == IF m < n THEN m ELSE n
At(pc) == call.pc = pc
Go(pc) == call' = [call EXCEPT !.pc = pc]

\* A stream with text or at its end makes select return.
Ended(s) == pipe[s] = 0 /\ open[s] = {}
Ready == {s \in Streams : pipe[s] > 0 \/ Ended(s)}

\* The streams are read in the order of select's argument.
First == IF "out" \in call.todo THEN "out" ELSE "err"
NextStream ==
    LET rest == call.todo \ {First}
    IN  call' = [call EXCEPT !.todo = rest, !.pc = IF rest = {} THEN "idle" ELSE "read"]

-----------------------------------------------------------------------------
(* The caller: registration and mode.                                      *)

\* spawn registers the worker; the tool asks first whether its profile may.
Spawn(by) ==
    /\ At("start")
    /\ row' = [row EXCEPT !.status = "running"]
    /\ call' = [call EXCEPT !.by = by,
                  !.pc = CASE by \in {"track", "gateway"} -> "invoke"
                           [] by \in {"delegate", "tool"} -> "delegate"
                           [] by = "noop" -> "end"]
    /\ UNCHANGED <<outside, answer>>

\* Refused by the onboarding gate, or the registry fails: no row, no agent.
SpawnFails(by) ==
    /\ At("start")
    /\ call' = [call EXCEPT !.by = by, !.pc = "end"]
    /\ UNCHANGED <<row, outside, answer>>

\* A delegate function or delegate_task answers or raises.  The tool ignores
\* the failure: it names a status that does not exist, and swallows the error.
Delegate ==
    /\ At("delegate")
    /\ \/ Go("complete")
       \/ Go(IF call.by = "tool" THEN "end" ELSE "fail")
    /\ UNCHANGED <<row, outside, answer>>

-----------------------------------------------------------------------------
(* invoke_agent.                                                           *)

Invoke ==
    /\ At("invoke")
    /\ agent' = [agent EXCEPT !.runs = "running"]
    /\ open' = [s \in Streams |-> {"agent"}]
    /\ quiet' = FALSE
    /\ Go("poll")
    /\ UNCHANGED <<row, wrote, pipe, ahead, got, answer>>

\* No command line tool on the path, no directory, or Popen raises.
InvokeFails ==
    /\ At("invoke")
    /\ Go("fail")
    /\ UNCHANGED <<row, outside, answer>>

Poll ==
    /\ At("poll")
    /\ Go(IF agent.runs = "running" THEN "select" ELSE "drain")
    /\ UNCHANGED <<row, outside, answer>>

\* select returns the ready streams, or none after five seconds.
Select ==
    /\ At("select")
    /\ call' = [call EXCEPT !.todo = Ready, !.pc = IF Ready = {} THEN "idle" ELSE "read"]
    /\ UNCHANGED <<row, outside, answer>>

\* read(4096) of a text stream: it returns when it has that much ...
ReadReturns ==
    /\ At("read")
    /\ ahead[First] >= ReadSize
    /\ got' = [got EXCEPT ![First] = @ + ReadSize]
    /\ ahead' = [ahead EXCEPT ![First] = @ - ReadSize]
    /\ quiet' = FALSE
    /\ NextStream
    /\ UNCHANGED <<row, agent, open, wrote, pipe, answer>>

\* ... fetches what is in the pipe, at most a chunk, while it has less ...
ReadFetches ==
    /\ At("read")
    /\ ahead[First] < ReadSize
    /\ pipe[First] > 0
    /\ LET n == Smaller(pipe[First], ChunkSize) IN
         /\ ahead' = [ahead EXCEPT ![First] = @ + n]
         /\ pipe' = [pipe EXCEPT ![First] = @ - n]
    /\ UNCHANGED <<call, row, agent, open, wrote, got, quiet, answer>>

\* Fault: an empty read counts as activity.
ReadEndsActive ==
    /\ At("read")
    /\ ahead[First] < ReadSize
    /\ Ended(First)
    /\ got' = [got EXCEPT ![First] = @ + ahead[First]]
    /\ ahead' = [ahead EXCEPT ![First] = 0]
    /\ quiet' = FALSE
    /\ NextStream
    /\ UNCHANGED <<row, agent, open, wrote, pipe, answer>>

\* ... and at the end of the stream returns what it has, if anything.
ReadEnds ==
    /\ At("read")
    /\ ahead[First] < ReadSize
    /\ Ended(First)
    /\ got' = [got EXCEPT ![First] = @ + ahead[First]]
    /\ ahead' = [ahead EXCEPT ![First] = 0]
    /\ quiet' = (quiet /\ ahead[First] = 0)
    /\ NextStream
    /\ UNCHANGED <<row, agent, open, wrote, pipe, answer>>

\* The agent that took longer than the idle timeout is killed; kill of a
\* process that has ended does nothing.
Killed == IF agent.runs = "running" THEN [agent EXCEPT !.runs = "killed"] ELSE agent

CheckIdle ==
    /\ At("idle")
    /\ IF quiet
       THEN /\ agent' = Killed
            /\ open' = [s \in Streams |-> open[s] \ {"agent"}]
            /\ Go("fail")
       ELSE /\ Go("poll")
            /\ UNCHANGED <<agent, open>>
    /\ UNCHANGED <<row, wrote, pipe, ahead, got, quiet, answer>>

\* communicate reads the pipes themselves until both end, for ten seconds;
\* what a read had fetched ahead is no longer in them.
DrainTakes(s) ==
    /\ At("drain")
    /\ pipe[s] > 0
    /\ got' = [got EXCEPT ![s] = @ + pipe[s]]
    /\ pipe' = [pipe EXCEPT ![s] = 0]
    /\ UNCHANGED <<call, row, agent, open, wrote, ahead, quiet, answer>>

\* Fault: the exit code is not looked at.
DrainEndsAnyCode ==
    /\ At("drain")
    /\ \A s \in Streams : Ended(s)
    /\ Go("complete")
    /\ UNCHANGED <<row, outside, answer>>

DrainEnds ==
    /\ At("drain")
    /\ \A s \in Streams : Ended(s)
    /\ Go(IF agent.code = 0 THEN "complete" ELSE "fail")
    /\ UNCHANGED <<row, outside, answer>>

\* A descendant that keeps a pipe open makes a finished task an idle one.
DrainTimesOut ==
    /\ At("drain")
    /\ \E s \in Streams : open[s] # {}
    /\ Go("fail")
    /\ UNCHANGED <<row, outside, answer>>

\* Output that is no text makes a read, or the last one, raise: the call goes
\* on as failed and nobody kills the agent.
ReadRaises ==
    /\ \E s \in Ready :
         /\ wrote[s] > 0
         /\ At("drain") \/ (At("read") /\ s = First /\ ahead[s] < ReadSize)
    /\ Go("fail")
    /\ UNCHANGED <<row, outside, answer>>

-----------------------------------------------------------------------------
(* complete, fail, and the gateway's response.                             *)

\* The gateway tells the originator what it holds: the result or the error.
After(tell) == IF call.by = "gateway" THEN tell ELSE "end"

\* complete is inside the try block, so its failure leads to fail; the tool
\* swallows it.
Complete ==
    /\ At("complete")
    /\ \/ /\ row.status = "running"
          /\ row' = [status |-> "completed", text |-> "result"]
          /\ Go(After("tell_result"))
       \/ /\ Go(IF call.by = "tool" THEN "end" ELSE "fail")
          /\ UNCHANGED row
    /\ UNCHANGED <<outside, answer>>

\* The row is committed, and reading it back or a callback raises: fail then
\* finds a completed worker and raises too.
CompleteLate ==
    /\ At("complete")
    /\ row.status = "running"
    /\ row' = [status |-> "completed", text |-> "result"]
    /\ Go(IF call.by = "tool" THEN "end" ELSE "fail")
    /\ UNCHANGED <<outside, answer>>

\* fail completes the worker with an error; where that raises, the caller's
\* caller gets the exception and nobody a response.
Fail ==
    /\ At("fail")
    /\ \/ /\ row.status = "running"
          /\ row' = [status |-> "completed", text |-> "error"]
          /\ call' \in {[call EXCEPT !.pc = After("tell_error")], [call EXCEPT !.pc = "end"]}
       \/ /\ Go("end")
          /\ UNCHANGED row
    /\ UNCHANGED <<outside, answer>>

\* _send_response never raises; a response that cannot be sent is dropped.
Respond ==
    /\ At("tell_result") \/ At("tell_error")
    /\ answer' \in {IF At("tell_result") THEN "result" ELSE "error", Nothing}
    /\ Go("end")
    /\ UNCHANGED <<row, outside>>

Watchdog ==
    \/ \E by \in Callers : Spawn(by) \/ SpawnFails(by)
    \/ Delegate \/ Invoke \/ InvokeFails \/ Poll \/ Select
    \/ ReadReturns \/ ReadFetches \/ ReadEnds \/ CheckIdle
    \/ \E s \in Streams : DrainTakes(s)
    \/ DrainEnds \/ DrainTimesOut \/ ReadRaises
    \/ Complete \/ CompleteLate \/ Fail \/ Respond

-----------------------------------------------------------------------------
(* The agent, its descendants, the clock and the other users of the row.   *)

\* A write blocks while the pipe is full; without a reader it fails.  MaxOut
\* bounds what is written.
Write(s) ==
    /\ open[s] # {}
    /\ wrote[s] < MaxOut
    /\ pipe[s] < Capacity
    /\ ~At("end")
    /\ wrote' = [wrote EXCEPT ![s] = @ + 1]
    /\ pipe' = [pipe EXCEPT ![s] = @ + 1]
    /\ UNCHANGED <<call, row, agent, open, ahead, got, quiet, answer>>

\* The agent ends with a code and may leave a descendant with its pipes.
AgentExits ==
    /\ agent.runs = "running"
    /\ \E code \in {0, 1}, kept \in SUBSET Streams :
         /\ agent' = [runs |-> "exited", code |-> code]
         /\ open' = [s \in Streams |-> IF s \in kept THEN {"heir"} ELSE {}]
    /\ UNCHANGED <<call, row, wrote, pipe, ahead, got, quiet, answer>>

AgentCloses(s) ==
    /\ "agent" \in open[s]
    /\ open' = [open EXCEPT ![s] = @ \ {"agent"}]
    /\ UNCHANGED <<call, row, agent, wrote, pipe, ahead, got, quiet, answer>>

HeirEnds ==
    /\ \E s \in Streams : "heir" \in open[s]
    /\ open' = [s \in Streams |-> open[s] \ {"heir"}]
    /\ UNCHANGED <<call, row, agent, wrote, pipe, ahead, got, quiet, answer>>

Tick ==
    /\ call.pc \in {"poll", "select", "read", "idle"}
    /\ ~quiet
    /\ quiet' = TRUE
    /\ UNCHANGED <<call, row, agent, pipeVars, answer>>

\* Another process puts the worker to sleep, wakes or deletes it, or completes
\* the worker of a call that leaves that to others.
OtherUser ==
    /\ \/ /\ row.status = "running"
          /\ row' \in {[row EXCEPT !.status = "sleeping"], [row EXCEPT !.status = "deleted"]}
       \/ row.status = "sleeping" /\ row' = [row EXCEPT !.status = "running"]
       \/ /\ call.by \in {"noop", "tool"} /\ At("end")
          /\ row.status = "running"
          /\ row' = [row EXCEPT !.status = "completed"]
    /\ UNCHANGED <<call, outside, answer>>

World ==
    \/ \E s \in Streams : Write(s) \/ AgentCloses(s)
    \/ AgentExits \/ HeirEnds \/ Tick \/ OtherUser

RunNext == Watchdog \/ World

RunSpec == RunInit /\ [][RunNext]_runVars

\* The watching thread and the clock go on; the agent need not.
FairSpec == RunSpec /\ WF_runVars(Watchdog) /\ WF_runVars(Tick)

-----------------------------------------------------------------------------
(* Properties.                                                             *)

\* A read that nothing will complete: the pipe is empty and somebody who can
\* write to it lives.
Stuck == At("read") /\ ahead[First] < ReadSize /\ pipe[First] = 0 /\ open[First] # {}

\* Every call ends - its agent finishes or is killed - except one that waits
\* for ever in a read on a pipe that is held open: no agent that hangs before
\* it wrote anything, or after it closed its streams, holds up the caller
\* (an agent that never stops writing does, as it is meant to; MaxOut leaves
\* that one out).
Ends == <>At("end") \/ <>[]Stuck

\* A result recorded for an agent is that of a process that ended with code 0
\* and contains what was written but for less than one chunk that a read had
\* fetched ahead; and the originator is told what the row says, or nothing.
ResultIsReal ==
    /\ row.text = "result" /\ call.by \in {"track", "gateway"} =>
         /\ agent = [runs |-> "exited", code |-> 0]
         /\ got["out"] + ahead["out"] = wrote["out"]
         /\ ahead["out"] < ChunkSize
    /\ answer # Nothing => answer = row.text

\* What invoke_agent's docstring says: "It blocks until the subprocess exits or
\* goes idle for *timeout* seconds."  An agent that stays silent for so long
\* ends the call, unless it is heard of again.
IdleEndsCall == quiet ~> (~quiet \/ At("end"))
=============================================================================
