----------------------- MODULE SubagentRegistryProofs -----------------------
(***************************************************************************)
(* Proofs about the registry of subagents, for any workers, clients and    *)
(* results, and any number of saves.  A call decides on a row it has read  *)
(* and writes later by the identifier alone: the inductive invariant says  *)
(* what is still true of the row when the call writes, whatever the other  *)
(* calls have done to it.                                                  *)
(*                                                                         *)
(* The second part follows a worker outside the registry: the call that    *)
(* runs its agent's process and records what comes of it (AgentRun).       *)
(***************************************************************************)
EXTENDS SubagentRegistry, AgentRun, TLAPS

-----------------------------------------------------------------------------
(* The inductive invariant *)

\* What a client is about to write is of the kind that its column takes, and
\* about a worker that was registered once.
Writing(c) ==
    /\ pc[c] # "idle" => arg[c] \in issued
    /\ pc[c] = "updating" => value[c] \in Statuses
    /\ pc[c] = "completing" => value[c] \in Results

\* A worker that is done, or about to be archived, has been completed.
Done(w) == w \in rows /\ status[w] \in {"completed", "archived"} => w \in finished

Archiving(c) == pc[c] = "updating" /\ value[c] = "archived" => arg[c] \in finished

\* A call that has yet to report has committed what it will report.
Pending(c) == pc[c] = "reporting" => <<arg[c], value[c]>> \in recorded

\* metadata.json is of a save that has begun, and so are what a resume has read
\* of it and what a client is saving.
FilesOK(w) == metadata[w] <= saves[w]

Loaded(c) ==
    pc[c] \in {"loading_session", "saving_session", "saved_session",
              "saving_metadata", "saving_metadata_only"} =>
        context[c] <= saves[arg[c]]

Inv ==
    /\ TypeOK
    /\ \A c \in Client : Writing(c) /\ Archiving(c) /\ Pending(c) /\ Loaded(c)
    /\ \A w \in Worker : Done(w) /\ FilesOK(w)
    /\ Reporting

-----------------------------------------------------------------------------
(* What the common parts of the actions do to the clients. *)

ClientTypeOK ==
    /\ pc \in [Client -> Steps]
    /\ arg \in [Client -> Worker \cup {NoWorker}]
    /\ value \in [Client -> Statuses \cup Results \cup {NoResult}]
    /\ context \in [Client -> Saves]

Same(d) ==
    /\ pc'[d] = pc[d] /\ arg'[d] = arg[d]
    /\ value'[d] = value[d] /\ context'[d] = context[d]

LEMMA BeginFacts ==
    ASSUME ClientTypeOK, NEW c \in Client, NEW p \in Steps, NEW w \in Worker,
           NEW v \in Statuses \cup Results \cup {NoResult}, Begin(c, p, w, v)
    PROVE  /\ ClientTypeOK'
           /\ pc[c] = "idle"
           /\ pc'[c] = p /\ arg'[c] = w /\ value'[c] = v
           /\ \A d \in Client \ {c} : Same(d)
  BY MaxSavesAssumption DEF Begin, BeginWith, ClientTypeOK, Same, Saves, Absent

LEMMA BeginWithFacts ==
    ASSUME ClientTypeOK, NEW c \in Client, NEW p \in Steps, NEW w \in Worker,
           NEW v \in Statuses \cup Results \cup {NoResult}, NEW n \in Saves,
           BeginWith(c, p, w, v, n)
    PROVE  /\ ClientTypeOK'
           /\ pc[c] = "idle"
           /\ pc'[c] = p /\ arg'[c] = w /\ value'[c] = v /\ context'[c] = n
           /\ \A d \in Client \ {c} : Same(d)
  BY DEF BeginWith, ClientTypeOK, Same

LEMMA GotoFacts ==
    ASSUME ClientTypeOK, NEW c \in Client, NEW p \in Steps, Goto(c, p)
    PROVE  /\ ClientTypeOK'
           /\ pc'[c] = p
           /\ arg' = arg /\ value' = value /\ context' = context
           /\ \A d \in Client \ {c} : Same(d)
  BY DEF Goto, ClientTypeOK, Same

LEMMA ReturnFacts ==
    ASSUME ClientTypeOK, NEW c \in Client, Return(c)
    PROVE  /\ ClientTypeOK'
           /\ pc'[c] = "idle"
           /\ \A d \in Client \ {c} : Same(d)
  BY MaxSavesAssumption DEF Return, ClientTypeOK, Same, Steps, Saves, Absent

-----------------------------------------------------------------------------
(* What one step leaves of the facts of the others. *)

Facts(c) == Writing(c) /\ Archiving(c) /\ Pending(c) /\ Loaded(c)

Grows ==
    /\ issued \subseteq issued' /\ finished \subseteq finished'
    /\ recorded \subseteq recorded'
    /\ \A w \in Worker : saves[w] <= saves'[w]

LEMMA OthersKeepFacts ==
    ASSUME TypeOK, TypeOK', Grows, NEW d \in Client, Facts(d), Same(d)
    PROVE  Facts(d)'
  <1>1. Writing(d)' /\ Archiving(d)' /\ Pending(d)'
    BY DEF Facts, Same, Grows, Writing, Archiving, Pending
  <1>2. Loaded(d)'
    <2> SUFFICES ASSUME pc[d] \in {"loading_session", "saving_session", "saved_session",
                                  "saving_metadata", "saving_metadata_only"}
                 PROVE  context[d] <= saves'[arg[d]]
      BY DEF Same, Loaded
    <2>1. arg[d] \in Worker
      BY DEF Facts, Writing, TypeOK
    <2>2. context[d] <= saves[arg[d]] /\ saves[arg[d]] <= saves'[arg[d]]
      BY <2>1 DEF Facts, Loaded, Grows
    <2>3. context[d] \in Saves /\ saves[arg[d]] \in Saves
      BY <2>1 DEF TypeOK
    <2>4. saves'[arg[d]] \in Saves
      BY <2>1 DEF TypeOK
    <2>5. \A x, y, z \in Saves : x <= y /\ y <= z => x <= z
      <3> TAKE x, y, z \in Saves
      <3>1. x \in Int /\ y \in Int /\ z \in Int
        BY MaxSavesAssumption DEF Saves
      <3> QED  BY <3>1
    <2> QED  BY <2>2, <2>3, <2>4, <2>5, Zenon
  <1> QED  BY <1>1, <1>2 DEF Facts

\* A step of client c, from the facts of c alone.
LEMMA FactsStep ==
    ASSUME TypeOK, TypeOK', Grows, \A d \in Client : Facts(d),
           NEW c \in Client, \A d \in Client \ {c} : Same(d), Facts(c)'
    PROVE  \A d \in Client : Facts(d)'
  BY OthersKeepFacts

\* Who is not reporting may do anything to itself.
LEMMA ReportingKept ==
    ASSUME Reporting, NEW c \in Client, pc[c] # "reporting",
           \A d \in Client \ {c} : Same(d),
           UNCHANGED <<recorded, reported, lost>>
    PROVE  Reporting'
  <1> SUFFICES ASSUME NEW w \in Worker, NEW r \in Results,
                      <<w, r>> \in recorded \ (reported \cup lost)
               PROVE  \E d \in Client : pc'[d] = "reporting" /\ arg'[d] = w /\ value'[d] = r
    BY DEF Reporting
  <1>1. PICK d \in Client : pc[d] = "reporting" /\ arg[d] = w /\ value[d] = r
    BY DEF Reporting
  <1> QED  BY <1>1 DEF Same

\* A step of client c that leaves the files alone.
LEMMA StepKeepsInv ==
    ASSUME Inv, TypeOK', UNCHANGED files,
           issued \subseteq issued', finished \subseteq finished', recorded \subseteq recorded',
           NEW c \in Client, \A d \in Client \ {c} : Same(d), Facts(c)',
           \A w \in Worker : Done(w)', Reporting'
    PROVE  Inv'
  <1>1. \A w \in Worker : FilesOK(w)'
    BY DEF Inv, FilesOK, files
  <1>2. \A w \in Worker : saves[w] <= saves'[w]
    <2> TAKE w \in Worker
    <2>1. saves[w] \in Saves /\ saves'[w] = saves[w]
      BY DEF Inv, TypeOK, files
    <2>2. \A n \in Saves : n <= n
      BY MaxSavesAssumption DEF Saves
    <2> QED  BY <2>1, <2>2
  <1>3. \A d \in Client : Facts(d)'
    BY <1>2, FactsStep DEF Grows, Inv, Facts
  <1> QED  BY <1>1, <1>3 DEF Inv, Facts

\* A step that writes neither table nor files nor history: only what it
\* leaves true of its own client matters.
LEMMA ClientStepKeepsInv ==
    ASSUME Inv, ClientTypeOK', UNCHANGED <<table, files, history>>,
           NEW c \in Client, pc[c] # "reporting", \A d \in Client \ {c} : Same(d), Facts(c)'
    PROVE  Inv'
  <1>1. TypeOK'
    BY DEF Inv, TypeOK, ClientTypeOK, table, files, history
  <1>2. \A w \in Worker : Done(w)'
    BY DEF Inv, Done, table, history
  <1>3. Reporting'
    BY ReportingKept DEF Inv, history
  <1> QED  BY <1>1, <1>2, <1>3, StepKeepsInv DEF history

-----------------------------------------------------------------------------
(* The actions *)

LEMMA TypesOfClients == TypeOK => ClientTypeOK
  BY DEF TypeOK, ClientTypeOK

LEMMA RegisterKeepsInv ==
    ASSUME Inv, NEW w \in Worker, Register(w)
    PROVE  Inv'
  <1> USE DEF Register
  <1>1. TypeOK'
    BY DEF Inv, TypeOK, files, client, Statuses
  <1>2. \A d \in Client : Facts(d)'
    BY DEF Inv, Facts, Writing, Archiving, Pending, Loaded, client, files
  <1>3. \A x \in Worker : Done(x)' /\ FilesOK(x)'
    BY DEF Inv, TypeOK, Done, FilesOK, files
  <1>4. Reporting'
    BY DEF Inv, Reporting, client
  <1> QED  BY <1>1, <1>2, <1>3, <1>4 DEF Inv, Facts

LEMMA UpdateCheckKeepsInv ==
    ASSUME Inv, NEW c \in Client, NEW w \in Worker, NEW s \in Statuses,
           UpdateCheck(c, w, s)
    PROVE  Inv'
  <1>1. Begin(c, "updating", w, s) /\ w \in rows /\ s \in Transitions[status[w]]
    BY DEF UpdateCheck
  <1>2. /\ ClientTypeOK' /\ \A d \in Client \ {c} : Same(d)
        /\ pc[c] = "idle" /\ pc'[c] = "updating" /\ arg'[c] = w /\ value'[c] = s
    BY <1>1, BeginFacts, TypesOfClients DEF Inv, Steps
  <1>3. s = "archived" => status[w] = "completed"
    BY <1>1 DEF Inv, TypeOK, Statuses, Transitions
  <1>4. w \in issued /\ (s = "archived" => w \in finished)
    BY <1>1, <1>3 DEF Inv, TypeOK, Done
  <1>5. Facts(c)'
    BY <1>2, <1>4 DEF UpdateCheck, history, Facts, Writing, Archiving, Pending, Loaded
  <1> QED  BY <1>2, <1>5, ClientStepKeepsInv DEF UpdateCheck

LEMMA DeleteCheckKeepsInv ==
    ASSUME Inv, NEW c \in Client, NEW w \in Worker, DeleteCheck(c, w)
    PROVE  Inv'
  <1>1. Begin(c, "deleting", w, NoResult) /\ w \in issued
    BY DEF DeleteCheck, Inv, TypeOK
  <1>2. /\ ClientTypeOK' /\ \A d \in Client \ {c} : Same(d)
        /\ pc[c] = "idle" /\ pc'[c] = "deleting" /\ arg'[c] = w
    BY <1>1, BeginFacts, TypesOfClients DEF Inv, Steps
  <1>3. Facts(c)'
    BY <1>1, <1>2 DEF DeleteCheck, history, Facts, Writing, Archiving, Pending, Loaded
  <1> QED  BY <1>2, <1>3, ClientStepKeepsInv DEF DeleteCheck

LEMMA CompleteCheckKeepsInv ==
    ASSUME Inv, NEW c \in Client, NEW w \in Worker, NEW r \in Results,
           CompleteCheck(c, w, r)
    PROVE  Inv'
  <1>1. Begin(c, "completing", w, r) /\ w \in issued
    BY DEF CompleteCheck, Inv, TypeOK
  <1>2. /\ ClientTypeOK' /\ \A d \in Client \ {c} : Same(d)
        /\ pc[c] = "idle" /\ pc'[c] = "completing" /\ arg'[c] = w /\ value'[c] = r
    BY <1>1, BeginFacts, TypesOfClients DEF Inv, Steps
  <1>3. Facts(c)'
    BY <1>1, <1>2 DEF CompleteCheck, history, Facts, Writing, Archiving, Pending, Loaded
  <1> QED  BY <1>2, <1>3, ClientStepKeepsInv DEF CompleteCheck

LEMMA ResumeCheckKeepsInv ==
    ASSUME Inv, NEW c \in Client, NEW w \in Worker, ResumeCheck(c, w)
    PROVE  Inv'
  <1>1. Begin(c, "resuming", w, "running") /\ w \in issued
    BY DEF ResumeCheck, Inv, TypeOK
  <1>2. /\ ClientTypeOK' /\ \A d \in Client \ {c} : Same(d)
        /\ pc[c] = "idle" /\ pc'[c] = "resuming" /\ arg'[c] = w
    BY <1>1, BeginFacts, TypesOfClients DEF Inv, Steps, Statuses
  <1>3. Facts(c)'
    BY <1>1, <1>2 DEF ResumeCheck, history, Facts, Writing, Archiving, Pending, Loaded
  <1> QED  BY <1>2, <1>3, ClientStepKeepsInv DEF ResumeCheck

LEMMA UpdateWriteKeepsInv ==
    ASSUME Inv, NEW c \in Client, UpdateWrite(c)
    PROVE  Inv'
  <1>1. /\ ClientTypeOK' /\ pc'[c] = "idle" /\ \A d \in Client \ {c} : Same(d)
    BY ReturnFacts, TypesOfClients DEF Inv, UpdateWrite
  <1>2. arg[c] \in Worker /\ arg[c] \in issued /\ value[c] \in Statuses
    BY DEF UpdateWrite, Inv, Writing, TypeOK
  <1>3. TypeOK'
    BY <1>1, <1>2 DEF UpdateWrite, Inv, TypeOK, ClientTypeOK, files
  <1>4. ASSUME NEW w \in Worker  PROVE Done(w)'
    <2>1. CASE arg[c] \in rows /\ w = arg[c]
      <3>1. status'[w] = value[c] /\ (value[c] = "completed" => w \in finished')
        BY <2>1, <1>2 DEF UpdateWrite, Inv, TypeOK
      <3>2. finished \subseteq finished' /\ (value[c] = "archived" => w \in finished)
        BY <2>1 DEF UpdateWrite, Inv, Archiving
      <3> QED  BY <3>1, <3>2 DEF Done
    <2>2. CASE ~ (arg[c] \in rows /\ w = arg[c])
      <3>1. (w \in rows => status'[w] = status[w]) /\ rows' = rows /\ finished \subseteq finished'
        BY <2>2, <1>2 DEF UpdateWrite, Inv, TypeOK
      <3> QED  BY <3>1 DEF Done, Inv
    <2> QED  BY <2>1, <2>2
  <1>5. Reporting'
    BY <1>1, ReportingKept DEF Inv, UpdateWrite
  <1>6. Facts(c)'
    BY <1>1 DEF Facts, Writing, Archiving, Pending, Loaded
  <1> QED  BY <1>1, <1>3, <1>4, <1>5, <1>6, StepKeepsInv DEF UpdateWrite

LEMMA DeleteRowKeepsInv ==
    ASSUME Inv, NEW c \in Client, DeleteRow(c)
    PROVE  Inv'
  <1>1. /\ ClientTypeOK' /\ pc'[c] = "idle" /\ \A d \in Client \ {c} : Same(d)
    BY ReturnFacts, TypesOfClients DEF Inv, DeleteRow
  <1>2. TypeOK'
    BY <1>1 DEF DeleteRow, Inv, TypeOK, ClientTypeOK, files, history
  <1>3. \A w \in Worker : Done(w)'
    BY DEF DeleteRow, history, Done, Inv
  <1>4. Reporting'
    BY <1>1, ReportingKept DEF Inv, DeleteRow, history
  <1>5. Facts(c)'
    BY <1>1 DEF Facts, Writing, Archiving, Pending, Loaded
  <1> QED  BY <1>1, <1>2, <1>3, <1>4, <1>5, StepKeepsInv DEF DeleteRow, history

\* The commit: the result is recorded, and the call is the one to report it.
LEMMA CompleteWriteKeepsInv ==
    ASSUME Inv, NEW c \in Client, CompleteWrite(c)
    PROVE  Inv'
  <1>0. arg[c] \in Worker /\ arg[c] \in issued /\ value[c] \in Results
    BY DEF CompleteWrite, Inv, Writing, TypeOK
  <1>1. CASE arg[c] \in rows
    <2>1. /\ ClientTypeOK' /\ \A d \in Client \ {c} : Same(d)
          /\ pc'[c] = "reporting" /\ arg' = arg /\ value' = value /\ context' = context
      BY <1>1, GotoFacts, TypesOfClients DEF Inv, CompleteWrite, Steps
    <2>2. TypeOK'
      BY <1>0, <1>1, <2>1 DEF CompleteWrite, Inv, TypeOK, ClientTypeOK, files, Statuses
    <2>3. ASSUME NEW w \in Worker  PROVE Done(w)'
      BY <1>0, <1>1 DEF CompleteWrite, Inv, TypeOK, Done
    <2>4. Facts(c)'
      BY <1>0, <1>1, <2>1 DEF CompleteWrite, Facts, Writing, Archiving, Pending, Loaded
    <2>5. Reporting'
      <3>1. reported' \cup lost' \subseteq recorded'
        BY <1>1 DEF CompleteWrite, Inv, Reporting
      <3>2. ASSUME NEW w \in Worker, NEW r \in Results,
                   <<w, r>> \in recorded' \ (reported' \cup lost')
            PROVE  \E d \in Client : pc'[d] = "reporting" /\ arg'[d] = w /\ value'[d] = r
        <4>1. CASE w = arg[c] /\ r = value[c]
          BY <2>1, <4>1
        <4>2. CASE ~ (w = arg[c] /\ r = value[c])
          <5>1. <<w, r>> \in recorded \ (reported \cup lost)
            BY <1>1, <3>2, <4>2 DEF CompleteWrite
          <5>2. PICK d \in Client : pc[d] = "reporting" /\ arg[d] = w /\ value[d] = r
            BY <5>1 DEF Inv, Reporting
          <5>3. d # c
            BY <5>2 DEF CompleteWrite
          <5> QED  BY <5>2, <5>3, <2>1 DEF Same
        <4> QED  BY <4>1, <4>2
      <3> QED  BY <3>1, <3>2 DEF Reporting
    <2> QED  BY <1>1, <2>1, <2>2, <2>3, <2>4, <2>5, StepKeepsInv DEF CompleteWrite
  <1>2. CASE arg[c] \notin rows
    <2>1. /\ ClientTypeOK' /\ pc'[c] = "idle" /\ \A d \in Client \ {c} : Same(d)
      BY <1>2, ReturnFacts, TypesOfClients DEF Inv, CompleteWrite
    <2>2. Facts(c)'
      BY <2>1 DEF Facts, Writing, Archiving, Pending, Loaded
    <2> QED  BY <1>2, <2>1, <2>2, ClientStepKeepsInv DEF CompleteWrite
  <1> QED  BY <1>1, <1>2

\* A call that reports, or dies before it does, settles its own result: the
\* results that stay open have another client that is to report them.
LEMMA SettlingKeepsReporting ==
    ASSUME Inv, NEW c \in Client, \A d \in Client \ {c} : Same(d),
           recorded' = recorded, reported' \cup lost' \subseteq recorded,
           reported \cup lost \subseteq reported' \cup lost',
           pc[c] = "reporting" => <<arg[c], value[c]>> \in reported' \cup lost'
    PROVE  Reporting'
  <1> SUFFICES ASSUME NEW w \in Worker, NEW r \in Results,
                      <<w, r>> \in recorded \ (reported' \cup lost')
               PROVE  \E d \in Client : pc'[d] = "reporting" /\ arg'[d] = w /\ value'[d] = r
    BY DEF Reporting
  <1>1. PICK d \in Client : pc[d] = "reporting" /\ arg[d] = w /\ value[d] = r
    BY DEF Inv, Reporting
  <1> QED  BY <1>1 DEF Same

LEMMA ReportKeepsInv ==
    ASSUME Inv, NEW c \in Client, Report(c)
    PROVE  Inv'
  <1>1. /\ ClientTypeOK' /\ pc'[c] = "idle" /\ \A d \in Client \ {c} : Same(d)
    BY ReturnFacts, TypesOfClients DEF Inv, Report
  <1>2. <<arg[c], value[c]>> \in recorded
    BY DEF Report, Inv, Pending
  <1>3. TypeOK'
    BY <1>1, <1>2 DEF Report, Inv, TypeOK, ClientTypeOK, table, files
  <1>4. \A w \in Worker : Done(w)'
    BY DEF Report, Inv, Done, table
  <1>5. Facts(c)'
    BY <1>1 DEF Facts, Writing, Archiving, Pending, Loaded
  <1>6. /\ reported' \cup lost' \subseteq recorded
        /\ reported \cup lost \subseteq reported' \cup lost'
        /\ <<arg[c], value[c]>> \in reported' \cup lost'
    BY <1>2 DEF Report, Inv, Reporting
  <1>7. Reporting'
    BY <1>1, <1>6, SettlingKeepsReporting DEF Report
  <1> QED  BY <1>1, <1>3, <1>4, <1>5, <1>7, StepKeepsInv DEF Report

LEMMA CrashKeepsInv ==
    ASSUME Inv, NEW c \in Client, Crash(c)
    PROVE  Inv'
  <1>1. /\ ClientTypeOK' /\ pc'[c] = "idle" /\ \A d \in Client \ {c} : Same(d)
    BY ReturnFacts, TypesOfClients DEF Inv, Crash
  <1>2. pc[c] = "reporting" => <<arg[c], value[c]>> \in recorded
    BY DEF Inv, Pending
  <1>3. TypeOK'
    <2>1. drift' \in [Worker -> Drifts]
      BY DEF Crash, Becomes, Inv, TypeOK, Drifts
    <2> QED  BY <1>1, <2>1 DEF Crash, Inv, TypeOK, ClientTypeOK, table, files
  <1>4. \A w \in Worker : Done(w)'
    BY DEF Crash, Inv, Done, table
  <1>5. Facts(c)'
    BY <1>1 DEF Facts, Writing, Archiving, Pending, Loaded
  <1>6. /\ reported' \cup lost' \subseteq recorded
        /\ reported \cup lost \subseteq reported' \cup lost'
        /\ pc[c] = "reporting" => <<arg[c], value[c]>> \in reported' \cup lost'
    BY <1>2 DEF Crash, Inv, Reporting
  <1>7. Reporting'
    BY <1>1, <1>6, SettlingKeepsReporting DEF Crash
  <1> QED  BY <1>1, <1>3, <1>4, <1>5, <1>7, StepKeepsInv DEF Crash

LEMMA ResumeWriteKeepsInv ==
    ASSUME Inv, NEW c \in Client, ResumeWrite(c)
    PROVE  Inv'
  <1>0. arg[c] \in Worker /\ arg[c] \in issued
    BY DEF ResumeWrite, Inv, Writing, TypeOK
  <1>1. CASE arg[c] \in rows
    <2>1. /\ ClientTypeOK' /\ pc'[c] = "loading_metadata" /\ arg' = arg
          /\ \A d \in Client \ {c} : Same(d)
      BY <1>1, GotoFacts, TypesOfClients DEF Inv, ResumeWrite, Steps, LoadSteps
    <2>2. TypeOK'
      BY <1>0, <1>1, <2>1
         DEF ResumeWrite, Inv, TypeOK, ClientTypeOK, files, history, Statuses
    <2>3. ASSUME NEW w \in Worker  PROVE Done(w)'
      BY <1>0, <1>1 DEF ResumeWrite, Inv, TypeOK, Done, history
    <2>4. Facts(c)'
      BY <1>0, <2>1 DEF ResumeWrite, history, Facts, Writing, Archiving, Pending, Loaded
    <2>5. Reporting'
      BY <2>1, ReportingKept DEF Inv, ResumeWrite, history
    <2> QED  BY <2>1, <2>2, <2>3, <2>4, <2>5, StepKeepsInv DEF ResumeWrite, history
  <1>2. CASE arg[c] \notin rows
    <2>1. /\ ClientTypeOK' /\ pc'[c] = "idle" /\ \A d \in Client \ {c} : Same(d)
      BY <1>2, ReturnFacts, TypesOfClients DEF Inv, ResumeWrite
    <2>2. Facts(c)'
      BY <2>1 DEF Facts, Writing, Archiving, Pending, Loaded
    <2> QED  BY <1>2, <2>1, <2>2, ClientStepKeepsInv DEF ResumeWrite, table
  <1> QED  BY <1>1, <1>2

\* What the resume reads of metadata.json is a save that has begun.
LEMMA LoadMetadataKeepsInv ==
    ASSUME Inv, NEW c \in Client, LoadMetadata(c)
    PROVE  Inv'
  <1>0. arg[c] \in Worker /\ arg[c] \in issued
    BY DEF LoadMetadata, Inv, Writing, TypeOK
  <1>1. CASE metadata[arg[c]] \in {Absent, Torn}
    <2>1. /\ ClientTypeOK' /\ pc'[c] = "idle" /\ \A d \in Client \ {c} : Same(d)
      BY <1>1, ReturnFacts, TypesOfClients DEF Inv, LoadMetadata
    <2>2. Facts(c)'
      BY <2>1 DEF Facts, Writing, Archiving, Pending, Loaded
    <2> QED  BY <2>1, <2>2, ClientStepKeepsInv DEF LoadMetadata
  <1>2. CASE metadata[arg[c]] \notin {Absent, Torn}
    <2>1. metadata[arg[c]] \in Saves /\ metadata[arg[c]] <= saves[arg[c]]
      BY <1>0, <1>2 DEF Inv, TypeOK, Contents, FilesOK
    <2>2. /\ pc' = [pc EXCEPT ![c] = "loading_session"]
          /\ context' = [context EXCEPT ![c] = metadata[arg[c]]]
          /\ arg' = arg /\ value' = value
      BY <1>2 DEF LoadMetadata
    <2>3. ClientTypeOK' /\ \A d \in Client \ {c} : Same(d)
      BY <2>1, <2>2 DEF Inv, TypeOK, ClientTypeOK, Same, Steps, LoadSteps
    <2>4. pc'[c] = "loading_session" /\ context'[c] = metadata[arg[c]]
      BY <2>2 DEF Inv, TypeOK
    <2>5. Loaded(c)'
      BY <2>1, <2>2, <2>4 DEF LoadMetadata, files, Loaded
    <2>6. Facts(c)'
      BY <1>0, <2>2, <2>4, <2>5
         DEF LoadMetadata, history, Facts, Writing, Archiving, Pending
    <2> QED  BY <2>3, <2>6, ClientStepKeepsInv DEF LoadMetadata
  <1> QED  BY <1>1, <1>2

LEMMA LoadSessionKeepsInv ==
    ASSUME Inv, NEW c \in Client, LoadSession(c)
    PROVE  Inv'
  <1>1. CASE session[arg[c]] = Torn
    <2>1. /\ ClientTypeOK' /\ pc'[c] = "idle" /\ \A d \in Client \ {c} : Same(d)
      BY <1>1, ReturnFacts, TypesOfClients DEF Inv, LoadSession
    <2>2. Facts(c)'
      BY <2>1 DEF Facts, Writing, Archiving, Pending, Loaded
    <2> QED  BY <2>1, <2>2, ClientStepKeepsInv DEF LoadSession
  <1>2. CASE session[arg[c]] # Torn
    <2>1. /\ ClientTypeOK' /\ pc'[c] = "resumed" /\ arg' = arg
          /\ \A d \in Client \ {c} : Same(d)
      BY <1>2, GotoFacts, TypesOfClients DEF Inv, LoadSession, Steps
    <2>2. arg[c] \in issued
      BY DEF LoadSession, Inv, Writing
    <2>3. Facts(c)'
      BY <2>1, <2>2 DEF LoadSession, history, Facts, Writing, Archiving, Pending, Loaded
    <2> QED  BY <2>1, <2>3, ClientStepKeepsInv DEF LoadSession
  <1> QED  BY <1>1, <1>2

LEMMA ResumeReturnKeepsInv ==
    ASSUME Inv, NEW c \in Client, ResumeReturn(c)
    PROVE  Inv'
  <1>1. /\ ClientTypeOK' /\ pc'[c] = "idle" /\ \A d \in Client \ {c} : Same(d)
    BY ReturnFacts, TypesOfClients DEF Inv, ResumeReturn
  <1>2. Facts(c)'
    BY <1>1 DEF Facts, Writing, Archiving, Pending, Loaded
  <1> QED  BY <1>1, <1>2, ClientStepKeepsInv DEF ResumeReturn

-----------------------------------------------------------------------------
(* Saving *)

\* A step of a save: the table and the history of calls stay, the saves only
\* grow.
LEMMA SavingKeepsInv ==
    ASSUME Inv, ClientTypeOK',
           UNCHANGED <<table, issued, finished, recorded, reported, lost>>,
           drift' \in [Worker -> Drifts],
           saves' \in [Worker -> Saves], session' \in [Worker -> Contents],
           metadata' \in [Worker -> Contents],
           \A w \in Worker : saves[w] <= saves'[w] /\ FilesOK(w)',
           NEW c \in Client, pc[c] # "reporting", \A d \in Client \ {c} : Same(d), Facts(c)'
    PROVE  Inv'
  <1>1. TypeOK'
    BY DEF Inv, TypeOK, ClientTypeOK, table
  <1>2. \A w \in Worker : Done(w)'
    BY DEF Inv, Done, table
  <1>3. Reporting'
    BY ReportingKept DEF Inv
  <1>4. \A d \in Client : Facts(d)'
    BY <1>1, FactsStep DEF Grows, Inv, Facts
  <1> QED  BY <1>1, <1>2, <1>3, <1>4 DEF Inv, Facts

LEMMA SavesAreOrdered ==
    /\ \A n \in Saves : n <= n
    /\ \A n \in Saves : n < MaxSaves => n + 1 \in Saves /\ n <= n + 1
    /\ \A m \in Contents, n \in Saves : m <= n => m <= n + 1
    /\ \A n \in Saves : Torn <= n
    /\ \A n \in Saves : n # Torn
  BY MaxSavesAssumption DEF Saves, Contents, Torn

LEMMA SaveStartKeepsInv ==
    ASSUME Inv, NEW c \in Client, NEW w \in Worker,
           NEW step \in {"saving_session", "saving_metadata_only"}, SaveStart(c, w, step)
    PROVE  Inv'
  <1>1. /\ saves[w] \in Saves /\ saves[w] + 1 \in Saves /\ saves[w] <= saves[w] + 1
        /\ metadata[w] <= saves[w] + 1 /\ saves[w] + 1 <= saves[w] + 1
        /\ Torn <= saves[w] + 1
    BY SavesAreOrdered DEF SaveStart, Inv, TypeOK, FilesOK
  <1>2. /\ ClientTypeOK' /\ pc[c] = "idle" /\ pc'[c] = step /\ arg'[c] = w
        /\ context'[c] = saves[w] + 1 /\ \A d \in Client \ {c} : Same(d)
    BY <1>1, BeginWithFacts, TypesOfClients DEF SaveStart, Inv, Steps, SaveSteps
  <1>3. /\ saves' = [saves EXCEPT ![w] = saves[w] + 1] /\ w \in issued
        /\ drift' \in [Worker -> Drifts]
    BY DEF SaveStart, Inv, TypeOK, Drifts
  <1>4. saves' \in [Worker -> Saves] /\ saves'[w] = saves[w] + 1
    BY <1>1, <1>3 DEF Inv, TypeOK
  <1>5. session' \in [Worker -> Contents] /\ metadata' \in [Worker -> Contents]
    BY DEF SaveStart, Inv, TypeOK, Contents
  <1>6. Facts(c)'
    <2>1. Loaded(c)'
      BY <1>1, <1>2, <1>4 DEF Loaded
    <2> QED  BY <1>2, <1>3, <2>1 DEF SaveStart, Facts, Writing, Archiving, Pending
  <1>7. ASSUME NEW v \in Worker  PROVE saves[v] <= saves'[v] /\ FilesOK(v)'
    <2>1. CASE v = w
      <3>1. metadata'[v] \in {Torn, metadata[w]}
        BY <2>1 DEF SaveStart, Inv, TypeOK
      <3> QED  BY <3>1, <2>1, <1>1, <1>4 DEF FilesOK
    <2>2. CASE v # w
      <3>1. saves'[v] = saves[v] /\ metadata'[v] = metadata[v]
        BY <2>2, <1>3 DEF SaveStart, Inv, TypeOK
      <3>2. saves[v] <= saves[v]
        BY SavesAreOrdered DEF Inv, TypeOK
      <3> QED  BY <3>1, <3>2 DEF Inv, FilesOK
    <2> QED  BY <2>1, <2>2
  <1> QED  BY <1>2, <1>3, <1>4, <1>5, <1>6, <1>7, SavingKeepsInv DEF SaveStart

\* What a client writes to a file is its own save, or the mixture of two.
LEMMA WrittenFacts ==
    ASSUME Inv, NEW c \in Client, pc[c] \in SaveSteps, NEW x \in Written(c)
    PROVE  /\ arg[c] \in Worker /\ arg[c] \in issued
           /\ saves[arg[c]] \in Saves
           /\ x \in Contents /\ x <= saves[arg[c]]
           /\ drift[arg[c]] # "raced" => x = context[c]
  <1>1. arg[c] \in Worker /\ arg[c] \in issued
    BY DEF SaveSteps, Inv, Writing, TypeOK
  <1>2. saves[arg[c]] \in Saves /\ context[c] \in Saves /\ context[c] <= saves[arg[c]]
    BY <1>1 DEF SaveSteps, Inv, TypeOK, Loaded
  <1>3. x \in {context[c], Torn} /\ (drift[arg[c]] # "raced" => x = context[c])
    BY DEF Written
  <1>4. x \in Contents
    BY <1>2, <1>3 DEF Contents
  <1>5. x <= saves[arg[c]]
    BY <1>2, <1>3, SavesAreOrdered
  <1> QED  BY <1>1, <1>2, <1>3, <1>4, <1>5

\* No save begins in the later steps of one.
LEMMA SavesStay ==
    ASSUME Inv, saves' = saves
    PROVE  saves' \in [Worker -> Saves] /\ \A v \in Worker : saves[v] <= saves'[v]
  BY SavesAreOrdered DEF Inv, TypeOK

LEMMA SaveSessionKeepsInv ==
    ASSUME Inv, NEW c \in Client, SaveSession(c)
    PROVE  Inv'
  <1>1. PICK x \in Written(c) : session' = [session EXCEPT ![arg[c]] = x]
    BY DEF SaveSession
  <1>2. /\ arg[c] \in Worker /\ arg[c] \in issued /\ x \in Contents
        /\ pc[c] = "saving_session" /\ Loaded(c)
    BY <1>1, WrittenFacts DEF SaveSession, SaveSteps, Inv
  <1>3. session' \in [Worker -> Contents] /\ drift' \in [Worker -> Drifts]
    BY <1>1, <1>2 DEF SaveSession, Becomes, Inv, TypeOK, Drifts
  <1>4. /\ ClientTypeOK' /\ \A d \in Client \ {c} : Same(d)
        /\ \/ pc'[c] = "idle"
           \/ pc'[c] = "saved_session" /\ arg' = arg /\ context' = context
    BY GotoFacts, ReturnFacts, TypesOfClients DEF SaveSession, Inv, Steps, SaveSteps
  <1>5. Facts(c)'
    BY <1>2, <1>4 DEF SaveSession, Facts, Writing, Archiving, Pending, Loaded
  <1>6. metadata' \in [Worker -> Contents] /\ \A v \in Worker : FilesOK(v)'
    BY DEF SaveSession, Inv, TypeOK, FilesOK
  <1> QED  BY <1>2, <1>3, <1>4, <1>5, <1>6, SavesStay, SavingKeepsInv DEF SaveSession

LEMMA SaveMetadataOpenKeepsInv ==
    ASSUME Inv, NEW c \in Client, SaveMetadataOpen(c)
    PROVE  Inv'
  <1>1. arg[c] \in Worker /\ arg[c] \in issued /\ pc[c] = "saved_session" /\ Loaded(c)
    BY DEF SaveMetadataOpen, Inv, Writing, TypeOK
  <1>2. /\ ClientTypeOK' /\ pc'[c] = "saving_metadata" /\ arg' = arg
        /\ context' = context /\ \A d \in Client \ {c} : Same(d)
    BY GotoFacts, TypesOfClients DEF SaveMetadataOpen, Inv, Steps, SaveSteps
  <1>3. Facts(c)'
    BY <1>1, <1>2 DEF SaveMetadataOpen, history, Facts, Writing, Archiving, Pending, Loaded
  <1>4. /\ session' \in [Worker -> Contents] /\ metadata' \in [Worker -> Contents]
        /\ drift' \in [Worker -> Drifts]
    BY DEF SaveMetadataOpen, history, Inv, TypeOK, Contents
  <1>5. ASSUME NEW v \in Worker  PROVE FilesOK(v)'
    <2>1. metadata'[v] \in {Torn, metadata[v]} /\ saves'[v] = saves[v]
      BY DEF SaveMetadataOpen, Inv, TypeOK
    <2> QED  BY <2>1, SavesAreOrdered DEF Inv, TypeOK, FilesOK
  <1> QED  BY <1>1, <1>2, <1>3, <1>4, <1>5, SavesStay, SavingKeepsInv
              DEF SaveMetadataOpen, history

LEMMA SaveMetadataKeepsInv ==
    ASSUME Inv, NEW c \in Client, SaveMetadata(c)
    PROVE  Inv'
  <1>1. PICK x \in Written(c) : metadata' = [metadata EXCEPT ![arg[c]] = x]
    BY DEF SaveMetadata
  <1>2. /\ arg[c] \in Worker /\ x \in Contents /\ x <= saves[arg[c]]
        /\ pc[c] # "reporting"
    BY <1>1, WrittenFacts DEF SaveMetadata, SaveSteps
  <1>3. /\ session' \in [Worker -> Contents] /\ metadata' \in [Worker -> Contents]
        /\ drift' \in [Worker -> Drifts]
    BY <1>1, <1>2 DEF SaveMetadata, Becomes, Inv, TypeOK, Drifts
  <1>4. /\ ClientTypeOK' /\ pc'[c] = "idle" /\ \A d \in Client \ {c} : Same(d)
    BY ReturnFacts, TypesOfClients DEF SaveMetadata, Inv
  <1>5. Facts(c)'
    BY <1>4 DEF Facts, Writing, Archiving, Pending, Loaded
  <1>6. ASSUME NEW v \in Worker  PROVE FilesOK(v)'
    <2>1. \/ v = arg[c] /\ metadata'[v] = x
          \/ metadata'[v] = metadata[v]
      BY <1>1, <1>2 DEF Inv, TypeOK
    <2> QED  BY <1>2, <2>1 DEF SaveMetadata, Inv, FilesOK
  <1> QED  BY <1>2, <1>3, <1>4, <1>5, <1>6, SavesStay, SavingKeepsInv DEF SaveMetadata

-----------------------------------------------------------------------------
(* The theorems *)

LEMMA InitHasInv == Init => Inv
  <1> SUFFICES ASSUME Init  PROVE Inv
    OBVIOUS
  <1>1. Absent \in Saves /\ Absent <= Absent
    BY MaxSavesAssumption DEF Absent, Saves
  <1>2. saves = [w \in Worker |-> Absent]
    BY DEF Init, Absent
  <1>3. TypeOK
    BY <1>1, <1>2 DEF Init, TypeOK, Statuses, Steps, Contents, Drifts
  <1>4. \A c \in Client : Writing(c) /\ Archiving(c) /\ Pending(c) /\ Loaded(c)
    BY DEF Init, Writing, Archiving, Pending, Loaded
  <1>5. \A w \in Worker : Done(w) /\ FilesOK(w)
    BY <1>1, <1>2 DEF Init, Done, FilesOK
  <1>6. Reporting
    BY DEF Init, Reporting
  <1> QED  BY <1>3, <1>4, <1>5, <1>6 DEF Inv

LEMMA NextKeepsInv == Inv /\ [Next]_vars => Inv'
  <1> SUFFICES ASSUME Inv, [Next]_vars  PROVE Inv'
    OBVIOUS
  <1>1. ASSUME NEW w \in Worker, Register(w)  PROVE Inv'
    BY <1>1, RegisterKeepsInv
  <1>2. ASSUME NEW c \in Client, NEW w \in Worker, NEW s \in Statuses, UpdateCheck(c, w, s)
        PROVE  Inv'
    BY <1>2, UpdateCheckKeepsInv
  <1>3. ASSUME NEW c \in Client, UpdateWrite(c)  PROVE Inv'
    BY <1>3, UpdateWriteKeepsInv
  <1>4. ASSUME NEW c \in Client, NEW w \in Worker, DeleteCheck(c, w)  PROVE Inv'
    BY <1>4, DeleteCheckKeepsInv
  <1>5. ASSUME NEW c \in Client, DeleteRow(c)  PROVE Inv'
    BY <1>5, DeleteRowKeepsInv
  <1>6. ASSUME NEW c \in Client, NEW w \in Worker, NEW r \in Results, CompleteCheck(c, w, r)
        PROVE  Inv'
    BY <1>6, CompleteCheckKeepsInv
  <1>7. ASSUME NEW c \in Client, CompleteWrite(c)  PROVE Inv'
    BY <1>7, CompleteWriteKeepsInv
  <1>8. ASSUME NEW c \in Client, Report(c)  PROVE Inv'
    BY <1>8, ReportKeepsInv
  <1>9. ASSUME NEW c \in Client, NEW w \in Worker,
               NEW step \in {"saving_session", "saving_metadata_only"}, SaveStart(c, w, step)
        PROVE  Inv'
    BY <1>9, SaveStartKeepsInv
  <1>10. ASSUME NEW c \in Client,
                SaveSession(c) \/ SaveMetadataOpen(c) \/ SaveMetadata(c)
         PROVE  Inv'
    BY <1>10, SaveSessionKeepsInv, SaveMetadataOpenKeepsInv, SaveMetadataKeepsInv
  <1>11. ASSUME NEW c \in Client, NEW w \in Worker, ResumeCheck(c, w)  PROVE Inv'
    BY <1>11, ResumeCheckKeepsInv
  <1>12. ASSUME NEW c \in Client, ResumeWrite(c)  PROVE Inv'
    BY <1>12, ResumeWriteKeepsInv
  <1>13. ASSUME NEW c \in Client, LoadMetadata(c)  PROVE Inv'
    BY <1>13, LoadMetadataKeepsInv
  <1>14. ASSUME NEW c \in Client, LoadSession(c)  PROVE Inv'
    BY <1>14, LoadSessionKeepsInv
  <1>15. ASSUME NEW c \in Client, ResumeReturn(c)  PROVE Inv'
    BY <1>15, ResumeReturnKeepsInv
  <1>16. ASSUME NEW c \in Client, Crash(c)  PROVE Inv'
    BY <1>16, CrashKeepsInv
  <1>17. CASE UNCHANGED vars
    BY <1>17 DEF vars, Inv, TypeOK, Writing, Archiving, Pending, Loaded, Done, FilesOK, Reporting
  <1> QED
    BY <1>1, <1>2, <1>3, <1>4, <1>5, <1>6, <1>7, <1>8, <1>9, <1>10, <1>11, <1>12,
       <1>13, <1>14, <1>15, <1>16, <1>17 DEF Next

LEMMA InvHolds == Spec => []Inv
  BY InitHasInv, NextKeepsInv, PTL DEF Spec

\* Type correctness: in particular a row is one of a registered worker, and
\* what a client commits as a result is one (complete, update_status).
THEOREM TypeCorrect == Spec => []TypeOK
  <1>1. Inv => TypeOK
    BY DEF Inv
  <1> QED  BY <1>1, InvHolds, PTL

\* complete() calls its callbacks with results that are committed, and misses
\* none whose call survives and whose row is still there, whatever the other
\* clients do between the commit and the get.
THEOREM ReportingHolds == Spec => []Reporting
  <1>1. Inv => Reporting
    BY DEF Inv
  <1> QED  BY <1>1, InvHolds, PTL

\* A status write that was decided on an old row still archives only workers
\* that were completed: being completed once is what update_status read, and
\* it stays true.
THEOREM ArchivedWasFinishedHolds == Spec => []ArchivedWasFinished
  <1>1. Inv => ArchivedWasFinished
    BY DEF Inv, TypeOK, Done, ArchivedWasFinished
  <1> QED  BY <1>1, InvHolds, PTL

\* The result column of a row is only ever overwritten by another result.
THEOREM ResultKeptHolds == Spec => ResultKept
  <1>1. Inv /\ [Next]_vars => [ResultKeptStep]_vars
    <2> SUFFICES ASSUME Inv, Next  PROVE ResultKeptStep
      BY DEF ResultKeptStep, vars
    <2> SUFFICES ASSUME NEW w \in Worker, w \in rows, result[w] # NoResult
                 PROVE  result'[w] # NoResult
      BY DEF ResultKeptStep, Inv, TypeOK
    <2>1. ASSUME NEW v \in Worker, Register(v)  PROVE result'[w] = result[w]
      BY <2>1 DEF Register, Inv, TypeOK
    <2>2. ASSUME NEW c \in Client, CompleteWrite(c)  PROVE result'[w] # NoResult
      <3>1. value[c] \in Results
        BY <2>2 DEF CompleteWrite, Inv, Writing
      <3>2. result'[w] \in {result[w], value[c]}
        BY <2>2 DEF CompleteWrite, Inv, TypeOK, table
      <3> QED  BY <3>1, <3>2, NoResultAssumption
    <2>3. CASE UNCHANGED result
      BY <2>3
    <2> QED
      BY <2>1, <2>2, <2>3
         DEF Next, UpdateCheck, UpdateWrite, DeleteCheck, DeleteRow, CompleteCheck, Report,
             SaveStart, SaveSession, SaveMetadataOpen, SaveMetadata, ResumeCheck, ResumeWrite,
             LoadMetadata, LoadSession, ResumeReturn, Crash, table
  <1> QED  BY <1>1, InvHolds, PTL DEF Spec, ResultKept

\* Only register() inserts rows, and it never gives an identifier out again.
THEOREM NeverReturnsHolds == Spec => NeverReturns
  <1>1. Next => rows' \cap issued \subseteq rows
    BY DEF Next, Register, UpdateCheck, UpdateWrite, DeleteCheck, DeleteRow, CompleteCheck,
           CompleteWrite, Report, SaveStart, SaveSession, SaveMetadataOpen, SaveMetadata,
           ResumeCheck, ResumeWrite, LoadMetadata, LoadSession, ResumeReturn, Crash, table
  <1>2. [Next]_vars => [rows' \cap issued \subseteq rows]_vars
    BY <1>1
  <1> QED  BY <1>2, PTL DEF Spec, NeverReturns

-----------------------------------------------------------------------------
(* The two files of a worker.  A second invariant says how they stand to   *)
(* each other, and to what resumes have read, while no saves have          *)
(* overlapped.                                                             *)

Saver(c, w) == pc[c] \in SaveSteps /\ arg[c] = w
Loader(c, w) == pc[c] = "loading_session" /\ arg[c] = w

\* session.json cannot be read, or is as recent as all there is of metadata.
Behind(w) ==
    \/ session[w] = Torn
    \/ /\ metadata[w] <= session[w]
       /\ \A c \in Client : Loader(c, w) => context[c] <= session[w]

\* The only saver writes the last save, and has written its session by the
\* time it turns to the metadata.
Alone(w) ==
    /\ \A c, d \in Client : Saver(c, w) /\ Saver(d, w) => c = d
    /\ \A c \in Client : Saver(c, w) =>
          /\ context[c] = saves[w]
          /\ pc[c] \in {"saved_session", "saving_metadata"} => session[w] = saves[w]

Tidy(w) ==
    drift[w] # "raced" =>
        /\ Alone(w)
        /\ drift[w] \in {"same", "ahead"} => Behind(w)
        /\ drift[w] = "same" /\ ~ Saving(w) => session[w] = metadata[w]

\* A step that leaves w's files, their savers and what is known of them alone.
LEMMA TidyElsewhere ==
    ASSUME NEW w \in Worker, Tidy(w),
           session'[w] = session[w], metadata'[w] = metadata[w], saves'[w] = saves[w],
           drift'[w] = drift[w],
           \A d \in Client :
              /\ Saver(d, w)' <=> Saver(d, w)
              /\ Saver(d, w) => pc'[d] = pc[d] /\ context'[d] = context[d]
              /\ Loader(d, w)' => Loader(d, w) /\ context'[d] = context[d]
    PROVE  Tidy(w)'
  <1>1. Saving(w)' <=> Saving(w)
    BY DEF Saving, Saver
  <1>2. Alone(w) => Alone(w)'
    BY DEF Alone
  <1>3. Behind(w) => Behind(w)'
    BY DEF Behind
  <1> QED  BY <1>1, <1>2, <1>3 DEF Tidy

\* A step of a client that does not save and does not read the files.
LEMMA TidyOutside ==
    ASSUME \A w \in Worker : Tidy(w), UNCHANGED <<files, drift>>,
           NEW c \in Client, \A d \in Client \ {c} : Same(d),
           pc[c] \notin SaveSteps, pc'[c] \notin SaveSteps, pc'[c] # "loading_session"
    PROVE  \A w \in Worker : Tidy(w)'
  <1> TAKE w \in Worker
  <1>1. \A d \in Client :
              /\ Saver(d, w)' <=> Saver(d, w)
              /\ Saver(d, w) => pc'[d] = pc[d] /\ context'[d] = context[d]
              /\ Loader(d, w)' => Loader(d, w) /\ context'[d] = context[d]
    BY DEF Saver, Loader, Same
  <1> QED  BY <1>1, TidyElsewhere DEF files

\* A step of a client at the files of one worker leaves those of another.
LEMMA TidyOther ==
    ASSUME NEW c \in Client, NEW v \in Worker, NEW w \in Worker, w # v, Tidy(w),
           session'[w] = session[w], metadata'[w] = metadata[w], saves'[w] = saves[w],
           drift'[w] = drift[w], \A d \in Client \ {c} : Same(d),
           pc[c] = "idle" \/ arg[c] = v, pc'[c] = "idle" \/ arg'[c] = v
    PROVE  Tidy(w)'
  <1>1. ~ Saver(c, w) /\ ~ Saver(c, w)' /\ ~ Loader(c, w)'
    BY DEF Saver, Loader, SaveSteps
  <1>2. \A d \in Client :
              /\ Saver(d, w)' <=> Saver(d, w)
              /\ Saver(d, w) => pc'[d] = pc[d] /\ context'[d] = context[d]
              /\ Loader(d, w)' => Loader(d, w) /\ context'[d] = context[d]
    BY <1>1 DEF Saver, Loader, Same
  <1> QED  BY <1>2, TidyElsewhere

LEMMA FileTypes ==
    ASSUME Inv, NEW w \in Worker
    PROVE  /\ saves[w] \in Nat /\ metadata[w] \in Int /\ session[w] \in Int
           /\ Torn \in Int /\ \A c \in Client : context[c] \in Nat
           /\ metadata[w] <= saves[w]
           /\ \A c \in Client : Saver(c, w) \/ Loader(c, w) => context[c] <= saves[w]
           /\ session[w] # Torn => Torn <= session[w]
  <1>1. FilesOK(w) /\ \A c \in Client : Loaded(c)
    BY DEF Inv
  <1>2. /\ saves[w] \in Nat /\ \A c \in Client : context[c] \in Nat
        /\ metadata[w] \in Nat \cup {-1} /\ session[w] \in Nat \cup {-1}
    BY MaxSavesAssumption DEF Inv, TypeOK, Contents, Saves, Torn
  <1> QED  BY <1>1, <1>2 DEF FilesOK, Loaded, Saver, Loader, SaveSteps, Torn

LEMMA SaveStartTidy ==
    ASSUME Inv, \A w \in Worker : Tidy(w), NEW c \in Client, NEW v \in Worker,
           NEW step \in {"saving_session", "saving_metadata_only"}, SaveStart(c, v, step)
    PROVE  \A w \in Worker : Tidy(w)'
  <1>1. saves[v] + 1 \in Saves
    BY SavesAreOrdered DEF SaveStart, Inv, TypeOK
  <1>2. /\ pc[c] = "idle" /\ pc'[c] = step /\ arg'[c] = v
        /\ context'[c] = saves[v] + 1 /\ \A d \in Client \ {c} : Same(d)
    BY <1>1, BeginWithFacts, TypesOfClients DEF SaveStart, Inv, Steps, SaveSteps
  <1>3. ASSUME NEW w \in Worker, w # v PROVE Tidy(w)'
    <2>1. /\ session'[w] = session[w] /\ metadata'[w] = metadata[w]
          /\ saves'[w] = saves[w] /\ drift'[w] = drift[w]
      BY <1>3 DEF SaveStart, Inv, TypeOK
    <2> QED  BY <1>2, <1>3, <2>1, TidyOther
  <1>4. Tidy(v)'
    <2> SUFFICES ASSUME drift'[v] # "raced" PROVE Tidy(v)'
      BY DEF Tidy
    <2>1. ~ Saving(v) /\ drift' = drift /\ Tidy(v)
      BY DEF SaveStart, Inv, TypeOK
    <2>2. /\ saves'[v] = saves[v] + 1 /\ Saver(c, v)'
          /\ \A d \in Client : Saver(d, v)' => d = c
      BY <1>2, <2>1 DEF SaveStart, Inv, TypeOK, Saver, Saving, SaveSteps, Same
    <2>3. Alone(v)'
      BY <1>2, <2>2 DEF Alone
    <2>4. Saving(v)'
      BY <2>2 DEF Saving, Saver
    <2>5. Behind(v) => Behind(v)'
      <3>1. CASE step = "saving_session"
        <4>1. session'[v] = Torn
          BY <3>1 DEF SaveStart, Inv, TypeOK
        <4> QED  BY <4>1 DEF Behind
      <3>2. CASE step = "saving_metadata_only"
        <4>1. session'[v] = session[v] /\ metadata'[v] = Torn
          BY <3>2 DEF SaveStart, Inv, TypeOK
        <4>2. \A d \in Client : Loader(d, v)' => Loader(d, v) /\ context'[d] = context[d]
          BY <1>2, <3>2 DEF Loader, Same
        <4> QED  BY <4>1, <4>2, FileTypes DEF Behind
      <3> QED  BY <3>1, <3>2
    <2> QED  BY <2>1, <2>3, <2>4, <2>5 DEF Tidy
  <1> QED  BY <1>3, <1>4

\* What Becomes leaves of drift.
LEMMA BecomesFacts ==
    ASSUME Inv, NEW w \in Worker, NEW x \in Drifts, Becomes(w, x)
    PROVE  /\ \A v \in Worker \ {w} : drift'[v] = drift[v]
           /\ drift'[w] # "raced" => drift[w] # "raced" \/ x = "raced"
           /\ drift'[w] \in {drift[w], x}
           /\ x = "ahead" => /\ drift'[w] # "same"
                             /\ drift'[w] = "ahead" => drift[w] \in {"same", "ahead"}
           /\ x = "either" => drift'[w] \in {"either", "raced"}
  BY DEF Becomes, Inv, TypeOK, Drifts

\* The client that leaves its save leaves none behind, if it was alone.
LEMMA LeftAlone ==
    ASSUME NEW c \in Client, NEW w \in Worker, Alone(w), Saver(c, w),
           pc'[c] = "idle", \A d \in Client \ {c} : Same(d)
    PROVE  ~ Saving(w)' /\ Alone(w)'
  <1>1. \A d \in Client : ~ Saver(d, w)'
    BY DEF Alone, Saver, Same, SaveSteps
  <1> QED  BY <1>1 DEF Alone, Saving, Saver

LEMMA SaveSessionTidy ==
    ASSUME Inv, \A w \in Worker : Tidy(w), NEW c \in Client, SaveSession(c),
           NEW v \in Worker, v = arg[c]
    PROVE  \A w \in Worker : Tidy(w)'
  <1>1. PICK x \in Written(c) : session' = [session EXCEPT ![v] = x]
    BY DEF SaveSession
  <1>2. v \in Worker /\ Saver(c, v) /\ (drift[v] # "raced" => x = context[c])
    BY <1>1, WrittenFacts DEF SaveSession, SaveSteps, Saver
  <1>3. /\ \A d \in Client \ {c} : Same(d)
        /\ \/ pc'[c] = "idle" /\ Becomes(v, "ahead")
           \/ pc'[c] = "saved_session" /\ arg' = arg /\ context' = context /\ drift' = drift
    BY GotoFacts, ReturnFacts, TypesOfClients DEF SaveSession, Inv, Steps, SaveSteps
  <1>4. ASSUME NEW w \in Worker, w # v PROVE Tidy(w)'
    <2>1. /\ session'[w] = session[w] /\ metadata'[w] = metadata[w] /\ saves'[w] = saves[w]
          /\ drift'[w] = drift[w]
      BY <1>1, <1>2, <1>3, <1>4, BecomesFacts DEF SaveSession, Inv, TypeOK, Drifts
    <2> QED  BY <1>2, <1>3, <1>4, <2>1, TidyOther
  <1>5. Tidy(v)'
    <2> SUFFICES ASSUME drift'[v] # "raced" PROVE Tidy(v)'
      BY DEF Tidy
    <2>1. drift[v] # "raced" /\ Alone(v)
      BY <1>2, <1>3, BecomesFacts DEF Drifts, Tidy
    <2>2. session'[v] = saves[v] /\ saves' = saves /\ metadata' = metadata
      BY <1>1, <1>2, <2>1 DEF SaveSession, Inv, TypeOK, Alone
    <2>3. \A d \in Client : Loader(d, v)' => Loader(d, v) /\ context'[d] = context[d]
      BY <1>2, <1>3 DEF Loader, Same
    <2>4. Behind(v)'
      BY <1>2, <2>2, <2>3, FileTypes DEF Behind
    <2>5. CASE pc'[c] = "idle" /\ Becomes(v, "ahead")
      <3>1. Alone(v)' /\ drift'[v] # "same"
        BY <1>2, <1>3, <2>1, <2>5, LeftAlone, BecomesFacts DEF Drifts
      <3> QED  BY <2>4, <3>1 DEF Tidy
    <2>6. CASE /\ pc'[c] = "saved_session" /\ arg' = arg /\ context' = context
               /\ drift' = drift
      <3>1. \A d \in Client : Saver(d, v)' <=> d = c
        BY <1>2, <1>3, <2>1, <2>6 DEF Alone, Saver, Same, SaveSteps
      <3>2. Alone(v)'
        BY <1>2, <2>1, <2>2, <2>6, <3>1 DEF Alone
      <3>3. Saving(v)'
        BY <3>1 DEF Saving, Saver
      <3> QED  BY <2>4, <3>2, <3>3 DEF Tidy
    <2> QED  BY <1>3, <2>5, <2>6
  <1> QED  BY <1>4, <1>5

LEMMA SaveMetadataOpenTidy ==
    ASSUME Inv, \A w \in Worker : Tidy(w), NEW c \in Client, SaveMetadataOpen(c),
           NEW v \in Worker, v = arg[c]
    PROVE  \A w \in Worker : Tidy(w)'
  <1>1. v \in Worker /\ pc[c] = "saved_session" /\ Saver(c, v)
    BY DEF SaveMetadataOpen, Inv, Writing, TypeOK, SaveSteps, Saver
  <1>2. /\ pc'[c] = "saving_metadata" /\ arg' = arg /\ context' = context
        /\ \A d \in Client \ {c} : Same(d)
    BY GotoFacts, TypesOfClients DEF SaveMetadataOpen, Inv, Steps, SaveSteps
  <1>3. ASSUME NEW w \in Worker, w # v PROVE Tidy(w)'
    <2>1. /\ session'[w] = session[w] /\ metadata'[w] = metadata[w] /\ saves'[w] = saves[w]
          /\ drift'[w] = drift[w]
      BY <1>3 DEF SaveMetadataOpen, history, Inv, TypeOK
    <2> QED  BY <1>1, <1>2, <1>3, <2>1, TidyOther
  <1>4. Tidy(v)'
    <2> SUFFICES ASSUME drift'[v] # "raced" PROVE Tidy(v)'
      BY DEF Tidy
    <2>1. drift' = drift /\ drift[v] # "raced" /\ Alone(v)
      BY <1>1 DEF SaveMetadataOpen, history, Tidy
    <2>2. session' = session /\ session[v] = saves[v] /\ saves' = saves /\ metadata'[v] = Torn
      BY <1>1, <2>1 DEF SaveMetadataOpen, Inv, TypeOK, Alone
    <2>3. \A d \in Client : Loader(d, v)' => Loader(d, v) /\ context'[d] = context[d]
      BY <1>1, <1>2 DEF Loader, Same
    <2>4. Behind(v)'
      BY <1>1, <2>2, <2>3, FileTypes DEF Behind
    <2>5. \A d \in Client : Saver(d, v)' <=> d = c
      BY <1>1, <1>2, <2>1 DEF Alone, Saver, Same, SaveSteps
    <2>6. Alone(v)' /\ Saving(v)'
      BY <1>1, <1>2, <2>1, <2>2, <2>5 DEF Alone, Saving, Saver
    <2> QED  BY <2>4, <2>6 DEF Tidy
  <1> QED  BY <1>3, <1>4

LEMMA SaveMetadataTidy ==
    ASSUME Inv, \A w \in Worker : Tidy(w), NEW c \in Client, SaveMetadata(c),
           NEW v \in Worker, v = arg[c]
    PROVE  \A w \in Worker : Tidy(w)'
  <1> DEFINE x == IF pc[c] = "saving_metadata" THEN "same" ELSE "either"
  <1>1. PICK y \in Written(c) : metadata' = [metadata EXCEPT ![v] = y]
    BY DEF SaveMetadata
  <1>2. /\ v \in Worker /\ Saver(c, v) /\ (drift[v] # "raced" => y = context[c])
        /\ pc[c] \in {"saving_metadata", "saving_metadata_only"}
    BY <1>1, WrittenFacts DEF SaveMetadata, SaveSteps, Saver
  <1>3. /\ pc'[c] = "idle" /\ \A d \in Client \ {c} : Same(d)
        /\ Becomes(v, x) /\ x \in Drifts /\ x # "raced"
    BY ReturnFacts, TypesOfClients DEF SaveMetadata, Inv, Drifts
  <1>4. ASSUME NEW w \in Worker, w # v PROVE Tidy(w)'
    <2>1. /\ session'[w] = session[w] /\ metadata'[w] = metadata[w] /\ saves'[w] = saves[w]
          /\ drift'[w] = drift[w]
      BY <1>1, <1>2, <1>3, <1>4, BecomesFacts DEF SaveMetadata, Inv, TypeOK
    <2> QED  BY <1>2, <1>3, <1>4, <2>1, TidyOther
  <1>5. Tidy(v)'
    <2> SUFFICES ASSUME drift'[v] # "raced" PROVE Tidy(v)'
      BY DEF Tidy
    <2>1. drift[v] # "raced" /\ Alone(v)
      BY <1>2, <1>3, BecomesFacts DEF Tidy
    <2>2. metadata'[v] = saves[v] /\ saves' = saves /\ session' = session
      BY <1>1, <1>2, <2>1 DEF SaveMetadata, Inv, TypeOK, Alone
    <2>3. Alone(v)'
      BY <1>2, <1>3, <2>1, LeftAlone
    <2>4. CASE pc[c] = "saving_metadata"
      <3>1. session[v] = saves[v]
        BY <1>2, <2>1, <2>4 DEF Alone
      <3>2. \A d \in Client : Loader(d, v)' => Loader(d, v) /\ context'[d] = context[d]
        BY <1>3 DEF Loader, Same
      <3>3. Behind(v)'
        BY <1>2, <2>2, <3>1, <3>2, FileTypes DEF Behind
      <3> QED  BY <2>2, <2>3, <3>1, <3>3 DEF Tidy
    <2>5. CASE pc[c] = "saving_metadata_only"
      <3>1. drift'[v] = "either"
        BY <1>2, <1>3, <2>5, BecomesFacts
      <3> QED  BY <2>3, <3>1 DEF Tidy
    <2> QED  BY <1>2, <2>4, <2>5
  <1> QED  BY <1>4, <1>5

LEMMA CrashTidy ==
    ASSUME Inv, \A w \in Worker : Tidy(w), NEW c \in Client, Crash(c),
           NEW v \in Worker, v = arg[c]
    PROVE  \A w \in Worker : Tidy(w)'
  <1>1. pc'[c] = "idle" /\ files' = files /\ \A d \in Client \ {c} : Same(d)
    BY ReturnFacts, TypesOfClients DEF Crash, Inv
  <1>2. CASE pc[c] \notin SaveSteps
    <2>1. UNCHANGED drift
      BY <1>2 DEF Crash
    <2>2. pc'[c] \notin SaveSteps
      BY <1>1 DEF SaveSteps
    <2> QED  BY <1>1, <1>2, <2>1, <2>2, TidyOutside
  <1>3. CASE pc[c] \in SaveSteps
    <2>1. Becomes(v, "ahead") /\ v \in Worker /\ Saver(c, v)
      BY <1>3 DEF Crash, Inv, Writing, TypeOK, Saver
    <2>2. ASSUME NEW w \in Worker, w # v PROVE Tidy(w)'
      <3>1. drift'[w] = drift[w]
        BY <2>1, <2>2, BecomesFacts DEF Drifts
      <3> QED  BY <1>1, <2>1, <2>2, <3>1, TidyOther DEF files
    <2>3. Tidy(v)'
      <3> SUFFICES ASSUME drift'[v] # "raced" PROVE Tidy(v)'
        BY DEF Tidy
      <3>1. /\ drift[v] # "raced" /\ drift'[v] # "same"
            /\ drift'[v] = "ahead" => drift[v] \in {"same", "ahead"}
        BY <2>1, BecomesFacts DEF Drifts
      <3>2. Alone(v)'
        BY <1>1, <2>1, <3>1, LeftAlone DEF Tidy
      <3>3. Behind(v) => Behind(v)'
        BY <1>1 DEF files, Behind, Loader, Same
      <3> QED  BY <2>1, <3>1, <3>2, <3>3 DEF Tidy
    <2> QED  BY <2>2, <2>3
  <1> QED  BY <1>2, <1>3

LEMMA LoadMetadataTidy ==
    ASSUME Inv, \A w \in Worker : Tidy(w), NEW c \in Client, LoadMetadata(c),
           NEW v \in Worker, v = arg[c]
    PROVE  \A w \in Worker : Tidy(w)'
  <1>0. pc[c] = "loading_metadata" /\ v \in Worker /\ UNCHANGED <<files, drift>>
    BY DEF LoadMetadata, history, Inv, Writing, TypeOK
  <1>1. CASE metadata[v] \in {Absent, Torn}
    <2>1. pc'[c] = "idle" /\ \A d \in Client \ {c} : Same(d)
      BY <1>1, ReturnFacts, TypesOfClients DEF Inv, LoadMetadata
    <2> QED  BY <1>0, <2>1, TidyOutside DEF SaveSteps
  <1>2. CASE metadata[v] \notin {Absent, Torn}
    <2>1. /\ pc' = [pc EXCEPT ![c] = "loading_session"]
          /\ context' = [context EXCEPT ![c] = metadata[v]]
          /\ arg' = arg /\ value' = value
      BY <1>2 DEF LoadMetadata
    <2>2. /\ pc'[c] = "loading_session" /\ context'[c] = metadata[v]
          /\ \A d \in Client \ {c} : Same(d)
      BY <2>1 DEF Inv, TypeOK, Same
    <2>3. ASSUME NEW w \in Worker, w # v PROVE Tidy(w)'
      BY <1>0, <2>1, <2>2, <2>3, TidyOther DEF files
    <2>4. Tidy(v)'
      <3>1. \A d \in Client : /\ Saver(d, v)' <=> Saver(d, v)
                              /\ Saver(d, v) => pc'[d] = pc[d] /\ context'[d] = context[d]
        BY <1>0, <2>2 DEF Saver, Same, SaveSteps
      <3>2. Alone(v) => Alone(v)'
        BY <1>0, <3>1 DEF Alone, files
      <3>3. Saving(v)' <=> Saving(v)
        BY <3>1 DEF Saving, Saver
      <3>4. \A d \in Client \ {c} :
               Loader(d, v)' => Loader(d, v) /\ context'[d] = context[d]
        BY <2>2 DEF Loader, Same
      <3>5. Behind(v) => Behind(v)'
        BY <1>0, <2>2, <3>4 DEF Behind, files
      <3> QED  BY <1>0, <3>2, <3>3, <3>5 DEF Tidy, files
    <2> QED  BY <2>3, <2>4
  <1> QED  BY <1>1, <1>2

\* What an action that leaves the files alone does to its client.
Outside(c) ==
    /\ UNCHANGED <<files, drift>>
    /\ \A d \in Client \ {c} : Same(d)
    /\ pc[c] \notin SaveSteps /\ pc'[c] \notin SaveSteps /\ pc'[c] # "loading_session"

LEMMA BeginOutside ==
    ASSUME Inv, NEW c \in Client, NEW w \in Worker,
           NEW v \in Statuses \cup Results \cup {NoResult},
           NEW p \in {"updating", "deleting", "completing", "resuming"}, Begin(c, p, w, v),
           UNCHANGED <<files, history>>
    PROVE  Outside(c)
  <1>1. /\ pc[c] = "idle" /\ pc'[c] = p /\ \A d \in Client \ {c} : Same(d)
    BY BeginFacts, TypesOfClients DEF Inv, Steps
  <1> QED  BY <1>1 DEF Outside, history, SaveSteps

LEMMA WriteOutside ==
    ASSUME Inv, NEW c \in Client,
           \/ UpdateWrite(c) \/ DeleteRow(c) \/ CompleteWrite(c) \/ Report(c)
           \/ ResumeWrite(c) \/ LoadSession(c) \/ ResumeReturn(c)
    PROVE  Outside(c)
  <1>1. \/ Return(c)
        \/ \E p \in {"reporting", "loading_metadata", "resumed"} : Goto(c, p)
    BY DEF UpdateWrite, DeleteRow, CompleteWrite, Report, ResumeWrite, LoadSession, ResumeReturn
  <1>2. /\ pc'[c] \in {"idle", "reporting", "loading_metadata", "resumed"}
        /\ \A d \in Client \ {c} : Same(d)
    BY <1>1, GotoFacts, ReturnFacts, TypesOfClients DEF Inv, Steps, LoadSteps
  <1>3. UNCHANGED <<files, drift>> /\ pc[c] \notin SaveSteps
    BY DEF UpdateWrite, DeleteRow, CompleteWrite, Report, ResumeWrite, LoadSession, ResumeReturn,
           history, SaveSteps
  <1> QED  BY <1>2, <1>3 DEF Outside, SaveSteps

LEMMA TidyStep == Inv /\ (\A w \in Worker : Tidy(w)) /\ [Next]_vars => \A w \in Worker : Tidy(w)'
  <1> SUFFICES ASSUME Inv, \A w \in Worker : Tidy(w), [Next]_vars
               PROVE  \A w \in Worker : Tidy(w)'
    OBVIOUS
  <1>1. ASSUME NEW c \in Client, Outside(c)  PROVE \A w \in Worker : Tidy(w)'
    BY <1>1, TidyOutside DEF Outside
  <1>2. ASSUME NEW w \in Worker, Register(w)  PROVE \A v \in Worker : Tidy(v)'
    BY <1>2 DEF Register, files, client, Tidy, Alone, Behind, Saving, Saver, Loader
  <1>3. ASSUME NEW c \in Client, NEW w \in Worker, NEW s \in Statuses, UpdateCheck(c, w, s)
        PROVE  Outside(c)
    BY <1>3, BeginOutside DEF UpdateCheck
  <1>4. ASSUME NEW c \in Client, NEW w \in Worker, DeleteCheck(c, w) \/ ResumeCheck(c, w)
        PROVE  Outside(c)
    BY <1>4, BeginOutside DEF DeleteCheck, ResumeCheck, Statuses
  <1>5. ASSUME NEW c \in Client, NEW w \in Worker, NEW r \in Results, CompleteCheck(c, w, r)
        PROVE  Outside(c)
    BY <1>5, BeginOutside DEF CompleteCheck
  <1>6. ASSUME NEW c \in Client, NEW w \in Worker,
               NEW step \in {"saving_session", "saving_metadata_only"}, SaveStart(c, w, step)
        PROVE  \A v \in Worker : Tidy(v)'
    BY <1>6, SaveStartTidy
  <1>7. ASSUME NEW c \in Client, SaveSession(c) \/ SaveMetadataOpen(c) \/ SaveMetadata(c)
        PROVE  \A w \in Worker : Tidy(w)'
    <2>1. arg[c] \in Worker
      BY <1>7 DEF SaveSession, SaveMetadataOpen, SaveMetadata, Inv, Writing, TypeOK
    <2> QED  BY <1>7, <2>1, SaveSessionTidy, SaveMetadataOpenTidy, SaveMetadataTidy
  <1>8. ASSUME NEW c \in Client, LoadMetadata(c) \/ Crash(c)
        PROVE  \A w \in Worker : Tidy(w)'
    <2>1. arg[c] \in Worker
      BY <1>8 DEF LoadMetadata, Crash, Inv, Writing, TypeOK
    <2> QED  BY <1>8, <2>1, LoadMetadataTidy, CrashTidy
  <1>9. CASE UNCHANGED vars
    BY <1>9 DEF vars, Tidy, Alone, Behind, Saving, Saver, Loader
  <1> QED
    BY <1>1, <1>2, <1>3, <1>4, <1>5, <1>6, <1>7, <1>8, <1>9, WriteOutside DEF Next

\* What a resume returns: session.json was readable, so it is as recent as the
\* metadata read before it, and as the metadata now on disk if the last save
\* was a whole one.
THEOREM ContextConsistentHolds == Spec => ContextConsistent
  <1> DEFINE AllTidy == \A w \in Worker : Tidy(w)
  <1>1. Init => AllTidy
    BY DEF Init, Tidy, Alone, Behind, Saver, Loader, SaveSteps, Absent
  <1>2. Inv /\ AllTidy /\ [Next]_vars => AllTidy'
    BY TidyStep
  <1>3. Inv /\ AllTidy /\ [Next]_vars => [ContextConsistentStep]_vars
    <2> SUFFICES ASSUME Inv, AllTidy, Next, NEW c \in Client,
                        pc[c] = "loading_session", pc'[c] = "resumed", NEW w, w = arg[c]
                 PROVE  /\ drift[w] \in {"same", "ahead"} => session[w] >= context[c]
                        /\ drift[w] = "same" /\ ~ Saving(w) =>
                               session[w] = context[c] \/ metadata[w] # context[c]
      BY DEF ContextConsistentStep, vars
    <2>1. w \in Worker /\ Loader(c, w)
      BY DEF Inv, Writing, TypeOK, Loader
    <2>2. LoadSession(c)
      BY DEF Next, Inv, TypeOK, Register, client, Begin, BeginWith, Goto, Return, UpdateCheck,
             UpdateWrite, DeleteCheck, DeleteRow, CompleteCheck, CompleteWrite, Report,
             SaveStart, SaveSession, SaveMetadataOpen, SaveMetadata, ResumeCheck,
             ResumeWrite, LoadMetadata, LoadSession, ResumeReturn, Crash
    <2>3. session[w] # Torn
      BY <2>2 DEF LoadSession, Return, Inv, TypeOK
    <2>4. drift[w] \in {"same", "ahead"} => context[c] <= session[w]
      BY <2>1, <2>3 DEF Tidy, Behind
    <2>5. drift[w] = "same" /\ ~ Saving(w) => session[w] = metadata[w]
      BY <2>1 DEF Tidy
    <2> QED  BY <2>1, <2>4, <2>5, FileTypes
  <1> HIDE DEF AllTidy
  <1> QED  BY <1>1, <1>2, <1>3, InvHolds, PTL DEF Spec, ContextConsistent

-----------------------------------------------------------------------------
(* The call that runs a worker's agent (AgentRun), for all sizes of pipes  *)
(* and reads.  Its row is one of the registry above, seen from the caller. *)

\* Each stream is a number of characters in each of its places.
PipesTyped ==
    /\ wrote \in [Streams -> Nat] /\ pipe \in [Streams -> Nat]
    /\ ahead \in [Streams -> Nat] /\ got \in [Streams -> Nat]

\* No character is lost or made up, and none is fetched beyond what a read
\* has asked for but the rest of one chunk; only the read in progress, or one
\* that raised, holds more.
Flow ==
    \A s \in Streams :
        /\ got[s] + ahead[s] + pipe[s] = wrote[s]
        /\ wrote[s] <= MaxOut /\ pipe[s] <= Capacity
        /\ \/ ahead[s] < ChunkSize
           \/ call.pc = "read" /\ s = First /\ ahead[s] < ReadSize + ChunkSize
           \/ /\ call.pc \in {"fail", "tell_error", "end"} /\ row.text # "result"
              /\ ahead[s] < ReadSize + ChunkSize

Watching == {"poll", "select", "read", "idle"}
Started == {"track", "gateway"}

\* The agent's task is done and nobody can add to what it said.
AgentDone ==
    /\ agent = [runs |-> "exited", code |-> 0]
    /\ \A s \in Streams : open[s] = {} /\ pipe[s] = 0

\* Where the call is tells what has become of the agent, and of the row.
CallKnows ==
    /\ call.pc = "read" => call.todo # {}
    /\ call.pc \in Watching => agent.runs \in {"running", "exited"}
    /\ call.pc = "drain" => agent.runs = "exited"
    /\ call.pc = "delegate" => call.by \notin Started
    /\ call.pc = "complete" /\ call.by \in Started => AgentDone
    /\ row.text = "result" => call.pc \in {"tell_result", "fail", "end"}
    /\ row.text = "result" /\ call.by \in Started => AgentDone
    /\ row.text = "result" => row.status = "completed"
    /\ call.pc = "tell_result" => row.text = "result"
    /\ call.pc = "tell_error" => row.text = "error"
    /\ answer # Nothing => call.pc = "end" /\ answer = row.text

RunIInv == RunTypeOK /\ PipesTyped /\ Flow /\ CallKnows

LEMMA RunStarts == RunInit => RunIInv
<1> SUFFICES ASSUME RunInit PROVE RunIInv
    OBVIOUS
<1> USE SizesAssumption DEF Sizes, RunInit, Streams, Callers
<1>1. RunTypeOK
  <2>1. \A s \in Streams : wrote[s] = 0 /\ pipe[s] = 0 /\ ahead[s] = 0 /\ got[s] = 0
    OBVIOUS
  <2>2. call \in [by : Callers \cup {Nothing},
                  pc : {"start", "invoke", "poll", "select", "read", "idle", "drain",
                        "delegate", "complete", "fail", "tell_result", "tell_error", "end"},
                  todo : SUBSET Streams]
    OBVIOUS
  <2>3. row \in [status : {"none", "running", "sleeping", "completed", "deleted"},
                 text : {Nothing, "result", "error"}]
    OBVIOUS
  <2>4. agent \in [runs : {"none", "running", "exited", "killed"}, code : {0, 1}]
    OBVIOUS
  <2>5. open \in [Streams -> SUBSET {"agent", "heir"}]
    OBVIOUS
  <2>6. \A s \in Streams :
           /\ wrote[s] \in 0..MaxOut /\ got[s] \in 0..MaxOut
           /\ pipe[s] \in 0..Capacity
           /\ ahead[s] \in 0..(ReadSize + ChunkSize)
    BY <2>1
  <2>7. quiet \in BOOLEAN
    OBVIOUS
  <2>8. answer \in {Nothing, "result", "error"}
    OBVIOUS
  <2> HIDE DEF RunInit, Streams, Callers, Sizes
  <2>9. QED
    BY <2>2, <2>3, <2>4, <2>5, <2>6, <2>7, <2>8 DEF RunTypeOK
<1>2. PipesTyped
    BY DEF PipesTyped
<1>3. Flow
    BY DEF Flow
<1>4. CallKnows
    BY DEF CallKnows, Watching, Started
<1>5. QED
    BY <1>1, <1>2, <1>3, <1>4 DEF RunIInv

\* Every action keeps the invariant.
LEMMA RunStep == ASSUME RunIInv, RunNext PROVE RunIInv'
<1> USE SizesAssumption DEF RunIInv, RunTypeOK, PipesTyped, Flow, Streams
<1>1. ASSUME NEW by \in Callers, Spawn(by) PROVE RunIInv'
  <2> USE <1>1 DEF Spawn, At, outside, pipeVars
  <2>1. RunTypeOK'
    BY DEF Callers
  <2>2. PipesTyped'
    OBVIOUS
  <2>3. Flow'
    BY DEF Sizes, First, CallKnows
  <2>4. CallKnows'
    BY DEF Sizes, CallKnows, Callers, Watching, Started, AgentDone
  <2>5. QED
    BY <2>1, <2>2, <2>3, <2>4
<1>2. ASSUME NEW by \in Callers, SpawnFails(by) PROVE RunIInv'
  <2> USE <1>2 DEF SpawnFails, At, outside, pipeVars
  <2>1. RunTypeOK'
    BY DEF Callers
  <2>2. PipesTyped'
    OBVIOUS
  <2>3. Flow'
    BY DEF Sizes, First, CallKnows
  <2>4. CallKnows'
    BY DEF Sizes, CallKnows, Callers, Watching, Started, AgentDone
  <2>5. QED
    BY <2>1, <2>2, <2>3, <2>4
<1>3. ASSUME Delegate PROVE RunIInv'
  <2> USE <1>3 DEF Delegate, At, Go, outside, pipeVars
  <2>1. RunTypeOK'
    BY DEF Callers
  <2>2. PipesTyped'
    OBVIOUS
  <2>3. Flow'
    BY DEF Sizes, First, CallKnows
  <2>4. CallKnows'
    BY DEF Sizes, CallKnows, Callers, Watching, Started, AgentDone
  <2>5. QED
    BY <2>1, <2>2, <2>3, <2>4
<1>4. ASSUME Invoke PROVE RunIInv'
  <2> USE <1>4 DEF Invoke, At, Go
  <2>1. RunTypeOK'
    BY DEF Callers
  <2>2. PipesTyped'
    OBVIOUS
  <2>3. Flow'
    BY DEF Sizes, First, CallKnows
  <2>4. CallKnows'
    BY DEF Sizes, CallKnows, Callers, Watching, Started, AgentDone
  <2>5. QED
    BY <2>1, <2>2, <2>3, <2>4
<1>5. ASSUME InvokeFails PROVE RunIInv'
  <2> USE <1>5 DEF InvokeFails, At, Go, outside, pipeVars
  <2>1. RunTypeOK'
    BY DEF Callers
  <2>2. PipesTyped'
    OBVIOUS
  <2>3. Flow'
    BY DEF Sizes, First, CallKnows
  <2>4. CallKnows'
    BY DEF Sizes, CallKnows, Callers, Watching, Started, AgentDone
  <2>5. QED
    BY <2>1, <2>2, <2>3, <2>4
<1>6. ASSUME Poll PROVE RunIInv'
  <2> USE <1>6 DEF Poll, At, Go, outside, pipeVars
  <2>1. RunTypeOK'
    BY DEF Callers
  <2>2. PipesTyped'
    OBVIOUS
  <2>3. Flow'
    BY DEF Sizes, First, CallKnows
  <2>4. CallKnows'
    BY DEF Sizes, CallKnows, Callers, Watching, Started, AgentDone
  <2>5. QED
    BY <2>1, <2>2, <2>3, <2>4
<1>7. ASSUME Select PROVE RunIInv'
  <2> USE <1>7 DEF Select, At, outside, Ready, Ended, pipeVars
  <2>1. RunTypeOK'
    BY DEF Callers
  <2>2. PipesTyped'
    OBVIOUS
  <2>3. Flow'
    BY DEF Sizes, First, CallKnows
  <2>4. CallKnows'
    BY DEF Sizes, CallKnows, Callers, Watching, Started, AgentDone
  <2>5. QED
    BY <2>1, <2>2, <2>3, <2>4
<1>8. ASSUME ReadReturns PROVE RunIInv'
  <2> USE <1>8 DEF ReadReturns, At, First, NextStream
  <2>1. First \in Streams
    OBVIOUS
  <2>2. call' \in [by : Callers \cup {Nothing},
                   pc : {"start", "invoke", "poll", "select", "read", "idle", "drain",
                         "delegate", "complete", "fail", "tell_result", "tell_error", "end"},
                   todo : SUBSET Streams]
    OBVIOUS
  <2>3. \A s \in Streams :
           /\ got'[s] \in 0..MaxOut /\ ahead'[s] \in 0..(ReadSize + ChunkSize)
    <3> TAKE s \in Streams
    <3>1. CASE s = First
      BY <2>1, <3>1 DEF Sizes
    <3>2. CASE s # First
      BY <2>1, <3>2 DEF Sizes
    <3>3. QED
      BY <3>1, <3>2
  <2>4. quiet' \in BOOLEAN
    OBVIOUS
  <2> HIDE DEF ReadReturns, First, NextStream, Streams
  <2>5. RunTypeOK'
    BY <2>2, <2>3, <2>4 DEF ReadReturns
  <2> USE DEF ReadReturns, First, NextStream, Streams
  <2>6. PipesTyped'
    BY DEF Sizes
  <2>7. Flow'
    BY DEF Sizes, First, CallKnows
  <2>8. CallKnows'
    BY DEF Sizes, CallKnows, Callers, Watching, Started, AgentDone
  <2>9. QED
    BY <2>5, <2>6, <2>7, <2>8
<1>9. ASSUME ReadFetches PROVE RunIInv'
  <2> USE <1>9 DEF ReadFetches, At, Smaller, First
  <2>1. RunTypeOK'
    BY DEF Sizes
  <2>2. PipesTyped'
    BY DEF Sizes
  <2>3. Flow'
    BY DEF Sizes, First, CallKnows
  <2>4. CallKnows'
    BY DEF Sizes, CallKnows, Callers, Watching, Started, AgentDone
  <2>5. QED
    BY <2>1, <2>2, <2>3, <2>4
<1>10. ASSUME ReadEnds PROVE RunIInv'
  <2> USE <1>10 DEF ReadEnds, At, Ended, First, NextStream
  <2>1. First \in Streams
    OBVIOUS
  <2>2. call' \in [by : Callers \cup {Nothing},
                   pc : {"start", "invoke", "poll", "select", "read", "idle", "drain",
                         "delegate", "complete", "fail", "tell_result", "tell_error", "end"},
                   todo : SUBSET Streams]
    OBVIOUS
  <2>3. \A s \in Streams :
           /\ got'[s] \in 0..MaxOut /\ ahead'[s] \in 0..(ReadSize + ChunkSize)
    <3> TAKE s \in Streams
    <3>1. CASE s = First
      BY <2>1, <3>1 DEF Sizes
    <3>2. CASE s # First
      BY <2>1, <3>2 DEF Sizes
    <3>3. QED
      BY <3>1, <3>2
  <2>4. quiet' \in BOOLEAN
    OBVIOUS
  <2> HIDE DEF ReadEnds, First, NextStream, Streams
  <2>5. RunTypeOK'
    BY <2>2, <2>3, <2>4 DEF ReadEnds
  <2> USE DEF ReadEnds, First, NextStream, Streams
  <2>6. PipesTyped'
    BY DEF Sizes
  <2>7. Flow'
    BY DEF Sizes, First, CallKnows
  <2>8. CallKnows'
    BY DEF Sizes, CallKnows, Callers, Watching, Started, AgentDone
  <2>9. QED
    BY <2>5, <2>6, <2>7, <2>8
<1>11. ASSUME CheckIdle PROVE RunIInv'
  <2> USE <1>11 DEF CheckIdle, At, Go, Killed
  <2>1. RunTypeOK'
    BY DEF Callers
  <2>2. PipesTyped'
    OBVIOUS
  <2>3. Flow'
    BY DEF Sizes, First, CallKnows
  <2>4. CallKnows'
    BY DEF Sizes, CallKnows, Callers, Watching, Started, AgentDone
  <2>5. QED
    BY <2>1, <2>2, <2>3, <2>4
<1>12. ASSUME NEW s \in Streams, DrainTakes(s) PROVE RunIInv'
  <2> USE <1>12 DEF DrainTakes, At
  <2>1. RunTypeOK'
    BY DEF Sizes
  <2>2. PipesTyped'
    BY DEF Sizes
  <2>3. Flow'
    BY DEF Sizes, First, CallKnows
  <2>4. CallKnows'
    BY DEF Sizes, CallKnows, Callers, Watching, Started, AgentDone
  <2>5. QED
    BY <2>1, <2>2, <2>3, <2>4
<1>13. ASSUME DrainEnds PROVE RunIInv'
  <2> USE <1>13 DEF DrainEnds, At, Go, outside, Ended, pipeVars
  <2>1. RunTypeOK'
    BY DEF Callers
  <2>2. PipesTyped'
    OBVIOUS
  <2>3. Flow'
    BY DEF Sizes, First, CallKnows
  <2>4. CallKnows'
    BY DEF Sizes, CallKnows, Callers, Watching, Started, AgentDone
  <2>5. QED
    BY <2>1, <2>2, <2>3, <2>4
<1>13b. ASSUME ReadRaises PROVE RunIInv'
  <2> USE <1>13b DEF ReadRaises, At, Go, outside, pipeVars
  <2>1. RunTypeOK'
    BY DEF Callers
  <2>2. PipesTyped'
    OBVIOUS
  <2>3. Flow'
    BY DEF Sizes, First, CallKnows
  <2>4. CallKnows'
    BY DEF Sizes, CallKnows, Callers, Watching, Started, AgentDone
  <2>5. QED
    BY <2>1, <2>2, <2>3, <2>4
<1>14. ASSUME DrainTimesOut PROVE RunIInv'
  <2> USE <1>14 DEF DrainTimesOut, At, Go, outside, pipeVars
  <2>1. RunTypeOK'
    BY DEF Callers
  <2>2. PipesTyped'
    OBVIOUS
  <2>3. Flow'
    BY DEF Sizes, First, CallKnows
  <2>4. CallKnows'
    BY DEF Sizes, CallKnows, Callers, Watching, Started, AgentDone
  <2>5. QED
    BY <2>1, <2>2, <2>3, <2>4
<1>15. ASSUME Complete PROVE RunIInv'
  <2> USE <1>15 DEF Complete, At, Go, outside, After, pipeVars
  <2>1. RunTypeOK'
    BY DEF Callers
  <2>2. PipesTyped'
    OBVIOUS
  <2>3. Flow'
    BY DEF Sizes, First, CallKnows
  <2>4. CallKnows'
    BY DEF Sizes, CallKnows, Callers, Watching, Started, AgentDone
  <2>5. QED
    BY <2>1, <2>2, <2>3, <2>4
<1>16. ASSUME CompleteLate PROVE RunIInv'
  <2> USE <1>16 DEF CompleteLate, At, Go, outside, pipeVars
  <2>1. RunTypeOK'
    BY DEF Callers
  <2>2. PipesTyped'
    OBVIOUS
  <2>3. Flow'
    BY DEF Sizes, First, CallKnows
  <2>4. CallKnows'
    BY DEF Sizes, CallKnows, Callers, Watching, Started, AgentDone
  <2>5. QED
    BY <2>1, <2>2, <2>3, <2>4
<1>17. ASSUME Fail PROVE RunIInv'
  <2> USE <1>17 DEF Fail, At, Go, outside, After, pipeVars
  <2>1. RunTypeOK'
    BY DEF Callers
  <2>2. PipesTyped'
    OBVIOUS
  <2>3. Flow'
    BY DEF Sizes, First, CallKnows
  <2>4. CallKnows'
    BY DEF Sizes, CallKnows, Callers, Watching, Started, AgentDone
  <2>5. QED
    BY <2>1, <2>2, <2>3, <2>4
<1>18. ASSUME Respond PROVE RunIInv'
  <2> USE <1>18 DEF Respond, At, Go, outside, pipeVars
  <2>1. RunTypeOK'
    BY DEF Callers
  <2>2. PipesTyped'
    OBVIOUS
  <2>3. Flow'
    BY DEF Sizes, First, CallKnows
  <2>4. CallKnows'
    BY DEF Sizes, CallKnows, Callers, Watching, Started, AgentDone
  <2>5. QED
    BY <2>1, <2>2, <2>3, <2>4
<1>19. ASSUME NEW s \in Streams, Write(s) PROVE RunIInv'
  <2> USE <1>19 DEF Write, At
  <2>1. RunTypeOK'
    BY DEF Sizes
  <2>2. PipesTyped'
    BY DEF Sizes
  <2>3. Flow'
    BY DEF Sizes, First, CallKnows
  <2>4. CallKnows'
    BY DEF Sizes, CallKnows, Callers, Watching, Started, AgentDone
  <2>5. QED
    BY <2>1, <2>2, <2>3, <2>4
<1>20. ASSUME NEW s \in Streams, AgentCloses(s) PROVE RunIInv'
  <2> USE <1>20 DEF AgentCloses
  <2>1. RunTypeOK'
    BY DEF Callers
  <2>2. PipesTyped'
    OBVIOUS
  <2>3. Flow'
    BY DEF Sizes, First, CallKnows
  <2>4. CallKnows'
    BY DEF Sizes, CallKnows, Callers, Watching, Started, AgentDone
  <2>5. QED
    BY <2>1, <2>2, <2>3, <2>4
<1>21. ASSUME AgentExits PROVE RunIInv'
  <2> USE <1>21 DEF AgentExits
  <2>1. RunTypeOK'
    BY DEF Callers
  <2>2. PipesTyped'
    OBVIOUS
  <2>3. Flow'
    BY DEF Sizes, First, CallKnows
  <2>4. CallKnows'
    BY DEF Sizes, CallKnows, Callers, Watching, Started, AgentDone
  <2>5. QED
    BY <2>1, <2>2, <2>3, <2>4
<1>22. ASSUME HeirEnds PROVE RunIInv'
  <2> USE <1>22 DEF HeirEnds
  <2>1. RunTypeOK'
    BY DEF Callers
  <2>2. PipesTyped'
    OBVIOUS
  <2>3. Flow'
    BY DEF Sizes, First, CallKnows
  <2>4. CallKnows'
    BY DEF Sizes, CallKnows, Callers, Watching, Started, AgentDone
  <2>5. QED
    BY <2>1, <2>2, <2>3, <2>4
<1>23. ASSUME Tick PROVE RunIInv'
  <2> USE <1>23 DEF Tick, pipeVars
  <2>1. RunTypeOK'
    BY DEF Callers
  <2>2. PipesTyped'
    OBVIOUS
  <2>3. Flow'
    BY DEF Sizes, First, CallKnows
  <2>4. CallKnows'
    BY DEF Sizes, CallKnows, Callers, Watching, Started, AgentDone
  <2>5. QED
    BY <2>1, <2>2, <2>3, <2>4
<1>24. ASSUME OtherUser PROVE RunIInv'
  <2> USE <1>24 DEF OtherUser, At, outside, pipeVars
  <2>1. RunTypeOK'
    BY DEF Callers
  <2>2. PipesTyped'
    OBVIOUS
  <2>3. Flow'
    BY DEF Sizes, First, CallKnows
  <2>4. CallKnows'
    BY DEF Sizes, CallKnows, Callers, Watching, Started, AgentDone
  <2>5. QED
    BY <2>1, <2>2, <2>3, <2>4
<1>25. QED
    BY <1>1, <1>2, <1>3, <1>4, <1>5, <1>6, <1>7, <1>8, <1>9, <1>10, <1>11, <1>12, <1>13, <1>13b, <1>14, <1>15,
       <1>16, <1>17, <1>18, <1>19, <1>20, <1>21, <1>22, <1>23, <1>24 DEF RunNext, Watchdog, World

LEMMA RunInvariance == RunSpec => []RunIInv
<1>1. RunInit => RunIInv
    BY RunStarts
<1>2. RunIInv /\ [RunNext]_runVars => RunIInv'
  <2>1. ASSUME RunIInv, UNCHANGED runVars PROVE RunIInv'
    BY <2>1 DEF runVars, RunIInv, RunTypeOK, PipesTyped, Flow, First, CallKnows, AgentDone
  <2>2. QED
    BY <2>1, RunStep
<1>3. QED
    BY <1>1, <1>2, PTL DEF RunSpec

\* The variables of a call keep their types, for all sizes; no pipe holds more
\* than its capacity and no read more than one chunk beyond what it asked for.
THEOREM AgentRunTypeCorrect == RunSpec => []RunTypeOK
BY RunInvariance, PTL DEF RunIInv

\* A result is that of an agent that ended well and is complete but for less
\* than a chunk, and the originator is told what the row says, whatever the
\* agent, its descendants, the clock and other users of the registry do.
THEOREM ResultIsRealHolds == RunSpec => []ResultIsReal
<1>1. RunIInv => ResultIsReal
  <2> SUFFICES ASSUME RunIInv PROVE ResultIsReal
    OBVIOUS
  <2>1. ASSUME row.text = "result", call.by \in Started
        PROVE  /\ AgentDone
               /\ got["out"] + ahead["out"] = wrote["out"] /\ ahead["out"] < ChunkSize
    BY <2>1 DEF RunIInv, PipesTyped, Flow, CallKnows, AgentDone, Streams
  <2>2. QED
    BY <2>1 DEF ResultIsReal, RunIInv, CallKnows, AgentDone, Started
<1>2. QED
    BY <1>1, RunInvariance, PTL

=============================================================================
