--------------------------- MODULE DeliveryProofs ---------------------------
(***************************************************************************)
(* Proofs about the delivery of responses to the owner, for any number of  *)
(* gateways, messages, files and faults.  Three processes write the queue  *)
(* without a lock; what makes the audit trail right is that a file is      *)
(* never used again for another response, and that whoever tears one that  *)
(* was readable has called the hook for it.                                *)
(***************************************************************************)
EXTENDS Delivery, TLAPS

-----------------------------------------------------------------------------
(* The inductive invariant *)

\* A gateway handles its own messages, so that no two handle the same one.
Listening == \A p \in Gateways : pc[p] # "idle" => info[msg[p]].to = p

\* The response is in the queue, in a file that is its own.
Filed(m) ==
    \/ m \in lost
    \/ \E f \in File : about[f] = m /\ (file[f] \in {"pending", "delivered"} \/ Told(f))

\* The root files a response before it acknowledges it, or suppresses it.
Filing ==
    /\ pc[0] \in {"writing", "filtering"} => about[current] = msg[0]
    /\ pc[0] \in {"filtering", "acking"} => Suppressed(msg[0]) \/ Filed(msg[0])

\* Nobody uses a file that the root may still give to another response.
InUse(f) ==
    \/ thread[f] # "none"
    \/ f \in pending \cup calls \cup {dispatcher.file, current}
    \/ Told(f)

UsedExist == \A f \in File : InUse(f) => file[f] # "none"

\* Whoever is about to mark a file has called the hook for it.
Marking ==
    /\ \A f \in File : thread[f] \in {"marking", "writing"} => <<f, "gateway">> \in told
    /\ dispatcher.step \in {"marking", "writing"} => <<dispatcher.file, "dispatcher">> \in told

\* What the hook was called for is remembered by all three layers.
Remembered(f) ==
    LET a == info[about[f]].answer
    IN  /\ about[f] \in Msg /\ box[about[f]] # "unsent"
        /\ a.task = NoTask \/ a.task \in delivered.tasks
        /\ a.worker = NoWorker \/ a.worker \in delivered.workers
        /\ a.content \in delivered.contents

CallsRemembered == \A f \in calls : Remembered(f)

Inv ==
    /\ TypeOK
    /\ Listening /\ Filing /\ UsedExist /\ Marking /\ CallsRemembered
    /\ Audited /\ MarkedWasTold /\ CallsDiffer

-----------------------------------------------------------------------------
(* What a step leaves of what is filed, remembered and heard of *)

\* Messages that were sent, and files that exist, stay what they are; what a
\* reader could use stays so until the hook has been called.
MailKept ==
    \A m \in Msg : box[m] # "unsent" => box'[m] # "unsent" /\ info'[m] = info[m]

FilesKept ==
    /\ told \subseteq told' /\ lost \subseteq lost'
    /\ \A f \in File : file[f] # "none" =>
          /\ about'[f] = about[f] /\ file'[f] # "none"
          /\ file[f] \in {"pending", "delivered"} =>
                file'[f] \in {"pending", "delivered"} \/ Told(f)'

LEMMA FiledStays ==
    ASSUME UsedExist, FilesKept, NEW m \in Msg, Filed(m)
    PROVE  Filed(m)'
  <1>1. CASE m \in lost
    BY <1>1 DEF FilesKept, Filed
  <1>2. CASE m \notin lost
    <2>1. PICK f \in File : about[f] = m /\ (file[f] \in {"pending", "delivered"} \/ Told(f))
      BY <1>2 DEF Filed
    <2>2. file[f] # "none"
      BY <2>1 DEF UsedExist, InUse
    <2>3. about'[f] = m
      BY <2>1, <2>2 DEF FilesKept
    <2>4. file'[f] \in {"pending", "delivered"} \/ Told(f)'
      BY <2>1, <2>2 DEF FilesKept, Told
    <2> QED  BY <2>3, <2>4 DEF Filed
  <1> QED  BY <1>1, <1>2

LEMMA SuppressedStays ==
    ASSUME MailKept, NEW m \in Msg, box[m] # "unsent"
    PROVE  Suppressed(m)' = Suppressed(m)
  BY DEF MailKept, Suppressed

\* What the step itself settles has been filed, if it has to be.
SettledFiled ==
    \A m \in Msg : box'[m] = "settled" =>
        box[m] = "settled" \/ info'[m].to # 0 \/ Suppressed(m)' \/ Filed(m)'

LEMMA AuditedKept ==
    ASSUME Inv, MailKept, FilesKept, SettledFiled
    PROVE  Audited'
  <1> SUFFICES ASSUME NEW m \in Msg, box'[m] = "settled", info'[m].to = 0, ~ Suppressed(m)'
               PROVE  Filed(m)'
    BY DEF Audited, Filed
  <1>1. CASE box[m] = "settled"
    <2>1. info[m].to = 0 /\ ~ Suppressed(m)
      BY <1>1, SuppressedStays DEF MailKept
    <2>2. Filed(m)
      BY <1>1, <2>1 DEF Inv, Audited, Filed
    <2> QED  BY <2>2, FiledStays DEF Inv
  <1> QED  BY <1>1 DEF SettledFiled

\* The memory of the layers only grows while the process lives.
Grows ==
    /\ delivered.tasks \subseteq delivered'.tasks
    /\ delivered.workers \subseteq delivered'.workers
    /\ delivered.contents \subseteq delivered'.contents

LEMMA RememberedStays ==
    ASSUME Inv, MailKept, FilesKept, Grows, NEW f \in calls
    PROVE  Remembered(f)' /\ about'[f] = about[f] /\ info'[about[f]] = info[about[f]]
  <1>1. f \in File /\ Remembered(f) /\ file[f] # "none"
    BY DEF Inv, CallsRemembered, TypeOK, UsedExist, InUse
  <1>2. about'[f] = about[f]
    BY <1>1 DEF FilesKept
  <1>3. box'[about[f]] # "unsent" /\ info'[about[f]] = info[about[f]]
    BY <1>1 DEF Remembered, MailKept
  <1> QED  BY <1>1, <1>2, <1>3 DEF Remembered, Grows

NoNewCall == calls' = {} \/ (calls' = calls /\ Grows)

LEMMA CallsKept ==
    ASSUME Inv, MailKept, FilesKept, NoNewCall
    PROVE  CallsRemembered' /\ CallsDiffer'
  <1>1. CASE calls' = {}
    BY <1>1 DEF CallsDiffer, CallsRemembered
  <1>2. CASE calls' = calls /\ Grows
    <2>1. \A f \in calls : Remembered(f)' /\ about'[f] = about[f] /\ info'[about[f]] = info[about[f]]
      BY <1>2, RememberedStays
    <2> QED  BY <1>2, <2>1 DEF CallsDiffer, CallsRemembered, Inv
  <1> QED  BY <1>1, <1>2 DEF NoNewCall

\* The root's gateway is where it was, with the same message and file.
LEMMA FilingKept ==
    ASSUME Inv, MailKept, FilesKept,
           current' = current, pc'[0] = pc[0], msg'[0] = msg[0]
    PROVE  Filing'
  <1>1. pc[0] \in {"writing", "filtering", "acking"} => msg[0] \in Msg /\ box[msg[0]] = "queued"
    BY DepthAssumption DEF Inv, TypeOK, Gateways, Mail!Queued
  <1>2. pc[0] \in {"writing", "filtering"} => about'[current] = about[current]
    <2> SUFFICES ASSUME pc[0] \in {"writing", "filtering"}  PROVE about'[current] = about[current]
      OBVIOUS
    <2>1. current \in File
      BY DEF Inv, TypeOK
    <2>2. file[current] # "none"
      BY <2>1 DEF Inv, UsedExist, InUse
    <2> QED  BY <2>1, <2>2 DEF FilesKept
  <1>3. ASSUME NEW m \in Msg, m = msg[0], pc[0] \in {"filtering", "acking"}
        PROVE  Suppressed(m)' \/ Filed(m)'
    <2>1. CASE Filed(m)
      BY <2>1, FiledStays DEF Inv
    <2>2. CASE Suppressed(m)
      BY <1>1, <1>3, <2>2 DEF MailKept, Suppressed
    <2> QED  BY <1>3, <2>1, <2>2 DEF Inv, Filing
  <1>4. pc[0] \in {"filtering", "acking"} => (Suppressed(msg[0]) \/ Filed(msg[0]))'
    BY <1>1, <1>3 DEF Suppressed, Filed
  <1> QED  BY <1>2, <1>4 DEF Inv, Filing

\* A step that files nothing and calls nothing.
LEMMA StepKeepsInv ==
    ASSUME Inv, MailKept, FilesKept, SettledFiled, NoNewCall,
           TypeOK', Listening', Filing', UsedExist', Marking', MarkedWasTold'
    PROVE  Inv'
  <1>1. Audited'
    BY AuditedKept
  <1>2. CallsRemembered' /\ CallsDiffer'
    BY CallsKept
  <1> QED  BY <1>1, <1>2 DEF Inv

-----------------------------------------------------------------------------
(* The types, part by part *)

MailTypes ==
    /\ Mail!BoxTypeOK
    /\ info \in [Msg -> [to : Gateways, answer : Answers, forwarded : BOOLEAN]]

QueueTypes ==
    /\ file \in [File -> {"none", "torn", "pending", "delivered"}]
    /\ about \in [File -> Msg \cup {NoMsg}]

PassTypes ==
    /\ dispatcher \in [step : {"idle", "calling", "marking", "writing"},
                       file : File \cup {NoFile}]
    /\ pending \subseteq File

HistoryTypes ==
    /\ told \subseteq File \X {"gateway", "dispatcher"}
    /\ lost \subseteq Msg

ThreadTypes == thread \in [File -> {"none", "calling", "marking", "writing"}]

DeliveredTypes ==
    delivered \in [tasks : SUBSET {a.task : a \in Answers},
                  workers : SUBSET {a.worker : a \in Answers},
                  contents : SUBSET {a.content : a \in Answers}]

ListenTypes ==
    /\ pc \in [Gateways -> {"idle", "handling", "writing", "filtering", "acking"}]
    /\ msg \in [Gateways -> Msg \cup {NoMsg}]
    /\ \A p \in Gateways :
          IF pc[p] = "idle" THEN msg[p] = NoMsg ELSE msg[p] \in Mail!Queued

CurrentTypes ==
    /\ current \in File \cup {NoFile}
    /\ pc[0] \in {"writing", "filtering"} <=> current # NoFile

LEMMA TypesOfParts ==
    ASSUME MailTypes', QueueTypes', PassTypes', HistoryTypes', ThreadTypes', DeliveredTypes',
           ListenTypes', CurrentTypes', calls' \subseteq File, Within(answered, faults)'
    PROVE  TypeOK'
  BY DEF MailTypes, QueueTypes, PassTypes, HistoryTypes, ThreadTypes, DeliveredTypes,
         ListenTypes, CurrentTypes, TypeOK

LEMMA PartsOfTypes ==
    ASSUME TypeOK
    PROVE  /\ MailTypes /\ QueueTypes /\ PassTypes /\ HistoryTypes /\ ThreadTypes
           /\ DeliveredTypes /\ ListenTypes /\ CurrentTypes
           /\ calls \subseteq File /\ Within(answered, faults)
  BY DEF MailTypes, QueueTypes, PassTypes, HistoryTypes, ThreadTypes, DeliveredTypes,
         ListenTypes, CurrentTypes, TypeOK

-----------------------------------------------------------------------------
(* The hook threads and the dispatcher: neither mail nor memory changes. *)

LEMMA WriterStep ==
    ASSUME Inv, UNCHANGED <<mail, pc, msg, current, about, delivered, calls, lost, faults>>,
           QueueTypes', PassTypes', HistoryTypes', ThreadTypes',
           told \subseteq told',
           \A f \in File :
              /\ InUse(f)' => InUse(f)
              /\ file[f] # "none" => file'[f] # "none"
              /\ file[f] \in {"pending", "delivered"} =>
                    file'[f] \in {"pending", "delivered"} \/ Told(f)',
           Marking', MarkedWasTold'
    PROVE  Inv'
  <1>1. MailKept
    BY DEF MailKept, mail
  <1>2. FilesKept
    BY DEF FilesKept
  <1>3. TypeOK'
    BY PartsOfTypes, TypesOfParts
       DEF Inv, mail, MailTypes, Mail!BoxTypeOK, Mail!Queued, DeliveredTypes, ListenTypes,
           CurrentTypes, Within, TypeOK
  <1>4. Listening'
    BY DEF Inv, Listening, mail
  <1>5. Filing'
    BY <1>1, <1>2, FilingKept
  <1>6. UsedExist'
    BY DEF Inv, UsedExist
  <1>7. Grows
    BY DEF Grows
  <1> QED  BY <1>1, <1>2, <1>3, <1>4, <1>5, <1>6, <1>7, StepKeepsInv DEF SettledFiled, NoNewCall, mail

LEMMA HookFailsKeepsInv ==
    ASSUME Inv, NEW f \in File, HookFails(f)
    PROVE  Inv'
  <1>1. thread' \in [File -> {"none", "calling", "marking", "writing"}]
    BY DEF HookFails, Inv, TypeOK
  <1>2. \A g \in File : thread'[g] \in {thread[g], "none"}
    BY DEF HookFails, Inv, TypeOK
  <1>3. \A g \in File : InUse(g)' => InUse(g)
    BY <1>2 DEF HookFails, InUse, Told, pass, history
  <1>4. Marking' /\ MarkedWasTold'
    BY <1>2 DEF HookFails, Inv, Marking, MarkedWasTold, Told, queue, pass, history
  <1> QED
    BY <1>1, <1>3, <1>4, WriterStep, PartsOfTypes
       DEF HookFails, Inv, QueueTypes, PassTypes, HistoryTypes, ThreadTypes, queue, pass, history

LEMMA HookSucceedsKeepsInv ==
    ASSUME Inv, NEW f \in File, HookSucceeds(f)
    PROVE  Inv'
  <1>1. thread' \in [File -> {"none", "calling", "marking", "writing"}]
    BY DEF HookSucceeds, Inv, TypeOK
  <1>2. \A g \in File : thread'[g] = IF g = f THEN "marking" ELSE thread[g]
    BY DEF HookSucceeds, Inv, TypeOK
  <1>3. \A g \in File : InUse(g)' => InUse(g)
    BY <1>2 DEF HookSucceeds, InUse, Told, pass
  <1>4. Marking' /\ MarkedWasTold'
    BY <1>2 DEF HookSucceeds, Inv, Marking, MarkedWasTold, Told, queue, pass
  <1>5. told' \subseteq File \X {"gateway", "dispatcher"} /\ told \subseteq told'
    BY DEF HookSucceeds, Inv, TypeOK
  <1> QED
    BY <1>1, <1>3, <1>4, <1>5, WriterStep, PartsOfTypes
       DEF HookSucceeds, Inv, QueueTypes, PassTypes, HistoryTypes, ThreadTypes, queue, pass

LEMMA StartMarkKeepsInv ==
    ASSUME Inv, NEW f \in File, StartMark(f)
    PROVE  Inv'
  <1>1. /\ thread' \in [File -> {"none", "calling", "marking", "writing"}]
        /\ file' \in [File -> {"none", "torn", "pending", "delivered"}]
    BY DEF StartMark, Inv, TypeOK
  <1>2. /\ thread[f] = "marking" /\ Told(f)
        /\ \A g \in File : thread'[g] = thread[g] \/ (g = f /\ thread'[g] \in {"none", "writing"})
    BY DEF StartMark, Inv, TypeOK, Marking, Told
  <1>3. \A g \in File : file'[g] = file[g] \/ (g = f /\ file'[g] = "torn")
    BY DEF StartMark, Inv, TypeOK
  <1>4. \A g \in File : InUse(g)' => InUse(g)
    BY <1>2 DEF StartMark, InUse, Told, pass, history
  <1>5. Marking' /\ MarkedWasTold'
    BY <1>2, <1>3 DEF StartMark, Inv, Marking, MarkedWasTold, Told, pass, history
  <1>6. \A g \in File :
           /\ file[g] # "none" => file'[g] # "none"
           /\ file[g] \in {"pending", "delivered"} =>
                 file'[g] \in {"pending", "delivered"} \/ Told(g)'
    BY <1>2, <1>3 DEF StartMark, Told, history
  <1> QED
    BY <1>1, <1>4, <1>5, <1>6, WriterStep, PartsOfTypes
       DEF StartMark, Inv, QueueTypes, PassTypes, HistoryTypes, ThreadTypes, pass, history

LEMMA FinishMarkKeepsInv ==
    ASSUME Inv, NEW f \in File, FinishMark(f)
    PROVE  Inv'
  <1>1. /\ thread' \in [File -> {"none", "calling", "marking", "writing"}]
        /\ file' \in [File -> {"none", "torn", "pending", "delivered"}]
    BY DEF FinishMark, Inv, TypeOK
  <1>2. /\ thread[f] = "writing" /\ Told(f)
        /\ \A g \in File : thread'[g] \in {thread[g], "none"}
    BY DEF FinishMark, Inv, TypeOK, Marking, Told
  <1>3. \A g \in File : file'[g] = file[g] \/ (g = f /\ file'[g] = "delivered")
    BY DEF FinishMark, Inv, TypeOK
  <1>4. \A g \in File : InUse(g)' => InUse(g)
    BY <1>2 DEF FinishMark, InUse, Told, pass, history
  <1>5. Marking' /\ MarkedWasTold'
    BY <1>2, <1>3 DEF FinishMark, Inv, Marking, MarkedWasTold, Told, pass, history
  <1>6. \A g \in File :
           /\ file[g] # "none" => file'[g] # "none"
           /\ file[g] \in {"pending", "delivered"} =>
                 file'[g] \in {"pending", "delivered"} \/ Told(g)'
    BY <1>3
  <1> QED
    BY <1>1, <1>4, <1>5, <1>6, WriterStep, PartsOfTypes
       DEF FinishMark, Inv, QueueTypes, PassTypes, HistoryTypes, ThreadTypes, pass, history

-----------------------------------------------------------------------------
(* The dispatcher *)

\* Its steps that do not write: what it has in hand was in its pass before.
LEMMA DispatcherStep ==
    ASSUME Inv, UNCHANGED <<mail, pc, msg, queue, root, lost>>, faults' = faults \/ Fault,
           PassTypes', HistoryTypes', told \subseteq told',
           pending' \subseteq pending \cup {f \in File : file[f] = "pending"},
           dispatcher'.file \in {dispatcher.file, NoFile} \cup pending,
           told' \subseteq told \cup {<<dispatcher.file, "dispatcher">>},
           dispatcher'.step \in {"marking", "writing"} =>
               <<dispatcher'.file, "dispatcher">> \in told'
    PROVE  Inv'
  <1>1. MailKept /\ FilesKept
    BY DEF MailKept, FilesKept, mail, queue
  <1>2. UsedExist'
    <2> SUFFICES ASSUME NEW f \in File, InUse(f)'  PROVE file[f] # "none"
      BY DEF UsedExist, queue
    <2>1. f # NoFile
      BY NobodyAssumption
    <2>2. InUse(f) \/ file[f] = "pending"
      BY <2>1 DEF InUse, Told, root
    <2> QED  BY <2>2 DEF Inv, UsedExist
  <1>3. Marking' /\ MarkedWasTold'
    BY DEF Inv, Marking, MarkedWasTold, Told, queue, root
  <1>4. TypeOK'
    <2>1. Within(answered, faults)'
      BY DEF Inv, TypeOK, Within, Fault, mail
    <2> QED
      BY <2>1, PartsOfTypes, TypesOfParts
         DEF Inv, mail, queue, root, MailTypes, Mail!BoxTypeOK, Mail!Queued, DeliveredTypes,
             ListenTypes, QueueTypes, ThreadTypes, CurrentTypes, TypeOK
  <1>5. Listening'
    BY DEF Inv, Listening, mail
  <1>6. Filing'
    BY <1>1, FilingKept DEF root
  <1>7. Grows /\ calls' = calls
    BY DEF Grows, root
  <1> QED  BY <1>1, <1>2, <1>3, <1>4, <1>5, <1>6, <1>7, StepKeepsInv DEF SettledFiled, NoNewCall, mail

LEMMA DispatcherReadsKeepInv ==
    ASSUME Inv, \/ GetPending
                \/ \E f \in File : Read(f) \/ DispatchFails(f) \/ DispatchSucceeds(f)
    PROVE  Inv'
  <1>1. CASE GetPending
    <2>1. PassTypes' /\ HistoryTypes'
      BY <1>1, PartsOfTypes DEF GetPending, Inv, PassTypes, HistoryTypes, history
    <2>2. dispatcher'.step = "idle"
      BY <1>1 DEF GetPending, Resting
    <2> QED  BY <1>1, <2>1, <2>2, DispatcherStep DEF GetPending, history
  <1>2. ASSUME NEW f \in File, Read(f)  PROVE Inv'
    <2>1. dispatcher' \in {Resting, [step |-> "calling", file |-> f]} /\ pending' \subseteq pending
      BY <1>2 DEF Read
    <2>2. /\ dispatcher' \in [step : {"idle", "calling", "marking", "writing"},
                             file : File \cup {NoFile}]
          /\ dispatcher'.step \in {"idle", "calling"}
          /\ dispatcher'.file \in {NoFile, f}
      BY <2>1 DEF Resting
    <2>3. PassTypes' /\ HistoryTypes'
      BY <1>2, <2>1, <2>2, PartsOfTypes DEF Read, Inv, PassTypes, HistoryTypes, history
    <2> QED  BY <1>2, <2>1, <2>2, <2>3, DispatcherStep DEF Read, history
  <1>3. ASSUME NEW f \in File, DispatchFails(f)  PROVE Inv'
    <2>1. /\ dispatcher' \in [step : {"idle", "calling", "marking", "writing"},
                             file : File \cup {NoFile}]
          /\ dispatcher'.step = "idle" /\ dispatcher'.file = NoFile
      BY <1>3 DEF DispatchFails, Resting
    <2>2. PassTypes' /\ HistoryTypes'
      BY <1>3, <2>1, PartsOfTypes DEF DispatchFails, Inv, PassTypes, HistoryTypes, history
    <2> QED  BY <1>3, <2>1, <2>2, DispatcherStep DEF DispatchFails, history
  <1>4. ASSUME NEW f \in File, DispatchSucceeds(f)  PROVE Inv'
    <2>1. /\ dispatcher' \in [step : {"idle", "calling", "marking", "writing"},
                             file : File \cup {NoFile}]
          /\ dispatcher'.file = f /\ dispatcher.file = f
          /\ told' = told \cup {<<f, "dispatcher">>}
      BY <1>4 DEF DispatchSucceeds, At
    <2>2. PassTypes' /\ HistoryTypes'
      BY <1>4, <2>1, PartsOfTypes DEF DispatchSucceeds, Inv, PassTypes, HistoryTypes
    <2> QED  BY <1>4, <2>1, <2>2, DispatcherStep DEF DispatchSucceeds
  <1> QED  BY <1>1, <1>2, <1>3, <1>4

LEMMA StartMarkDeliveredKeepsInv ==
    ASSUME Inv, NEW f \in File, StartMarkDelivered(f)
    PROVE  Inv'
  <1>1. /\ dispatcher' \in [step : {"idle", "calling", "marking", "writing"},
                           file : File \cup {NoFile}]
        /\ dispatcher'.file = f /\ dispatcher.file = f /\ dispatcher.step = "marking"
        /\ file' \in [File -> {"none", "torn", "pending", "delivered"}]
    BY DEF StartMarkDelivered, At, Inv, TypeOK
  <1>2. \A g \in File : file'[g] = IF g = f THEN "torn" ELSE file[g]
    BY DEF StartMarkDelivered, Inv, TypeOK
  <1>3. <<f, "dispatcher">> \in told
    BY <1>1 DEF Inv, Marking
  <1>4. \A g \in File : InUse(g)' => InUse(g)
    BY <1>1 DEF StartMarkDelivered, InUse, Told, root, history
  <1>5. Marking' /\ MarkedWasTold'
    BY <1>1, <1>2, <1>3 DEF StartMarkDelivered, Inv, Marking, MarkedWasTold, Told, root, history
  <1>6. \A g \in File :
           /\ file[g] # "none" => file'[g] # "none"
           /\ file[g] \in {"pending", "delivered"} =>
                 file'[g] \in {"pending", "delivered"} \/ Told(g)'
    BY <1>2, <1>3 DEF StartMarkDelivered, Told, history
  <1> QED
    BY <1>1, <1>4, <1>5, <1>6, WriterStep, PartsOfTypes
       DEF StartMarkDelivered, Inv, QueueTypes, PassTypes, HistoryTypes, ThreadTypes, root, history

LEMMA FinishMarkDeliveredKeepsInv ==
    ASSUME Inv, NEW f \in File, FinishMarkDelivered(f)
    PROVE  Inv'
  <1>1. /\ dispatcher' \in [step : {"idle", "calling", "marking", "writing"},
                           file : File \cup {NoFile}]
        /\ dispatcher'.file = NoFile /\ dispatcher'.step = "idle"
        /\ dispatcher.file = f /\ dispatcher.step = "writing"
    BY DEF FinishMarkDelivered, At, Resting
  <1>2. PICK state \in {"delivered", "torn"} : file' = [file EXCEPT ![f] = state]
    BY DEF FinishMarkDelivered
  <1>3. /\ file' \in [File -> {"none", "torn", "pending", "delivered"}]
        /\ \A g \in File : file'[g] = IF g = f THEN state ELSE file[g]
    BY <1>2 DEF Inv, TypeOK
  <1>4. <<f, "dispatcher">> \in told
    BY <1>1 DEF Inv, Marking
  <1>5. \A g \in File : InUse(g)' => InUse(g)
    BY <1>1, NobodyAssumption DEF FinishMarkDelivered, InUse, Told, root, history
  <1>6. Marking' /\ MarkedWasTold'
    BY <1>1, <1>3, <1>4 DEF FinishMarkDelivered, Inv, Marking, MarkedWasTold, Told, root, history
  <1>7. \A g \in File :
           /\ file[g] # "none" => file'[g] # "none"
           /\ file[g] \in {"pending", "delivered"} =>
                 file'[g] \in {"pending", "delivered"} \/ Told(g)'
    BY <1>3, <1>4 DEF FinishMarkDelivered, Told, history
  <1> QED
    BY <1>1, <1>3, <1>5, <1>6, <1>7, WriterStep, PartsOfTypes
       DEF FinishMarkDelivered, Inv, QueueTypes, PassTypes, HistoryTypes, ThreadTypes, root, history

-----------------------------------------------------------------------------
(* The listeners: mail, and what a gateway does next, change. *)

LEMMA RootIsGateway == 0 \in Gateways
  BY DepthAssumption DEF Gateways

\* A step that leaves queue, files in use and memory alone.
LEMMA ListenerStep ==
    ASSUME Inv, UNCHANGED <<queue, root, pass, told>>, lost \subseteq lost', lost' \subseteq Msg,
           MailTypes', MailKept, SettledFiled, Within(answered, faults)',
           ListenTypes', CurrentTypes', Listening', Filing'
    PROVE  Inv'
  <1>1. FilesKept
    BY DEF FilesKept, queue
  <1>2. NoNewCall
    BY DEF NoNewCall, Grows, root
  <1>3. TypeOK'
    BY PartsOfTypes, TypesOfParts
       DEF Inv, QueueTypes, PassTypes, HistoryTypes, ThreadTypes, DeliveredTypes, queue, root, pass
  <1>4. UsedExist' /\ Marking' /\ MarkedWasTold'
    BY DEF Inv, UsedExist, InUse, Marking, MarkedWasTold, Told, queue, root, pass
  <1> QED  BY <1>1, <1>2, <1>3, <1>4, StepKeepsInv

LEMMA SendFacts ==
    ASSUME TypeOK, NEW p \in Gateways, NEW answer \in Answers, NEW forwarded \in BOOLEAN,
           SendTo(p, answer, forwarded)
    PROVE  /\ MailTypes' /\ MailKept
           /\ \A m \in Msg : box[m] = "queued" => box'[m] = "queued" /\ info'[m] = info[m]
           /\ \A m \in Msg : box'[m] = "settled" => box[m] = "settled"
  <1>1. PICK m \in Msg :
           /\ box[m] = "unsent"
           /\ box' = [box EXCEPT ![m] = "queued"]
           /\ info' = [info EXCEPT ![m] =
                          [to |-> p, answer |-> answer, forwarded |-> forwarded]]
    <2> DEFINE fresh == CHOOSE m \in Msg : box[m] = "unsent"
    <2>1. fresh \in Msg /\ box[fresh] = "unsent"
      BY DEF SendTo
    <2>2. /\ box' = [box EXCEPT ![fresh] = "queued"]
          /\ info' = [info EXCEPT ![fresh] =
                         [to |-> p, answer |-> answer, forwarded |-> forwarded]]
      BY DEF SendTo, Mail!Send
    <2> HIDE DEF fresh
    <2> QED  BY <2>1, <2>2
  <1>2. /\ box \in [Msg -> {"unsent", "queued", "settled", "retired"}]
        /\ info \in [Msg -> [to : Gateways, answer : Answers, forwarded : BOOLEAN]]
    BY DEF TypeOK, Mail!BoxTypeOK, Mail!Places
  <1>3. /\ box' \in [Msg -> {"unsent", "queued", "settled", "retired"}]
        /\ info' \in [Msg -> [to : Gateways, answer : Answers, forwarded : BOOLEAN]]
    BY <1>1, <1>2
  <1>4. MailTypes'
    BY <1>3 DEF MailTypes, Mail!BoxTypeOK, Mail!Places
  <1>5. \A n \in Msg : box[n] # "unsent" => box'[n] = box[n] /\ info'[n] = info[n]
    BY <1>1, <1>2
  <1>6. \A n \in Msg : box'[n] = "settled" => box[n] = "settled"
    BY <1>1, <1>2
  <1> QED  BY <1>4, <1>5, <1>6 DEF MailKept

\* A gateway is handed no message and finishes none: it goes on to a step.
LEMMA GotoFacts ==
    ASSUME TypeOK, NEW p \in Gateways,
           NEW s \in {"handling", "writing", "filtering", "acking"},
           pc[p] # "idle", Goto(p, s), msg' = msg,
           \A m \in Msg : box[m] = "queued" => box'[m] = "queued"
    PROVE  ListenTypes' /\ \A q \in Gateways : pc'[q] = IF q = p THEN s ELSE pc[q]
  <1>1. \A q \in Gateways : pc'[q] = IF q = p THEN s ELSE pc[q]
    BY DEF Goto, TypeOK
  <1>2. pc' \in [Gateways -> {"idle", "handling", "writing", "filtering", "acking"}]
    BY DEF Goto, TypeOK
  <1>3. \A q \in Gateways :
           IF pc'[q] = "idle" THEN msg'[q] = NoMsg ELSE msg'[q] \in (Mail!Queued)'
    BY <1>1 DEF TypeOK, Mail!Queued
  <1> QED  BY <1>1, <1>2, <1>3 DEF ListenTypes, TypeOK

LEMMA RespondKeepsInv ==
    ASSUME Inv, NEW p \in Gateways, NEW answer \in Answers, Respond(p, answer)
    PROVE  Inv'
  <1>1. /\ MailTypes' /\ MailKept
        /\ \A m \in Msg : box[m] = "queued" => box'[m] = "queued" /\ info'[m] = info[m]
        /\ \A m \in Msg : box'[m] = "settled" => box[m] = "settled"
    BY SendFacts DEF Respond, Inv
  <1>2. FilesKept
    BY DEF Respond, FilesKept, queue, history
  <1>3. ListenTypes' /\ CurrentTypes' /\ Listening'
    BY <1>1 DEF Respond, root, Inv, TypeOK, Listening, ListenTypes, CurrentTypes, Mail!Queued
  <1>4. Filing'
    BY <1>1, <1>2, FilingKept DEF Respond, root
  <1>5. Within(answered, faults)'
    BY DEF Respond, Within, history
  <1>6. SettledFiled
    BY <1>1 DEF SettledFiled
  <1>7. lost' = lost /\ lost' \subseteq Msg
    BY DEF Respond, history, Inv, TypeOK
  <1> QED
    BY <1>1, <1>3, <1>4, <1>5, <1>6, <1>7, ListenerStep DEF Respond, history

LEMMA ForwardKeepsInv ==
    ASSUME Inv, NEW p \in Gateways, Forward(p)
    PROVE  Inv'
  <1>1. p - 1 \in Gateways /\ p # 0
    BY DepthAssumption DEF Forward, Gateways
  <1>2. msg[p] \in Msg /\ info[msg[p]].answer \in Answers
    BY DEF Forward, Inv, TypeOK, Mail!Queued
  <1>3. /\ MailTypes' /\ MailKept
        /\ \A m \in Msg : box[m] = "queued" => box'[m] = "queued" /\ info'[m] = info[m]
        /\ \A m \in Msg : box'[m] = "settled" => box[m] = "settled"
    BY <1>1, <1>2, SendFacts DEF Forward, Inv
  <1>4. ListenTypes' /\ \A q \in Gateways : pc'[q] = IF q = p THEN "acking" ELSE pc[q]
    BY <1>3, GotoFacts DEF Forward, Inv
  <1>5. pc'[0] = pc[0]
    BY <1>1, <1>4, RootIsGateway
  <1>6. Listening'
    BY <1>3, <1>4 DEF Forward, Inv, TypeOK, Listening, Mail!Queued
  <1>7. CurrentTypes'
    BY <1>5 DEF Forward, root, Inv, TypeOK, CurrentTypes
  <1>8. FilesKept
    BY DEF Forward, FilesKept, queue, history
  <1>9. Filing'
    BY <1>3, <1>5, <1>8, FilingKept DEF Forward, root
  <1>10. Within(answered, faults)' /\ lost' = lost /\ lost' \subseteq Msg
    BY DEF Forward, history, Inv, TypeOK, Within
  <1>11. SettledFiled
    BY <1>3 DEF SettledFiled
  <1> QED
    BY <1>3, <1>4, <1>6, <1>7, <1>9, <1>10, <1>11, ListenerStep DEF Forward, history

\* The gateway has nothing in hand any more; the others keep what they have.
LEMMA PutDownFacts ==
    ASSUME TypeOK, Listening, NEW p \in Gateways, Goto(p, "idle"),
           msg' = [msg EXCEPT ![p] = NoMsg], info' = info,
           \A m \in Msg : box[m] = "queued" => box'[m] = "queued" \/ info[m].to = p
    PROVE  /\ ListenTypes' /\ Listening'
           /\ \A q \in Gateways : /\ pc'[q] = IF q = p THEN "idle" ELSE pc[q]
                                  /\ msg'[q] = IF q = p THEN NoMsg ELSE msg[q]
  <1>1. \A q \in Gateways : /\ pc'[q] = IF q = p THEN "idle" ELSE pc[q]
                            /\ msg'[q] = IF q = p THEN NoMsg ELSE msg[q]
    BY DEF Goto, TypeOK
  <1>2. /\ pc' \in [Gateways -> {"idle", "handling", "writing", "filtering", "acking"}]
        /\ msg' \in [Gateways -> Msg \cup {NoMsg}]
    BY DEF Goto, TypeOK
  <1>3. ASSUME NEW q \in Gateways
        PROVE  IF pc'[q] = "idle" THEN msg'[q] = NoMsg ELSE msg'[q] \in (Mail!Queued)'
    <2>1. CASE q = p
      BY <1>1, <2>1
    <2>2. CASE q # p
      BY <1>1, <2>2 DEF TypeOK, Listening, Mail!Queued
    <2> QED  BY <2>1, <2>2
  <1>4. Listening'
    BY <1>1 DEF Listening
  <1> QED  BY <1>1, <1>2, <1>3, <1>4 DEF ListenTypes

\* Only the recipient settles a message, and the root only what it has filed.
LEMMA AcknowledgeKeepsInv ==
    ASSUME Inv, NEW p \in Gateways, Acknowledge(p)
    PROVE  Inv'
  <1>1. PICK m \in Msg : m = msg[p] /\ box[m] = "queued" /\ info[m].to = p
    BY DEF Acknowledge, Inv, TypeOK, Listening, Mail!Queued
  <1>2. \A n \in Msg : box'[n] = IF n = m THEN "settled" ELSE box[n]
    BY <1>1 DEF Acknowledge, Mail!Settle
  <1>3. MailTypes'
    BY <1>1 DEF Acknowledge, Mail!Settle, Inv, TypeOK, MailTypes, Mail!BoxTypeOK, Mail!Places
  <1>4. MailKept
    BY <1>2 DEF Acknowledge, MailKept
  <1>5. /\ ListenTypes' /\ Listening'
        /\ \A q \in Gateways : /\ pc'[q] = IF q = p THEN "idle" ELSE pc[q]
                               /\ msg'[q] = IF q = p THEN NoMsg ELSE msg[q]
    BY <1>1, <1>2, PutDownFacts DEF Acknowledge, Inv
  <1>6. CurrentTypes'
    <2>1. pc'[0] = pc[0] \/ (p = 0 /\ pc[0] = "acking" /\ pc'[0] = "idle")
      BY <1>5, RootIsGateway DEF Acknowledge
    <2> QED  BY <2>1 DEF Acknowledge, root, Inv, TypeOK, CurrentTypes
  <1>7. FilesKept
    BY DEF Acknowledge, FilesKept, queue, history
  <1>8. Filing'
    <2>1. CASE p = 0
      BY <1>5, <2>1, RootIsGateway DEF Filing
    <2>2. CASE p # 0
      BY <1>4, <1>5, <1>7, <2>2, RootIsGateway, FilingKept DEF Acknowledge, root
    <2> QED  BY <2>1, <2>2
  <1>9. SettledFiled
    <2>1. ASSUME p = 0  PROVE Suppressed(m)' \/ Filed(m)'
      <3>1. Suppressed(m) \/ Filed(m)
        BY <1>1, <2>1 DEF Acknowledge, Inv, Filing
      <3>2. CASE Suppressed(m)
        BY <1>1, <1>4, <3>2, SuppressedStays
      <3>3. CASE Filed(m)
        BY <1>7, <3>3, FiledStays DEF Inv
      <3> QED  BY <3>1, <3>2, <3>3
    <2>2. info'[m].to = p
      BY <1>1 DEF Acknowledge
    <2>3. \A n \in Msg : n # m => box'[n] = box[n]
      BY <1>2
    <2> QED  BY <2>1, <2>2, <2>3 DEF SettledFiled
  <1>10. Within(answered, faults)' /\ lost' = lost /\ lost' \subseteq Msg
    BY DEF Acknowledge, history, Inv, TypeOK, Within
  <1> QED
    BY <1>3, <1>4, <1>5, <1>6, <1>8, <1>9, <1>10, ListenerStep DEF Acknowledge, history

LEMMA MailUnchanged ==
    ASSUME Inv, UNCHANGED mail
    PROVE  /\ MailTypes' /\ MailKept /\ SettledFiled
           /\ \A m \in Msg : box[m] = "queued" => box'[m] = "queued"
  BY PartsOfTypes DEF Inv, mail, MailTypes, Mail!BoxTypeOK, MailKept, SettledFiled

LEMMA AcknowledgeFailsKeepsInv ==
    ASSUME Inv, NEW p \in Gateways, AcknowledgeFails(p)
    PROVE  Inv'
  <1>1. /\ MailTypes' /\ MailKept /\ SettledFiled
        /\ \A m \in Msg : box[m] = "queued" => box'[m] = "queued"
    BY MailUnchanged DEF AcknowledgeFails
  <1>2. /\ ListenTypes' /\ Listening'
        /\ \A q \in Gateways : /\ pc'[q] = IF q = p THEN "idle" ELSE pc[q]
                               /\ msg'[q] = IF q = p THEN NoMsg ELSE msg[q]
    BY <1>1, PutDownFacts DEF AcknowledgeFails, Inv, mail
  <1>3. CurrentTypes'
    <2>1. pc'[0] = pc[0] \/ (p = 0 /\ pc[0] = "acking" /\ pc'[0] = "idle")
      BY <1>2, RootIsGateway DEF AcknowledgeFails
    <2> QED  BY <2>1 DEF AcknowledgeFails, root, Inv, TypeOK, CurrentTypes
  <1>4. FilesKept
    BY DEF AcknowledgeFails, FilesKept, queue
  <1>5. Filing'
    <2>1. CASE p = 0
      BY <1>2, <2>1, RootIsGateway DEF Filing
    <2>2. CASE p # 0
      BY <1>1, <1>2, <1>4, <2>2, RootIsGateway, FilingKept DEF AcknowledgeFails, root
    <2> QED  BY <2>1, <2>2
  <1>6. Within(answered, faults)' /\ lost' = lost /\ lost' \subseteq Msg
    BY DEF AcknowledgeFails, mail, Fault, Inv, TypeOK, Within
  <1> QED
    BY <1>1, <1>2, <1>3, <1>5, <1>6, ListenerStep DEF AcknowledgeFails

LEMMA PollKeepsInv ==
    ASSUME Inv, NEW p \in Gateways, NEW m \in Msg, Poll(p, m)
    PROVE  Inv'
  <1>1. MailTypes' /\ MailKept /\ SettledFiled
    BY MailUnchanged DEF Poll
  <1>2. \A q \in Gateways : /\ pc'[q] = IF q = p THEN "handling" ELSE pc[q]
                            /\ msg'[q] = IF q = p THEN m ELSE msg[q]
    BY DEF Poll, Goto, Inv, TypeOK
  <1>3. ListenTypes'
    <2>1. /\ pc' \in [Gateways -> {"idle", "handling", "writing", "filtering", "acking"}]
          /\ msg' \in [Gateways -> Msg \cup {NoMsg}]
      BY DEF Poll, Goto, Inv, TypeOK
    <2> QED  BY <1>2, <2>1 DEF Poll, mail, Inv, TypeOK, ListenTypes, Mail!Queued
  <1>4. Listening'
    BY <1>2 DEF Poll, mail, Inv, Listening
  <1>5. CurrentTypes'
    <2>1. pc'[0] = pc[0] \/ (pc[0] = "idle" /\ pc'[0] = "handling")
      BY <1>2, RootIsGateway DEF Poll
    <2> QED  BY <2>1 DEF Poll, root, Inv, TypeOK, CurrentTypes
  <1>6. FilesKept
    BY DEF Poll, FilesKept, queue, history
  <1>7. Filing'
    <2>1. CASE p = 0
      BY <1>2, <2>1, RootIsGateway DEF Filing
    <2>2. CASE p # 0
      BY <1>1, <1>2, <1>6, <2>2, RootIsGateway, FilingKept DEF Poll, root
    <2> QED  BY <2>1, <2>2
  <1>8. Within(answered, faults)' /\ lost' = lost /\ lost' \subseteq Msg
    BY DEF Poll, mail, history, Inv, TypeOK, Within
  <1> QED
    BY <1>1, <1>3, <1>4, <1>5, <1>7, <1>8, ListenerStep DEF Poll, history

LEMMA ForwardFailsKeepsInv ==
    ASSUME Inv, NEW p \in Gateways, ForwardFails(p)
    PROVE  Inv'
  <1>1. /\ MailTypes' /\ MailKept /\ SettledFiled
        /\ \A m \in Msg : box[m] = "queued" => box'[m] = "queued"
    BY MailUnchanged DEF ForwardFails
  <1>2. ListenTypes' /\ \A q \in Gateways : pc'[q] = IF q = p THEN "acking" ELSE pc[q]
    BY <1>1, GotoFacts DEF ForwardFails, Inv
  <1>3. p # 0
    BY DEF ForwardFails, Gateways
  <1>4. pc'[0] = pc[0]
    BY <1>2, <1>3, RootIsGateway
  <1>5. Listening'
    BY <1>2 DEF ForwardFails, mail, Inv, Listening
  <1>6. CurrentTypes'
    BY <1>4 DEF ForwardFails, root, Inv, TypeOK, CurrentTypes
  <1>7. FilesKept
    BY DEF ForwardFails, FilesKept, queue
  <1>8. Filing'
    BY <1>1, <1>4, <1>7, FilingKept DEF ForwardFails, root
  <1>9. msg[p] \in Msg
    BY DEF ForwardFails, Inv, TypeOK, Mail!Queued
  <1>10. Within(answered, faults)' /\ lost \subseteq lost' /\ lost' \subseteq Msg
    BY <1>9 DEF ForwardFails, mail, Fault, Inv, TypeOK, Within
  <1> QED
    BY <1>1, <1>2, <1>5, <1>6, <1>8, <1>10, ListenerStep DEF ForwardFails

LEMMA SuppressKeepsInv ==
    ASSUME Inv, Suppress
    PROVE  Inv'
  <1>1. /\ MailTypes' /\ MailKept /\ SettledFiled
        /\ \A m \in Msg : box[m] = "queued" => box'[m] = "queued"
    BY MailUnchanged DEF Suppress
  <1>2. ListenTypes' /\ \A q \in Gateways : pc'[q] = IF q = 0 THEN "acking" ELSE pc[q]
    BY <1>1, RootIsGateway, GotoFacts DEF Suppress, Inv
  <1>3. Listening'
    BY <1>2 DEF Suppress, mail, Inv, Listening
  <1>4. CurrentTypes'
    BY <1>2, RootIsGateway DEF Suppress, root, Inv, TypeOK, CurrentTypes
  <1>5. Filing'
    BY <1>2, RootIsGateway DEF Suppress, mail, Filing, Suppressed
  <1>6. Within(answered, faults)' /\ lost' = lost /\ lost' \subseteq Msg
    BY DEF Suppress, mail, history, Inv, TypeOK, Within
  <1> QED
    BY <1>1, <1>2, <1>3, <1>4, <1>5, <1>6, ListenerStep DEF Suppress, history

-----------------------------------------------------------------------------
(* The root files a response and decides on the call. *)

LEMMA RootHasMessage ==
    ASSUME Inv, pc[0] # "idle"
    PROVE  /\ msg[0] \in Msg /\ box[msg[0]] = "queued" /\ info[msg[0]].answer \in Answers
           /\ pc[0] \in {"writing", "filtering"} =>
                 current \in File /\ about[current] = msg[0] /\ file[current] # "none"
  <1>1. msg[0] \in Msg /\ box[msg[0]] = "queued"
    BY RootIsGateway DEF Inv, TypeOK, Mail!Queued
  <1>2. info[msg[0]].answer \in Answers
    BY <1>1 DEF Inv, TypeOK
  <1>3. pc[0] \in {"writing", "filtering"} => current \in File
    BY DEF Inv, TypeOK
  <1>4. pc[0] \in {"writing", "filtering"} => about[current] = msg[0] /\ file[current] # "none"
    BY <1>3 DEF Inv, Filing, UsedExist, InUse
  <1> QED  BY <1>1, <1>2, <1>3, <1>4

LEMMA FileFailsKeepsInv ==
    ASSUME Inv, FileFails
    PROVE  Inv'
  <1>1. /\ MailTypes' /\ MailKept /\ SettledFiled
        /\ \A m \in Msg : box[m] = "queued" => box'[m] = "queued"
    BY MailUnchanged DEF FileFails
  <1>2. ListenTypes' /\ \A q \in Gateways : pc'[q] = IF q = 0 THEN "filtering" ELSE pc[q]
    BY <1>1, RootIsGateway, GotoFacts DEF FileFails, Inv
  <1>3. Listening'
    BY <1>2 DEF FileFails, mail, Inv, Listening
  <1>4. CurrentTypes'
    BY <1>2, RootIsGateway DEF FileFails, root, Inv, TypeOK, CurrentTypes
  <1>5. Filing'
    <2>1. about'[current'] = msg'[0] /\ msg'[0] \in lost'
      BY DEF FileFails, queue, root, Inv, Filing
    <2> QED  BY <2>1 DEF Filing, Filed
  <1>6. msg[0] \in Msg
    BY RootHasMessage DEF FileFails
  <1>7. Within(answered, faults)' /\ lost \subseteq lost' /\ lost' \subseteq Msg
    BY <1>6 DEF FileFails, mail, Fault, Inv, TypeOK, Within
  <1> QED
    BY <1>1, <1>2, <1>3, <1>4, <1>5, <1>7, ListenerStep DEF FileFails

\* The root gives a response a file: a new one, or its own.
LEMMA FileStep ==
    ASSUME Inv, UNCHANGED <<mail, msg, thread, delivered, calls, pass, history>>,
           NEW f \in File, NEW s \in {"torn", "pending"},
           file[f] = "none" \/ f = current,
           current' = f, file' = [file EXCEPT ![f] = s],
           about' \in [File -> Msg \cup {NoMsg}], about'[f] = msg[0],
           \A g \in File : file[g] # "none" => about'[g] = about[g],
           file[f] \in {"pending", "delivered"} => s = "pending",
           ListenTypes', CurrentTypes', Listening',
           pc'[0] = IF s = "torn" THEN "writing" ELSE "filtering"
    PROVE  Inv'
  <1>1. MailTypes' /\ MailKept /\ SettledFiled
    BY MailUnchanged
  <1>2. \A g \in File : file'[g] = IF g = f THEN s ELSE file[g]
    BY DEF Inv, TypeOK
  <1>3. FilesKept
    BY <1>2 DEF FilesKept, history
  <1>4. NoNewCall
    BY DEF NoNewCall, Grows
  <1>5. QueueTypes'
    BY DEF QueueTypes, Inv, TypeOK
  <1>6. TypeOK'
    BY <1>1, <1>5, PartsOfTypes, TypesOfParts
       DEF Inv, PassTypes, HistoryTypes, ThreadTypes, DeliveredTypes, mail, pass, history,
           Within, TypeOK
  <1>7. UsedExist'
    BY <1>2 DEF Inv, UsedExist, InUse, Told, pass, history
  <1>8. Marking'
    BY DEF Inv, Marking, pass, history
  <1>9. MarkedWasTold'
    BY <1>2 DEF Inv, MarkedWasTold, Told, history
  <1>10. Filing'
    <2>1. s = "pending" => Filed(msg[0])'
      BY <1>2 DEF Filed
    <2> QED  BY <2>1 DEF Filing
  <1> QED
    BY <1>1, <1>3, <1>4, <1>6, <1>7, <1>8, <1>9, <1>10, StepKeepsInv

LEMMA StartFileKeepsInv ==
    ASSUME Inv, StartFile
    PROVE  Inv'
  <1>1. PICK f \in File :
           /\ file[f] = "none"
           /\ current' = f
           /\ file' = [file EXCEPT ![f] = "torn"]
           /\ about' = [about EXCEPT ![f] = msg[0]]
    BY DEF StartFile
  <1>2. msg[0] \in Msg
    BY RootHasMessage DEF StartFile
  <1>3. \A m \in Msg : box[m] = "queued" => box'[m] = "queued"
    BY MailUnchanged DEF StartFile
  <1>4. ListenTypes' /\ \A q \in Gateways : pc'[q] = IF q = 0 THEN "writing" ELSE pc[q]
    BY <1>3, RootIsGateway, GotoFacts DEF StartFile, Inv
  <1>5. Listening'
    BY <1>4 DEF StartFile, mail, Inv, Listening
  <1>6. CurrentTypes'
    BY <1>1, <1>4, RootIsGateway, NobodyAssumption DEF CurrentTypes
  <1>7. /\ about' \in [File -> Msg \cup {NoMsg}] /\ about'[f] = msg[0]
        /\ \A g \in File : file[g] # "none" => about'[g] = about[g]
    BY <1>1, <1>2 DEF Inv, TypeOK
  <1> QED  BY <1>1, <1>4, <1>5, <1>6, <1>7, RootIsGateway, FileStep DEF StartFile

LEMMA FinishFileKeepsInv ==
    ASSUME Inv, FinishFile
    PROVE  Inv'
  <1>1. current \in File /\ about[current] = msg[0] /\ file[current] # "none"
    BY RootHasMessage DEF FinishFile
  <1>2. \A m \in Msg : box[m] = "queued" => box'[m] = "queued"
    BY MailUnchanged DEF FinishFile
  <1>3. ListenTypes' /\ \A q \in Gateways : pc'[q] = IF q = 0 THEN "filtering" ELSE pc[q]
    BY <1>2, RootIsGateway, GotoFacts DEF FinishFile, Inv
  <1>4. Listening'
    BY <1>3 DEF FinishFile, mail, Inv, Listening
  <1>5. CurrentTypes'
    BY <1>1, <1>3, RootIsGateway, NobodyAssumption DEF FinishFile, root, CurrentTypes
  <1> SUFFICES ASSUME NEW f \in File, f = current  PROVE Inv'
    BY <1>1
  <1>6. about' \in [File -> Msg \cup {NoMsg}] /\ about'[f] = msg[0] /\ about' = about
    BY <1>1 DEF FinishFile, Inv, TypeOK
  <1>7. current' = f /\ file' = [file EXCEPT ![f] = "pending"]
    BY DEF FinishFile, root
  <1>8. pc'[0] = "filtering"
    BY <1>3, RootIsGateway
  <1> QED  BY <1>3, <1>4, <1>5, <1>6, <1>7, <1>8, FileStep DEF FinishFile, root

\* The three layers: what passes them is not remembered yet, and is then.
LEMMA RememberFacts ==
    ASSUME DeliveredTypes, NEW a \in Answers
    PROVE  LET r == Remember(a)
           IN  /\ r \in [tasks : SUBSET {b.task : b \in Answers},
                         workers : SUBSET {b.worker : b \in Answers},
                         contents : SUBSET {b.content : b \in Answers}]
               /\ delivered.tasks \subseteq r.tasks
               /\ delivered.workers \subseteq r.workers
               /\ delivered.contents \subseteq r.contents
               /\ a.task = NoTask \/ a.task \in r.tasks
               /\ ~ TaskKnown(a) => a.worker = NoWorker \/ a.worker \in r.workers
               /\ ~ TaskKnown(a) /\ ~ WorkerKnown(a) => a.content \in r.contents
  BY DEF Remember, DeliveredTypes

LEMMA FilterKeepsInv ==
    ASSUME Inv, Filter
    PROVE  Inv'
  <1> DEFINE a == info[msg[0]].answer
             passes == ~ (a.trivial \/ TaskKnown(a) \/ WorkerKnown(a) \/ ContentKnown(a))
  <1>1. /\ msg[0] \in Msg /\ box[msg[0]] = "queued" /\ a \in Answers
        /\ current \in File /\ about[current] = msg[0] /\ file[current] # "none"
    BY RootHasMessage DEF Filter
  <1>2. /\ MailTypes' /\ MailKept /\ SettledFiled
        /\ \A m \in Msg : box[m] = "queued" => box'[m] = "queued"
    BY MailUnchanged DEF Filter
  <1>3. /\ delivered' = IF a.trivial THEN delivered ELSE Remember(a)
        /\ IF passes THEN /\ thread' = [thread EXCEPT ![current] = "calling"]
                          /\ calls' = calls \cup {current}
                     ELSE thread' = thread /\ calls' = calls
        /\ current' = NoFile
        /\ UNCHANGED <<mail, msg, queue, pass, history>>
    BY DEF Filter
  <1>4. FilesKept
    BY <1>3 DEF FilesKept, queue, history
  <1>5. ListenTypes' /\ \A q \in Gateways : pc'[q] = IF q = 0 THEN "acking" ELSE pc[q]
    BY <1>2, RootIsGateway, GotoFacts DEF Filter, Inv
  <1>6. Listening'
    BY <1>5 DEF Filter, mail, Inv, Listening
  <1>7. pc'[0] = "acking" /\ CurrentTypes'
    BY <1>3, <1>5, RootIsGateway DEF CurrentTypes
  <1>8. DeliveredTypes' /\ Grows
    <2>1. DeliveredTypes
      BY PartsOfTypes DEF Inv
    <2>2. CASE a.trivial
      BY <1>3, <2>1, <2>2 DEF DeliveredTypes, Grows
    <2>3. CASE ~ a.trivial
      BY <1>1, <1>3, <2>1, <2>3, RememberFacts DEF DeliveredTypes, Grows
    <2> QED  BY <2>2, <2>3
  <1>9. ThreadTypes' /\ calls' \subseteq File
    BY <1>1, <1>3 DEF ThreadTypes, Inv, TypeOK
  <1>10. TypeOK'
    BY <1>2, <1>3, <1>5, <1>7, <1>8, <1>9, PartsOfTypes, TypesOfParts
       DEF Inv, QueueTypes, PassTypes, HistoryTypes, mail, queue, pass, history, Within, TypeOK
  <1>11. Filing'
    <2>1. Suppressed(msg[0]) \/ Filed(msg[0])
      BY DEF Filter, Inv, Filing
    <2>2. (Suppressed(msg[0]) \/ Filed(msg[0]))'
      BY <1>3, <2>1 DEF Suppressed, Filed, Told, mail, queue, history
    <2> QED  BY <1>7, <2>2 DEF Filing
  <1>12. UsedExist'
    <2> SUFFICES ASSUME NEW f \in File, InUse(f)'  PROVE file[f] # "none"
      BY <1>3 DEF UsedExist, queue
    <2>1. f = current \/ InUse(f)
      BY <1>3, NobodyAssumption DEF InUse, Told, pass, history, Inv, TypeOK
    <2> QED  BY <1>1, <2>1 DEF Inv, UsedExist
  <1>13. Marking' /\ MarkedWasTold'
    BY <1>3 DEF Inv, TypeOK, Marking, MarkedWasTold, Told, queue, pass, history
  <1>14. Audited'
    BY <1>2, <1>4, AuditedKept
  <1>15. \A f \in calls : Remembered(f)'
    BY <1>2, <1>4, <1>8, RememberedStays
  <1>16. CASE ~ passes
    <2>1. calls' = calls
      BY <1>3, <1>16
    <2>2. CallsRemembered' /\ CallsDiffer'
      BY <1>2, <1>4, <1>8, <2>1, CallsKept DEF NoNewCall
    <2> QED  BY <1>6, <1>10, <1>11, <1>12, <1>13, <1>14, <2>2 DEF Inv
  <1>17. CASE passes
    <2>1. calls' = calls \cup {current} /\ delivered' = Remember(a)
      BY <1>3, <1>17
    <2>2. about' = about /\ info' = info /\ box' = box
      BY <1>3 DEF mail, queue
    <2>3. ~ TaskKnown(a) /\ ~ WorkerKnown(a) /\ ~ ContentKnown(a)
      BY <1>17
    <2>4. /\ a.task = NoTask \/ a.task \in delivered'.tasks
          /\ a.worker = NoWorker \/ a.worker \in delivered'.workers
          /\ a.content \in delivered'.contents
      BY <1>1, <2>1, <2>3, RememberFacts, PartsOfTypes DEF Inv
    <2>5. ASSUME NEW f \in File, f = current  PROVE Remembered(f)'
      BY <1>1, <2>2, <2>4, <2>5 DEF Remembered
    <2>6. CallsRemembered'
      BY <1>1, <1>15, <2>1, <2>5 DEF CallsRemembered
    <2>7. ASSUME NEW g \in calls
          PROVE  LET b == info[about[g]].answer
                 IN  /\ a.task = b.task => a.task = NoTask
                     /\ a.worker = b.worker => a.worker = NoWorker
                     /\ a.content # b.content
      <3>1. Remembered(g)
        BY DEF Inv, CallsRemembered
      <3> QED  BY <2>3, <3>1 DEF Remembered, TaskKnown, WorkerKnown, ContentKnown
    <2>8. CallsDiffer'
      <3>1. a = info[about[current]].answer
        BY <1>1
      <3> SUFFICES ASSUME NEW f \in calls \cup {current}, NEW g \in calls \cup {current}, f # g
                   PROVE  LET x == info[about[f]].answer
                              y == info[about[g]].answer
                          IN  /\ x.task = y.task => x.task = NoTask
                              /\ x.worker = y.worker => x.worker = NoWorker
                              /\ x.content # y.content
        BY <2>1, <2>2 DEF CallsDiffer
      <3>2. CASE f \in calls /\ g \in calls
        BY <3>2 DEF Inv, CallsDiffer
      <3>3. CASE f = current /\ g \in calls
        BY <2>7, <3>1, <3>3
      <3>4. CASE g = current /\ f \in calls
        BY <2>7, <3>1, <3>4
      <3> QED  BY <3>2, <3>3, <3>4
    <2> QED  BY <1>6, <1>10, <1>11, <1>12, <1>13, <1>14, <2>6, <2>8 DEF Inv
  <1> QED  BY <1>16, <1>17

-----------------------------------------------------------------------------
(* Crashes *)

LEMMA CrashGatewayKeepsInv ==
    ASSUME Inv, NEW p \in Gateways, CrashGateway(p)
    PROVE  Inv'
  <1>1. /\ MailTypes' /\ MailKept /\ SettledFiled
        /\ \A m \in Msg : box[m] = "queued" => box'[m] = "queued"
    BY MailUnchanged DEF CrashGateway
  <1>2. /\ ListenTypes' /\ Listening'
        /\ \A q \in Gateways : /\ pc'[q] = IF q = p THEN "idle" ELSE pc[q]
                               /\ msg'[q] = IF q = p THEN NoMsg ELSE msg[q]
    BY <1>1, PutDownFacts DEF CrashGateway, Inv, mail
  <1>3. FilesKept
    BY DEF CrashGateway, FilesKept, queue
  <1>4. Within(answered, faults)' /\ UNCHANGED <<queue, pass, told, lost>>
    BY DEF CrashGateway, Fault, mail, Within
  <1>5. CASE p # 0
    <2>1. UNCHANGED root /\ pc'[0] = pc[0] /\ msg'[0] = msg[0]
      BY <1>2, <1>5, RootIsGateway DEF CrashGateway
    <2>2. CurrentTypes'
      BY <2>1 DEF root, Inv, TypeOK, CurrentTypes
    <2>3. Filing'
      BY <1>1, <1>3, <2>1, FilingKept DEF root
    <2>4. lost' \subseteq Msg
      BY <1>4 DEF Inv, TypeOK
    <2> QED  BY <1>1, <1>2, <1>4, <2>1, <2>2, <2>3, <2>4, ListenerStep
  <1>6. CASE p = 0
    <2>1. /\ current' = NoFile /\ thread' = [f \in File |-> "none"]
          /\ delivered' = Nothing /\ calls' = {} /\ pc'[0] = "idle"
      BY <1>2, <1>6 DEF CrashGateway
    <2>2. TypeOK'
      BY <1>1, <1>2, <1>4, <2>1, PartsOfTypes, TypesOfParts
         DEF Inv, QueueTypes, PassTypes, HistoryTypes, ThreadTypes, DeliveredTypes, Nothing,
             CurrentTypes, queue, pass
    <2>3. Filing'
      BY <2>1 DEF Filing
    <2>4. UsedExist'
      BY <1>4, <2>1, NobodyAssumption DEF Inv, UsedExist, InUse, Told, queue, pass
    <2>5. Marking' /\ MarkedWasTold'
      BY <1>4, <2>1 DEF Inv, Marking, MarkedWasTold, Told, queue, pass
    <2>6. NoNewCall
      BY <2>1 DEF NoNewCall
    <2> QED  BY <1>1, <1>2, <1>3, <2>2, <2>3, <2>4, <2>5, <2>6, StepKeepsInv
  <1> QED  BY <1>5, <1>6

LEMMA CrashDispatcherKeepsInv ==
    ASSUME Inv, CrashDispatcher
    PROVE  Inv'
  <1>1. /\ dispatcher' \in [step : {"idle", "calling", "marking", "writing"},
                           file : File \cup {NoFile}]
        /\ dispatcher'.step = "idle" /\ dispatcher'.file = NoFile
    BY DEF CrashDispatcher, Resting
  <1>2. PassTypes' /\ HistoryTypes'
    BY <1>1, PartsOfTypes DEF CrashDispatcher, Inv, PassTypes, HistoryTypes
  <1> QED  BY <1>1, <1>2, DispatcherStep DEF CrashDispatcher

-----------------------------------------------------------------------------
(* The theorems *)

LEMMA InitHasInv == Init => Inv
  <1> SUFFICES ASSUME Init  PROVE Inv
    OBVIOUS
  <1>1. 0 \in Gateways /\ Within(0, 0)
    BY DepthAssumption, BudgetsAssumption DEF Gateways, Within
  <1>2. NoInfo \in [to : Gateways, answer : Answers, forwarded : BOOLEAN]
    BY <1>1, AnswersAssumption DEF NoInfo
  <1>3. TypeOK
    BY <1>1, <1>2 DEF Init, TypeOK, Mail!BoxInit, Mail!BoxTypeOK, Mail!Places, Resting, Nothing
  <1>4. Listening /\ Filing /\ Marking /\ CallsRemembered
    BY <1>1 DEF Init, Listening, Filing, Marking, CallsRemembered, Resting
  <1>5. UsedExist
    BY NobodyAssumption DEF Init, UsedExist, InUse, Told, Resting
  <1>6. Audited /\ MarkedWasTold /\ CallsDiffer
    BY DEF Init, Audited, MarkedWasTold, CallsDiffer, Mail!BoxInit
  <1> QED  BY <1>3, <1>4, <1>5, <1>6 DEF Inv

LEMMA NextKeepsInv == Inv /\ [Next]_vars => Inv'
  <1> SUFFICES ASSUME Inv, [Next]_vars  PROVE Inv'
    OBVIOUS
  <1>1. ASSUME NEW p \in Gateways, NEW answer \in Answers, Respond(p, answer)  PROVE Inv'
    BY <1>1, RespondKeepsInv
  <1>2. ASSUME NEW p \in Gateways, Listen(p)  PROVE Inv'
    <2>1. ASSUME NEW m \in Msg, Poll(p, m)  PROVE Inv'
      BY <2>1, PollKeepsInv
    <2> QED
      BY <1>2, <2>1, ForwardKeepsInv, AcknowledgeKeepsInv, SuppressKeepsInv,
         StartFileKeepsInv, FinishFileKeepsInv, FilterKeepsInv DEF Listen
  <1>3. ASSUME NEW p \in Gateways, ForwardFails(p) \/ AcknowledgeFails(p) \/ CrashGateway(p)
        PROVE  Inv'
    BY <1>3, ForwardFailsKeepsInv, AcknowledgeFailsKeepsInv, CrashGatewayKeepsInv
  <1>4. ASSUME NEW f \in File, HookThread(f)  PROVE Inv'
    BY <1>4, HookFailsKeepsInv, HookSucceedsKeepsInv, StartMarkKeepsInv, FinishMarkKeepsInv
       DEF HookThread
  <1>5. ASSUME NEW f \in File, Dispatch(f) \/ DispatchSucceeds(f)  PROVE Inv'
    BY <1>5, DispatcherReadsKeepInv, StartMarkDeliveredKeepsInv, FinishMarkDeliveredKeepsInv
       DEF Dispatch
  <1>6. CASE FileFails \/ GetPending \/ CrashDispatcher
    BY <1>6, FileFailsKeepsInv, DispatcherReadsKeepInv, CrashDispatcherKeepsInv
  <1>7. CASE UNCHANGED vars
    <2>1. /\ UNCHANGED <<mail, pc, msg, current, about, delivered, calls, lost, faults>>
          /\ UNCHANGED <<thread, file, dispatcher, pending, told>>
      BY <1>7 DEF vars, mail
    <2> QED
      BY <2>1, WriterStep, PartsOfTypes
         DEF Inv, QueueTypes, PassTypes, HistoryTypes, ThreadTypes, InUse, Told, Marking,
             MarkedWasTold
  <1> QED
    BY <1>1, <1>2, <1>3, <1>4, <1>5, <1>6, <1>7 DEF Next

LEMMA InvHolds == Spec => []Inv
  BY InitHasInv, NextKeepsInv, PTL DEF Spec

\* Type correctness; with it, that a gateway only handles messages that the
\* bus still offers, whoever else crashes or acknowledges.
THEOREM TypeCorrect == Spec => []TypeOK
  <1>1. Inv => TypeOK
    BY DEF Inv
  <1> QED  BY <1>1, InvHolds, PTL

\* The audit trail: what the root's gateway has acknowledged is in a file of
\* the queue that is its own, through any number of crashes and whatever the
\* hook threads and the dispatcher write.
THEOREM AuditedHolds == Spec => []Audited
  <1>1. Inv => Audited
    BY DEF Inv
  <1> QED  BY <1>1, InvHolds, PTL

\* A file is marked as delivered only after a hook call for it succeeded.
THEOREM MarkedWasToldHolds == Spec => []MarkedWasTold
  <1>1. Inv => MarkedWasTold
    BY DEF Inv
  <1> QED  BY <1>1, InvHolds, PTL

\* The three layers of deduplication: one process of the gateway never calls
\* the hook twice for one task, one worker or one content.
THEOREM CallsDifferHolds == Spec => []CallsDiffer
  <1>1. Inv => CallsDiffer
    BY DEF Inv
  <1> QED  BY <1>1, InvHolds, PTL

=============================================================================
