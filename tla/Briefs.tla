------------------------------- MODULE Briefs -------------------------------
(***************************************************************************)
(* Briefs down: what one agent is told of the organisation.  The tools     *)
(* read_ancestor_memory and get_chain_context (tools/hierarchy_tools.py)   *)
(* read the memory of those above it and the shared knowledge base         *)
(* (core/memory/knowledge_base.py); the context manager                    *)
(* (core/memory/context_manager.py) builds the brief of an activation or   *)
(* of a task from the same, section by section, and cuts it to a budget.   *)
(* The walk up reads one row per step, and every store is read on its own, *)
(* while other processes change rows, save memories and edit knowledge.    *)
(*                                                                         *)
(* Texts are lengths, in characters.  Left out: tags, and categories,      *)
(* which filter as a topic does; separators; the section on workers, which *)
(* is always empty, since SubagentRegistry has no list_active; failing     *)
(* reads, which leave their section empty.                                 *)
(***************************************************************************)
EXTENDS Org

CONSTANTS
    Caller,       \* the profile the agent runs as
    Topic,        \* what entries of the knowledge base are about
    Everything,          \* the empty query
    Task,         \* the keywords of tasks that briefs are built for
    Given,        \* lengths of the context that a manager adds to a task
    Identity, TaskText, Note, Entry, Message,   \* lengths of pieces of text
    NotesEach, Found, FoundPerWord, Words, \* how many pieces a section takes
    MaxTokens,    \* max_context_tokens
    Notes0, Knowledge0   \* the memories and the knowledge base at first

ASSUME BriefsAssumption ==
    /\ Caller \in Profile
    /\ Everything \notin Topic
    /\ Task \subseteq Seq(Topic)
    /\ {Identity, TaskText, Note, Entry, Message, NotesEach, Found, FoundPerWord,
        Words, MaxTokens} \subseteq Nat
    /\ Given \subseteq Nat
    /\ NotesEach # 0
    /\ Notes0 \in [Profile -> Nat]
    /\ Knowledge0 \in Seq([id : 1..Len(Knowledge0), owner : Profile, topic : Topic])

VARIABLES
    notes,        \* how many hot memories each profile has; none: no database
    store,        \* what the agent's process knows of each profile's database
    knowledge,    \* the knowledge base, the last updated first
    editing,      \* the entry that an update has found, and its new topic
    call,         \* the kind of call, its step and its argument
    at, chain,    \* the next row of the walk up, and the rows read
    sections,     \* the sections built so far
    told,         \* the profiles whose memories the call hands out
    picked,       \* the entries that the keywords have found
    brief,        \* the sections, cut to the budget
    above, always,\* history: who has been above the caller at some moment of
                  \* the call, and who at every moment
    moves         \* history: how many parents changed during the call

shared == <<notes, knowledge, editing>>
result == <<sections, told, picked, brief>>
history == <<above, always, moves>>
briefs == <<notes, store, knowledge, editing, call, at, chain,
            sections, told, picked, brief, above, always, moves>>

\* The sections of a brief, by priority.
Priority == <<"identity", "task", "active_memory", "pending_messages", "ancestor_context",
              "knowledge", "shared_knowledge", "project_context", "constraints">>

Sections == {Priority[i] : i \in DOMAIN Priority}
Empty == [s \in Sections |-> 0]

NoEdit == [id |-> 0, topic |-> Everything]
NoCall == [kind |-> "none", step |-> "idle", of |-> Caller, words |-> << >>]

Id == 1..(Len(Knowledge0) + MaxChanges)

Entries == [id : Id, owner : Profile, topic : Topic]

BriefsTypeOK ==
    /\ notes \in [Profile -> Nat]
    /\ store \in [Profile -> {"unknown", "none", "open"}]
    /\ Len(knowledge) \in 0..Len(Knowledge0) + MaxChanges
    /\ \A i \in DOMAIN knowledge : knowledge[i] \in Entries
    /\ call.kind \in {"none", "activation", "task", "chain", "ancestor"}
    /\ sections \in [Sections -> Nat] /\ brief \in [Sections -> Nat]
    /\ told \subseteq Profile
    /\ above \subseteq Profile /\ always \subseteq Profile

BriefsInit ==
    /\ notes = Notes0
    /\ store = [p \in Profile |-> "unknown"]
    /\ knowledge = Knowledge0
    /\ editing = NoEdit
    /\ call = NoCall
    /\ at = NoProfile /\ chain = << >>
    /\ sections = Empty /\ brief = Empty
    /\ told = {} /\ picked = {}
    /\ above = {} /\ always = {} /\ moves = 0

-----------------------------------------------------------------------------
(* Memories and knowledge are written by other agents *)

\* Counted with the rows that change.
Writing == Changing /\ UNCHANGED <<role, parent, status>>

\* save_memory, which wants a database, or a gateway, which creates one.
SaveMemory(p) ==
    /\ Writing
    /\ notes' = [notes EXCEPT ![p] = @ + 1]
    /\ UNCHANGED <<store, knowledge, editing, call, at, chain, result, history>>

\* share_knowledge, the CLI's add-knowledge: a new entry is the newest.
AddKnowledge(p, topic) ==
    /\ Writing
    /\ knowledge' = <<[id |-> Len(Knowledge0) + changes', owner |-> p, topic |-> topic]>> \o knowledge
    /\ UNCHANGED <<notes, store, editing, call, at, chain, result, history>>

Ids == {knowledge[i].id : i \in DOMAIN knowledge}
Place(id) == CHOOSE i \in DOMAIN knowledge : knowledge[i].id = id
Without(id) == SubSeq(knowledge, 1, Place(id) - 1) \o SubSeq(knowledge, Place(id) + 1, Len(knowledge))

\* update_knowledge first sees that the entry exists ...
FindToUpdate(id, topic) ==
    /\ editing = NoEdit
    /\ Writing
    /\ id \in Ids
    /\ editing' = [id |-> id, topic |-> topic]
    /\ UNCHANGED <<notes, store, knowledge, call, at, chain, result, history>>

\* ... and then updates it, if it still does.
UpdateKnowledge ==
    /\ editing # NoEdit
    /\ knowledge' = IF editing.id \notin Ids THEN knowledge
                    ELSE <<[knowledge[Place(editing.id)] EXCEPT !.topic = editing.topic]>>
                         \o Without(editing.id)
    /\ editing' = NoEdit
    /\ UNCHANGED <<notes, store, call, at, chain, result, history>>

DeleteKnowledge(id) ==
    /\ Writing
    /\ id \in Ids
    /\ knowledge' = Without(id)
    /\ UNCHANGED <<notes, store, editing, call, at, chain, result, history>>

-----------------------------------------------------------------------------
(* Searches *)

\* At most limit entries of owners about topic, the last updated first.
Search(owners, topic, limit) ==
    LET hits == {i \in DOMAIN knowledge : /\ knowledge[i].owner \in owners
                                          /\ topic \in {Everything, knowledge[i].topic}}
    IN  {knowledge[i].id : i \in {j \in hits : Cardinality({h \in hits : h < j}) < limit}}

search_knowledge(topic, limit) == Search({Caller}, topic, limit)
search_all_profiles(topic, limit) == Search(Profile, topic, limit)

-----------------------------------------------------------------------------
(* The walk up: get_chain_of_command *)

Step(step) == call' = [call EXCEPT !.step = step]

\* A call starts; what its history is about is who is above the caller now.
Enter(kind, step, of, words) ==
    /\ call.step = "idle"
    /\ call' = [kind |-> kind, step |-> step, of |-> of, words |-> words]
    /\ at' = Caller
    /\ above' = Above(Caller, parent)
    /\ always' = Above(Caller, parent)
    /\ moves' = 0
    /\ UNCHANGED <<shared, store, chain, result>>

\* One row; a name that was there already ends the walk.
Climb ==
    /\ call.step = "walk"
    /\ at # NoProfile /\ \A i \in DOMAIN chain : chain[i] # at
    /\ chain' = Append(chain, at)
    /\ at' = parent[at]
    /\ UNCHANGED <<shared, store, call, result, history>>

WalkEnds ==
    /\ call.step = "walk"
    /\ at = NoProfile \/ \E i \in DOMAIN chain : chain[i] = at
    /\ Step(IF call.kind = "ancestor" THEN "check" ELSE "ancestors")
    /\ UNCHANGED <<shared, store, at, chain, result, history>>

\* _get_memory_store: a database that is not there when it is first asked for
\* is not looked for again in this process.
Look(p) == IF store[p] = "unknown" THEN (IF notes[p] > 0 THEN "open" ELSE "none") ELSE store[p]

-----------------------------------------------------------------------------
(* read_ancestor_memory and get_chain_context *)

ReadAncestorMemory(p) == Enter("ancestor", "walk", p, << >>)

NotInChain ==
    /\ call.step = "check"
    /\ \A i \in DOMAIN chain : chain[i] # call.of
    /\ Step("done")
    /\ UNCHANGED <<shared, store, at, chain, result, history>>

\* Only a name of the chain may be asked about; the caller's own is one.
ReadOne ==
    /\ call.step = "check"
    /\ \E i \in DOMAIN chain : chain[i] = call.of
    /\ store' = [store EXCEPT ![call.of] = Look(call.of)]
    /\ told' = IF Look(call.of) = "open" THEN {call.of} ELSE {}
    /\ Step("done")
    /\ UNCHANGED <<shared, at, chain, sections, picked, brief, history>>

GetChainContext == Enter("chain", "walk", Caller, << >>)

\* Fault: the caller's own memories are taken for an ancestor's.
ReadAncestorsAndOwn ==
    /\ call.step = "ancestors" /\ chain # << >>
    /\ LET p == Head(chain)
           n == IF Look(p) # "open" THEN 0 ELSE IF notes[p] < NotesEach THEN notes[p] ELSE NotesEach
       IN  /\ store' = [store EXCEPT ![p] = Look(p)]
           /\ told' = IF n > 0 THEN told \cup {p} ELSE told
           /\ sections' = [sections EXCEPT !["ancestor_context"] = @ + n * Note]
    /\ chain' = Tail(chain)
    /\ UNCHANGED <<shared, call, at, picked, brief, history>>

\* The newest memories of each profile in the chain but the caller, store by
\* store; one with none is left out.
ReadAncestors ==
    /\ call.step = "ancestors" /\ chain # << >>
    /\ LET p == Head(chain)
           n == IF p = Caller \/ Look(p) # "open" THEN 0
                ELSE IF notes[p] < NotesEach THEN notes[p] ELSE NotesEach
       IN  /\ store' = IF p = Caller THEN store ELSE [store EXCEPT ![p] = Look(p)]
           /\ told' = IF n > 0 THEN told \cup {p} ELSE told
           /\ sections' = [sections EXCEPT !["ancestor_context"] = @ + n * Note]
    /\ chain' = Tail(chain)
    /\ UNCHANGED <<shared, call, at, picked, brief, history>>

ReadShared ==
    /\ call.step = "ancestors" /\ chain = << >>
    /\ sections' = [sections EXCEPT !["shared_knowledge"] = Cardinality(search_all_profiles(Everything, Found)) * Entry]
    /\ Step(IF call.kind = "chain" THEN "done" ELSE "cut")
    /\ UNCHANGED <<shared, store, at, chain, told, picked, brief, history>>

-----------------------------------------------------------------------------
(* build_activation_context *)

BuildActivationContext == Enter("activation", "memory", Caller, << >>)

\* The first sections: who the agent is, and its own memories.
ReadMemory ==
    /\ call.step = "memory"
    /\ store' = [store EXCEPT ![Caller] = Look(Caller)]
    /\ sections' = [sections EXCEPT
            !["identity"] = Identity,
            !["active_memory"] = IF Look(Caller) = "open" THEN notes[Caller] * Note ELSE 0]
    /\ Step("knowledge")
    /\ UNCHANGED <<shared, at, chain, told, picked, brief, history>>

ReadKnowledge ==
    /\ call.step = "knowledge"
    /\ sections' = [sections EXCEPT !["knowledge"] = Cardinality(search_knowledge(Everything, Found)) * Entry]
    /\ Step("inbox")
    /\ UNCHANGED <<shared, store, at, chain, told, picked, brief, history>>

\* The messages that pend for the caller; reading them does not take them.
ReadPending(pending) ==
    /\ call.step = "inbox"
    /\ sections' = [sections EXCEPT !["pending_messages"] = pending * Message]
    /\ Step("walk")
    /\ UNCHANGED <<shared, store, at, chain, told, picked, brief, history>>

-----------------------------------------------------------------------------
(* build_task_brief *)

BuildTaskBrief(words) == Enter("task", "words", Caller, SubSeq(words, 1, IF Len(words) < Words THEN Len(words) ELSE Words))

\* _cherry_pick_knowledge: one search per keyword; an entry that was found
\* before is not taken again.
SearchWord ==
    /\ call.step = "words" /\ call.words # << >>
    /\ picked' = picked \cup search_knowledge(Head(call.words), FoundPerWord)
    /\ call' = [call EXCEPT !.words = Tail(@)]
    /\ UNCHANGED <<shared, store, at, chain, sections, told, brief, history>>

PickConstraints ==
    /\ call.step = "words" /\ call.words = << >>
    /\ \E given \in Given :
          sections' = [sections EXCEPT !["task"] = TaskText,
                                       !["project_context"] = given,
                                       !["constraints"] = Cardinality(picked) * Entry]
    /\ Step("cut")
    /\ UNCHANGED <<shared, store, at, chain, told, picked, brief, history>>

-----------------------------------------------------------------------------
(* _truncate_to_budget *)

estimate_tokens(length) == length \div 4

\* The tokens of all the sections of a brief.
Total(lengths) ==
    LET sum[i \in 0..Len(Priority)] ==
          IF i = 0 THEN 0 ELSE sum[i - 1] + estimate_tokens(lengths[Priority[i]])
    IN  sum[Len(Priority)]

\* The note that is put at the end of a section that was cut, unless the cut
\* falls after the end of a line.
Marks == {0, 13}

\* Fault: what a section that was cut takes is not counted.
CutOn(lengths, mark) ==
    LET cut[i \in 0..Len(Priority)] ==
          IF i = 0 THEN [left |-> MaxTokens, kept |-> Empty]
          ELSE LET s == Priority[i]
                   b == cut[i - 1]
                   t == estimate_tokens(lengths[s])
               IN  IF b.left = 0 \/ lengths[s] = 0 THEN b
                   ELSE IF t <= b.left
                     THEN [left |-> b.left - t, kept |-> [b.kept EXCEPT ![s] = lengths[s]]]
                     ELSE [b EXCEPT !.kept[s] = 4 * b.left + mark]
    IN  IF Total(lengths) <= MaxTokens THEN lengths ELSE cut[Len(Priority)].kept

\* By priority, whole sections as long as they fit, then one that is cut; the
\* rest is dropped.
Cut(lengths, mark) ==
    LET cut[i \in 0..Len(Priority)] ==
          IF i = 0 THEN [left |-> MaxTokens, kept |-> Empty]
          ELSE LET s == Priority[i]
                   b == cut[i - 1]
                   t == estimate_tokens(lengths[s])
               IN  IF b.left = 0 \/ lengths[s] = 0 THEN b
                   ELSE IF t <= b.left
                     THEN [left |-> b.left - t, kept |-> [b.kept EXCEPT ![s] = lengths[s]]]
                     ELSE [left |-> 0, kept |-> [b.kept EXCEPT ![s] = 4 * b.left + mark]]
    IN  IF Total(lengths) <= MaxTokens THEN lengths ELSE cut[Len(Priority)].kept

Truncate ==
    /\ call.step = "cut"
    /\ \E mark \in Marks : brief' = Cut(sections, mark)
    /\ Step("done")
    /\ UNCHANGED <<shared, store, at, chain, sections, told, picked, history>>

Return ==
    /\ call.step = "done"
    /\ call' = NoCall
    /\ at' = NoProfile /\ chain' = << >>
    /\ sections' = Empty /\ brief' = Empty
    /\ told' = {} /\ picked' = {}
    /\ above' = {} /\ always' = {} /\ moves' = 0
    /\ UNCHANGED <<shared, store>>

-----------------------------------------------------------------------------

Others ==
    \/ \E p \in Profile : SaveMemory(p)
    \/ \E p \in Profile, t \in Topic : AddKnowledge(p, t)
    \/ \E id \in Id, t \in Topic : FindToUpdate(id, t)
    \/ UpdateKnowledge /\ UNCHANGED org
    \/ \E id \in Id : DeleteKnowledge(id)

Reader ==
    \/ \E p \in Profile : ReadAncestorMemory(p)
    \/ GetChainContext \/ BuildActivationContext
    \/ \E words \in Task : BuildTaskBrief(words)
    \/ Climb \/ WalkEnds \/ NotInChain \/ ReadOne \/ ReadAncestors \/ ReadShared
    \/ ReadMemory \/ ReadKnowledge \/ SearchWord \/ PickConstraints
    \/ Truncate \/ Return

\* When a row changes, the history of the call in progress is kept.
KeepHistory ==
    /\ IF call.step = "idle" THEN UNCHANGED history
       ELSE /\ above' = above \cup Above(Caller, parent')
            /\ always' = always \cap Above(Caller, parent')
            /\ moves' = IF parent' # parent THEN moves + 1 ELSE moves
    /\ UNCHANGED <<shared, store, call, at, chain, result>>

-----------------------------------------------------------------------------
(* Properties *)

\* An agent is told the memories of nobody who was not above it (or is
\* itself, if it asks for that) at some moment of the call, and those of
\* everybody who was above it throughout and whose database its process has
\* seen.  The walk reads a row at a time, so this takes that at most one
\* profile moves during the call: with two, the chain can be one that never
\* was.
ToldByAncestors ==
    call.step = "done" /\ moves < 2 =>
        /\ told \subseteq above \cup (IF call.kind = "ancestor" THEN {Caller} ELSE {})
        /\ call.kind \in {"chain", "activation"} => {p \in always : store[p] = "open"} \subseteq told

\* A brief keeps to its budget but for the three tokens of the mark, wastes
\* none of it when something is left out, and leaves out or cuts a section
\* only if all that come after it by priority are left out.
BriefFits ==
    call.step = "done" /\ call.kind \in {"activation", "task"} =>
        /\ Total(brief) <= MaxTokens + 3
        /\ brief # sections => Total(brief) >= MaxTokens
        /\ \A i, j \in DOMAIN Priority :
              i < j /\ brief[Priority[i]] # sections[Priority[i]] => brief[Priority[j]] = 0

=============================================================================
