SPECIFICATION Spec
CHECK_DEADLOCK FALSE
CONSTANTS
    hermes = hermes
    head = head
    pm = pm
    other = other
    Profile = {hermes, head, pm, other}
    NoProfile = NoProfile
    Role0 <- MCRole
    Parent0 <- MCParent
    MaxChanges = 2
    Caller = pm
    paint = paint
    glue = glue
    Topic = {paint, glue}
    Everything = Everything
    Task <- MCTask
    Given = {0, 5, 17}
    Identity = 6
    TaskText = 7
    Note = 5
    Entry = 9
    Message = 5
    NotesEach = 1
    Found = 2
    FoundPerWord = 1
    Words = 2
    MaxTokens = 4
    Notes0 <- MCNotes
    Knowledge0 <- MCKnowledge
    MaxInbox = 1
INVARIANTS
    Reported
    ToldByAncestors
    BriefFits
