SPECIFICATION Spec
CONSTANTS
    Sessions = {s1, s2}
    Scripts <- MCScripts
    UserFile <- MCUserFile
    Mailboxes = {"a"}
    Files = {0, 1}
    Fold <- MCFold
    Number <- MCNumber
    Stored <- MCStored
    MaxMsg = 3
    MaxConns = 1
SYMMETRY Symmetry
CHECK_DEADLOCK FALSE
INVARIANT WordsAreOwn
INVARIANT UserAnswered
PROPERTY OnlyConfirmedRemoved
PROPERTY QuitRemovesAll
INVARIANT RetrievesNumbered
