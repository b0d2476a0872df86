\* Two updates, a document opened once, two host processes, two timeouts or failed flushes.
SPECIFICATION ShellSpec
CONSTANTS
    MaxEdits = 2
    MaxLives = 2
    MaxViews = 1
    MaxErrors = 2
CHECK_DEADLOCK FALSE
INVARIANTS
    AnswersMatch
    GapsOnlyWhereACallFailed
    BackSaves
