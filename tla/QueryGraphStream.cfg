\* LangGraph's closing interrupt update in the chat turn's loop.
SPECIFICATION Spec
CONSTANTS
    empty = empty
    good = good
    bad = bad
    garbled = garbled
    Stmts <- CleanStmts
    EmptyStmt = empty
    Parses <- AllParse
    Passes <- OnlyGood
    MaxRegenerationAttempts = 1
    Runs = {r1}
    RecursionLimit = 11
    Corrections <- OnlyGood
    CriticEnabled = TRUE
    Durable = TRUE
    InterruptMarker = TRUE
    FailingNodes = {}
    MaxCrashes = 0
    MaxActivity = 0
CHECK_DEADLOCK FALSE
PROPERTY
    EscalatedTurnIsShown
