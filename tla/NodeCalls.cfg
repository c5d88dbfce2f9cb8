\* One run, failures enough for two nodes to fail for good.
SPECIFICATION Spec
CONSTANTS
    empty = empty
    good = good
    bad = bad
    garbled = garbled
    Stmts <- AllStmts
    EmptyStmt = empty
    Parses <- AllParse
    Passes <- OnlyGood
    MaxRegenerationAttempts = 2
    Providers = {"ollama", "gemini"}
    NoProvider = "none"
    Chosen = "gemini"
    Fallback = "ollama"
    CriticEnabled = TRUE
    Decisions <- AllDecisions
    MaxFailures = 9
CHECK_DEADLOCK FALSE
INVARIANTS
    TypeOK
    NoOrphanRows
    ChosenModelFirst
PROPERTIES
    CallsAreAtomic
    ErrorLinesAreFailures
