\* Two runs sharing the queue, with one crash; a cap of zero regenerations.
SPECIFICATION Spec
CONSTANTS
    empty = empty
    good = good
    bad = bad
    garbled = garbled
    Stmts <- CleanStmts
    EmptyStmt = empty
    Parses <- AllParse
    Passes <- OnlyGood
    MaxRegenerationAttempts = 0
    Runs = {r1, r2}
    RecursionLimit = 7
    Corrections = {}
    CriticEnabled = FALSE
    Durable = TRUE
    InterruptMarker = FALSE
    FailingNodes = {"enqueue_review"}
    MaxCrashes = 1
    MaxActivity = 0
CHECK_DEADLOCK FALSE
SYMMETRY RunSymmetry
INVARIANTS
    EscalatedHasItsRow
    OneRowPerTrace
PROPERTIES
    QueueKeepsEvidence
