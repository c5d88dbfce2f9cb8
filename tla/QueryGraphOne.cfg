\* One run with every statement class, failures, a durable checkpointer and
\* one crash; the deployed cap of two regenerations.
SPECIFICATION FairSpec
CONSTANTS
    empty = empty
    good = good
    bad = bad
    garbled = garbled
    Stmts <- AllStmts
    EmptyStmt = empty
    Parses <- AllParse
    Passes <- OnlyGood
    MaxRegenerationAttempts = 2
    Runs = {r1}
    RecursionLimit = 13
    Corrections <- OnlyGood
    CriticEnabled = TRUE
    Durable = TRUE
    InterruptMarker = FALSE
    FailingNodes <- Nodes
    MaxCrashes = 1
    MaxActivity = 0
CHECK_DEADLOCK FALSE
INVARIANTS
    TypeOK
    AttemptsCapped
    ExecutedIsVetted
    SuccessIsEarned
    RejectedRunsNothing
    RaisesAreExplained
    RegenerationsCapped
    MessageIsOutcome
    PausedRunsAreReviewable
PROPERTIES
    EndedRunsKeepTheirOutcome
    InvocationsReturn
    WidgetDecisionTakesEffect
