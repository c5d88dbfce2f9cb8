\* An editor's statements beside a question or a typed statement.
SPECIFICATION QuerySpec
CONSTANTS
    alice = alice
    bob = bob
    customer = customer
    ownership = ownership
    notes = notes
    NOTES = NOTES
    Sessions = {"bob1"}
    UserOf <- MCUserOf
    Users = {alice, bob}
    Role <- MCRole
    NoOwner = NoOwner
    Names = {customer, ownership, notes, NOTES}
    Tables = {customer, ownership, notes}
    TableOf <- MCTableOf
    SeedTables = {customer}
    SystemTables = {ownership}
    OwnershipTable = ownership
    Edits = {}
    Requests <- MCRequests
    MaxCrashes = 1
    Questions = {"q"}
    Asker <- MCAsker
    Limits <- MCLimits
    TableRows = 3
    DefaultRowLimit = 1
    MaxRowLimit = 2
    Semantic = TRUE
    TopK = 2
    Indexed <- MCIndexed
CHECK_DEADLOCK FALSE
INVARIANTS
    RecordedTablesStayPrivate
    RowsAreCapped
PROPERTY
    RankedContextIsFull
