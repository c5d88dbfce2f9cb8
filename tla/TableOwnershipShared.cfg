\* Two editors and a viewer, helper calls of every kind, one crash.
SPECIFICATION Spec
CONSTANTS
    alice = alice
    bob = bob
    admin = admin
    carol = carol
    customer = customer
    app_user = app_user
    ownership = ownership
    OWNERSHIP = OWNERSHIP
    notes = notes
    NOTES = NOTES
    plans = plans
    NoOwner = NoOwner
    Sessions = {"alice1", "bob1", "carol1"}
    UserOf <- MCUsers
    Users = {alice, bob, admin, carol}
    Role <- MCRole
    Names = {customer, app_user, ownership, OWNERSHIP, notes, NOTES, plans}
    Tables = {customer, app_user, ownership, notes, plans}
    TableOf <- MCTableOf
    SeedTables = {customer}
    SystemTables = {app_user, ownership}
    OwnershipTable = ownership
    Requests <- AllRequests
    Edits <- MCEdits
    MaxCrashes = 1
INVARIANTS
    TypeOK
    SeedTablesStayPublic
    OwnersWerePresent
    
PROPERTIES
    ForeignTablesUntouched
