--------------------------- MODULE TableOwnership ---------------------------
(***************************************************************************)
(* Table ownership: auth.py with the helpers of db/admin.py that the SQL   *)
(* Editor and Import tabs call.  A session runs one helper at a time; its  *)
(* steps are the transactions of the helper on app.db, and the steps of    *)
(* several sessions interleave.                                            *)
(*                                                                         *)
(* Statements in a script commit one by one (SQLite DDL is in autocommit   *)
(* mode), and ownership is recorded after the last one, table by table.    *)
(*                                                                         *)
(* A table has several names: SQLite finds it by its name in any case,     *)
(* sqlite_master keeps the name it was created under, and auth.py compares *)
(* names exactly, as the rows of table_ownership are keyed.                *)
(***************************************************************************)
EXTENDS Naturals, Sequences

CONSTANTS
    Sessions, UserOf, \* Streamlit sessions and the user logged in
    Users, Role,      \* app_user
    NoOwner,
    Names, Tables, TableOf, \* names, and the table SQLite finds by each
    SeedTables, SystemTables, OwnershipTable, \* names in schema.sql
    Requests,         \* bound: the helper calls a session may make
    Edits,            \* bound: the rows DML on table_ownership leaves
    MaxCrashes        \* bound on process crashes

Kinds == {"create", "create_if_missing", "drop", "drop_if_exists", "use"}

\* Whether sqlglot parses the statement and finds the table in it.
Statement == [kind : Kinds, name : Names, parsed : BOOLEAN]

\* execute_write runs one statement, execute_script several; import_csv those
\* that to_sql needs for its one target table.
Request ==
    {req \in [helper : {"execute", "import"}, script : Seq(Statement)] :
        req.helper = "import" =>
            \A i, j \in 1 .. Len(req.script) :
                /\ req.script[i].parsed
                /\ req.script[i].name = req.script[j].name}

ASSUME UserAssumption ==
    /\ UserOf \in [Sessions -> Users]
    /\ Role \in [Users -> {"viewer", "editor", "admin"}]
    /\ NoOwner \notin Users
ASSUME TableAssumption ==
    /\ TableOf \in [Names -> Tables]
    /\ SeedTables \subseteq Names /\ SystemTables \subseteq Names
    /\ OwnershipTable \in SystemTables
    /\ \A m, n \in SeedTables \cup SystemTables :
           TableOf[m] = TableOf[n] => m = n
\* Without its ownership table the program only raises: no request drops it.
ASSUME RequestAssumption ==
    /\ Requests \subseteq Request
    /\ \A req \in Requests : \A i \in 1 .. Len(req.script) :
           TableOf[req.script[i].name] = TableOf[OwnershipTable] =>
               req.script[i].kind = "use"
    /\ Edits \subseteq [name : Names, owner : Users \cup {NoOwner}]
ASSUME CrashAssumption == MaxCrashes \in Nat

VARIABLES
    exists,   \* the names in sqlite_master
    owner,    \* the rows of table_ownership, by name
    pc,       \* the next transaction of the session's helper
    request,  \* the helper's arguments
    position, \* statements checked, or run, so far
    before,   \* tables seen before the script ran
    new,      \* tables still to be recorded
    crashes

VARIABLES
    creator,  \* history: who created the table as it is now
    dropped,  \* history: names of tables dropped at some time
    vetted,   \* history: names the helper's checks found public
    edited,   \* history: names whose row DML has touched
    present,  \* history: users with a script running when a table of the
              \* name was created
    abandoned \* history: new names, not dropped since, that a helper was to
              \* record when it failed or died

helperVars  == <<pc, request, position, before, new>>
historyVars == <<creator, dropped, vetted, edited, present, abandoned>>
vars == <<exists, owner, helperVars, historyVars, crashes>>

NoRequest == [helper |-> "execute", script |-> <<>>]

Init ==
    /\ exists = SeedTables \cup SystemTables
    /\ owner = [n \in Names |-> NoOwner]
    /\ pc = [s \in Sessions |-> "idle"]
    /\ request = [s \in Sessions |-> NoRequest]
    /\ position = [s \in Sessions |-> 0]
    /\ before = [s \in Sessions |-> {}]
    /\ new = [s \in Sessions |-> {}]
    /\ crashes = 0
    /\ creator = [n \in Names |-> NoOwner]
    /\ dropped = {}
    /\ vetted = [s \in Sessions |-> {}]
    /\ edited = {}
    /\ present = [n \in Names |-> {}]
    /\ abandoned = {}

---------------------------------------------------------------------------
(* auth.py.                                                                *)

CanWrite(u) == Role[u] \in {"editor", "admin"}

IsSuperuser(u) == Role[u] = "admin"

CanAccessTable(n, u) ==
    \/ IsSuperuser(u)
    \/ n \notin SystemTables /\ owner[n] \in {NoOwner, u}

\* A superuser's None, no restriction, stands for every table there is.
VisibleTables(u) ==
    IF IsSuperuser(u) THEN exists
    ELSE (exists \ {n \in Names : owner[n] \notin {NoOwner, u}}) \ SystemTables

\* INSERT OR IGNORE: the first recorded owner stays.
RecordTableOwner(n, u) ==
    owner' = IF n \in SystemTables \/ owner[n] # NoOwner
             THEN owner ELSE [owner EXCEPT ![n] = u]

---------------------------------------------------------------------------
(* The helpers of db/admin.py.                                             *)

CurrentStatement(s) == request[s].script[position[s] + 1]

AtEnd(s) == position[s] = Len(request[s].script)

Goto(s, label) == pc' = [pc EXCEPT ![s] = label]

Advance(s) == position' = [position EXCEPT ![s] = @ + 1]

\* New names the helper is about to record.
Owes(s) ==
    CASE pc[s] = "run"    -> exists \ before[s]
      [] pc[s] = "record" -> new[s]
      [] OTHER            -> {}

\* The helpers of these sessions are over, their local variables gone.
End(ended) ==
    /\ pc' = [s \in Sessions |-> IF s \in ended THEN "idle" ELSE pc[s]]
    /\ request' = [s \in Sessions |->
                      IF s \in ended THEN NoRequest ELSE request[s]]
    /\ position' = [s \in Sessions |-> IF s \in ended THEN 0 ELSE position[s]]
    /\ before' = [s \in Sessions |-> IF s \in ended THEN {} ELSE before[s]]
    /\ new' = [s \in Sessions |-> IF s \in ended THEN {} ELSE new[s]]
    /\ vetted' = [s \in Sessions |-> IF s \in ended THEN {} ELSE vetted[s]]
    /\ abandoned' = abandoned \cup UNION {Owes(s) \ dropped : s \in ended}

\* A viewer's call is refused before anything happens.
Call(s, req) ==
    /\ pc[s] = "idle"
    /\ CanWrite(UserOf[s])
    /\ Goto(s, "check")
    /\ request' = [request EXCEPT ![s] = req]
    /\ UNCHANGED <<exists, owner, position, before, new, crashes, historyVars>>

\* _check_access lets any CREATE statement pass, and one it cannot parse or
\* finds no table in; import_csv has no exemption.
IsExempt(s) ==
    /\ request[s].helper = "execute"
    /\ \/ CurrentStatement(s).kind \in {"create", "create_if_missing"}
       \/ ~ CurrentStatement(s).parsed

\* Mutant: a statement without access is skipped over, not refused.
CheckLeniently(s) ==
    /\ pc[s] = "check" /\ ~ AtEnd(s)
    /\ Advance(s)
    /\ UNCHANGED <<exists, owner, pc, request, before, new, crashes,
                   historyVars>>

\* import_csv checks its table once, for all it does to it.
LastCovered(s) ==
    IF request[s].helper = "import" THEN Len(request[s].script)
                                    ELSE position[s] + 1

\* The access check of one statement, or of an import, by the name written.
CheckAccess(s) ==
    /\ pc[s] = "check" /\ ~ AtEnd(s)
    /\ LET n == CurrentStatement(s).name IN
       IF IsExempt(s) \/ CanAccessTable(n, UserOf[s])
       THEN /\ position' = [position EXCEPT ![s] = LastCovered(s)]
            /\ vetted' = IF ~ IsExempt(s) /\ owner[n] = NoOwner
                         THEN [vetted EXCEPT ![s] = @ \cup {n}]
                         ELSE vetted
            /\ UNCHANGED <<pc, request, before, new, abandoned>>
       ELSE End({s})
    /\ UNCHANGED <<exists, owner, crashes, creator, dropped, edited, present>>

\* Mutant: the snapshot is not taken.
SkipSnapshot(s) ==
    /\ pc[s] = "check" /\ AtEnd(s)
    /\ Goto(s, "run")
    /\ position' = [position EXCEPT ![s] = 0]
    /\ before' = [before EXCEPT ![s] = {}]
    /\ UNCHANGED <<exists, owner, request, new, crashes, historyVars>>

\* before = _existing_tables(conn), once every statement was checked.
TakeSnapshot(s) ==
    /\ pc[s] = "check" /\ AtEnd(s)
    /\ Goto(s, "run")
    /\ position' = [position EXCEPT ![s] = 0]
    /\ before' = [before EXCEPT ![s] = exists]
    /\ UNCHANGED <<exists, owner, request, new, crashes, historyVars>>

SameTable(m, n) == TableOf[m] = TableOf[n]

\* The name, in any case, of a table that is there.
InDatabase(n) == \E m \in exists : SameTable(m, n)

\* SQL's IF [NOT] EXISTS takes a name in any case, to_sql only as it is
\* written in sqlite_master.
Found(s, n) == IF request[s].helper = "import" THEN n \in exists
                                               ELSE InDatabase(n)

CreateTable(s, n) ==
    /\ exists' = exists \cup {n}
    /\ creator' = [creator EXCEPT ![n] = UserOf[s]]
    /\ present' = [present EXCEPT ![n] =
                      @ \cup {UserOf[o] : o \in {p \in Sessions : pc[p] = "run"}}]
    /\ UNCHANGED <<owner, dropped, edited, abandoned>>

DropTable(n) ==
    LET gone == {m \in exists : SameTable(m, n)} IN
    /\ exists' = exists \ gone
    /\ dropped' = dropped \cup gone
    /\ creator' = [m \in Names |-> IF m \in gone THEN NoOwner ELSE creator[m]]
    /\ abandoned' = abandoned \ gone
    /\ UNCHANGED <<owner, edited, present>>

\* INSERT, UPDATE or DELETE on table_ownership.
EditOwnership ==
    /\ \E row \in Edits :
           /\ owner' = [owner EXCEPT ![row.name] = row.owner]
           /\ edited' = edited \cup {row.name}
    /\ UNCHANGED <<exists, creator, dropped, present, abandoned>>

Creates(s, stmt) ==
    \/ stmt.kind = "create"
    \/ stmt.kind = "create_if_missing" /\ ~ Found(s, stmt.name)

Drops(s, stmt) ==
    \/ stmt.kind = "drop"
    \/ stmt.kind = "drop_if_exists" /\ Found(s, stmt.name)

\* SQLite raises: a CREATE that finds its table, a DROP or other use that
\* does not.
Fails(s, stmt) ==
    \/ Creates(s, stmt) /\ InDatabase(stmt.name)
    \/ stmt.kind \in {"drop", "use"} /\ ~ InDatabase(stmt.name)

RunStatement(s) ==
    /\ pc[s] = "run" /\ ~ AtEnd(s)
    /\ LET stmt == CurrentStatement(s) IN
       /\ ~ Fails(s, stmt)
       /\ \/ Creates(s, stmt) /\ CreateTable(s, stmt.name)
          \/ Drops(s, stmt) /\ DropTable(stmt.name)
          \/ /\ stmt.kind = "use" /\ SameTable(stmt.name, OwnershipTable)
             /\ EditOwnership
          \/ /\ ~ Creates(s, stmt) /\ ~ Drops(s, stmt)
             /\ UNCHANGED <<exists, owner, creator, dropped, edited, present,
                            abandoned>>
    /\ Advance(s)
    /\ UNCHANGED <<pc, request, before, new, crashes, vetted>>

\* The exception leaves the helper; statements already run stay committed.
RaiseError(s) ==
    /\ pc[s] = "run" /\ ~ AtEnd(s)
    /\ Fails(s, CurrentStatement(s))
    /\ End({s})
    /\ UNCHANGED <<exists, owner, crashes, creator, dropped, edited, present>>

\* Mutant: the tables that were there before are recorded as well.
ListAllTables(s) ==
    /\ pc[s] = "run" /\ AtEnd(s)
    /\ Goto(s, "record")
    /\ new' = [new EXCEPT ![s] = exists]
    /\ UNCHANGED <<exists, owner, request, position, before, crashes,
                   historyVars>>

\* Mutant: the difference is taken the wrong way round.
ListLostTables(s) ==
    /\ pc[s] = "run" /\ AtEnd(s)
    /\ Goto(s, "record")
    /\ new' = [new EXCEPT ![s] = before[s] \ exists]
    /\ UNCHANGED <<exists, owner, request, position, before, crashes,
                   historyVars>>

\* _record_new_tables reads the table names again.
ListNewTables(s) ==
    /\ pc[s] = "run" /\ AtEnd(s)
    /\ Goto(s, "record")
    /\ new' = [new EXCEPT ![s] = exists \ before[s]]
    /\ UNCHANGED <<exists, owner, request, position, before, crashes,
                   historyVars>>

\* Mutant: the session is recorded, not its user.
RecordSession(s) ==
    /\ pc[s] = "record"
    /\ \E n \in new[s] :
           /\ RecordTableOwner(n, s)
           /\ new' = [new EXCEPT ![s] = @ \ {n}]
    /\ UNCHANGED <<exists, pc, request, position, before, crashes, historyVars>>

RecordTable(s) ==
    /\ pc[s] = "record"
    /\ \E n \in new[s] :
           /\ RecordTableOwner(n, UserOf[s])
           /\ new' = [new EXCEPT ![s] = @ \ {n}]
    /\ UNCHANGED <<exists, pc, request, position, before, crashes, historyVars>>

Return(s) ==
    /\ pc[s] = "record" /\ new[s] = {}
    /\ End({s})
    /\ UNCHANGED <<exists, owner, crashes, creator, dropped, edited, present>>

\* The process dies: what was committed stays, helpers are gone.
Crash ==
    /\ crashes < MaxCrashes
    /\ crashes' = crashes + 1
    /\ End(Sessions)
    /\ UNCHANGED <<exists, owner, creator, dropped, edited, present>>

Step(s) ==
    \/ CheckAccess(s) \/ TakeSnapshot(s)  \/ RunStatement(s)
    \/ RaiseError(s)  \/ ListNewTables(s) \/ RecordTable(s) \/ Return(s)

Next ==
    \/ \E s \in Sessions : Step(s) \/ \E req \in Requests : Call(s, req)
    \/ Crash

Spec == Init /\ [][Next]_vars

---------------------------------------------------------------------------
(* Properties.                                                             *)

\* Every variable stays in its domain.
TypeOK ==
    /\ exists \subseteq Names
    /\ owner \in [Names -> Users \cup {NoOwner}]
    /\ pc \in [Sessions -> {"idle", "check", "run", "record"}]
    /\ request \in [Sessions -> Request]
    /\ position \in [Sessions -> Nat]
    /\ before \in [Sessions -> SUBSET Names]
    /\ new \in [Sessions -> SUBSET Names]
    /\ crashes \in Nat
    /\ creator \in [Names -> Users \cup {NoOwner}]
    /\ dropped \subseteq Names
    /\ vetted \in [Sessions -> SUBSET Names]
    /\ edited \subseteq Names
    /\ present \in [Names -> SUBSET Users]
    /\ abandoned \subseteq Names

\* A seeded table stays public (auth.py:7-9) whatever scripts run beside each
\* other, as long as nobody has dropped it or written to table_ownership.
SeedTablesStayPublic ==
    \A n \in SeedTables \cup SystemTables :
        owner[n] # NoOwner => n \in dropped \cup edited

\* The owner the helpers record is a user whose own script was running when a
\* table of that name was created (auth.py:10-11): neither a table that was
\* there before, nor one of a session that had not begun or was over, goes to
\* a user who had no part in it.
OwnersWerePresent ==
    \A n \in Names : owner[n] \in {NoOwner} \cup present[n] \/ n \in edited

NewTables == exists \ (SeedTables \cup SystemTables)

\* A table created afterwards does not stay public (auth.py:10-11): one that
\* has no owner is about to get one, or the helper that was to record it
\* failed or died with the process (admin.py:33-35, 76-83).
NewTablesGetOwners ==
    \A n \in NewTables \ (dropped \cup edited) :
        owner[n] = NoOwner =>
            n \in abandoned \/ \E s \in Sessions : n \in Owes(s)

\* The tables a statement reaches are those of others.
Reaches(s, m) ==
    /\ m \in exists /\ SameTable(m, CurrentStatement(s).name)
    /\ owner[m] \notin {NoOwner, UserOf[s]}

\* _check_access "blocks references to tables the user doesn't own"
\* (admin.py:43): a statement reaches another user's table only if it needs no
\* check, if it spells the name in another case, if the table was still public
\* when the helper checked it, or if table_ownership was written to.
ForeignTablesUntouched ==
    [][ \A s \in Sessions, m \in Names :
           RunStatement(s) /\ Reaches(s, m) =>
               \/ IsExempt(s) \/ IsSuperuser(UserOf[s])
               \/ CurrentStatement(s).name # m
               \/ m \in vetted[s] \cup edited ]_vars

---------------------------------------------------------------------------
(* What the repository says of the code and the code does not do.          *)

\* A table is "owned by whichever user created it" (auth.py:10-11).
OwnerIsCreator ==
    \A n \in NewTables : owner[n] \in {NoOwner, creator[n]}

=============================================================================
