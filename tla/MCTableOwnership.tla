------------------------- MODULE MCTableOwnership -------------------------
(***************************************************************************)
(* Small instances of TableOwnership: a seeded table, the system tables,   *)
(* names for new tables, one of them in two cases, and sessions of         *)
(* editors, an administrator and a viewer.                                 *)
(***************************************************************************)
EXTENDS TableOwnership

CONSTANTS alice, bob, admin, carol,
          customer, app_user, ownership, OWNERSHIP, notes, NOTES, plans

MCUserOf(s) ==
    CASE s \in {"alice1", "alice2"} -> alice
      [] s = "bob1"   -> bob
      [] s = "admin1" -> admin
      [] s = "carol1" -> carol

MCUsers == [s \in Sessions |-> MCUserOf(s)]

MCRole == [u \in Users |-> CASE u = admin -> "admin"
                             [] u = carol -> "viewer"
                             [] OTHER     -> "editor"]

MCTableOf == [n \in Names |-> CASE n = NOTES     -> notes
                                [] n = OWNERSHIP -> ownership
                                [] OTHER         -> n]

Stmt(kind, name) == [kind |-> kind, name |-> name, parsed |-> TRUE]

Execute(script) == [helper |-> "execute", script |-> script]

Import(script) == [helper |-> "import", script |-> script]

\* One statement each: the SQL Editor, also with a name in another case, a
\* DROP that sqlglot does not parse, a look at a system table, and DML on
\* table_ownership by its capitals.
Statements ==
    {Execute(<<Stmt("drop", NOTES)>>),
     Execute(<<[Stmt("drop", notes) EXCEPT !.parsed = FALSE]>>),
     Execute(<<Stmt("use", app_user)>>), Execute(<<Stmt("use", OWNERSHIP)>>)}

\* A script that fails half way if its table is dropped, and a CSV replace
\* under the other name.
Scripts ==
    {Execute(<<Stmt("create_if_missing", notes), Stmt("use", notes)>>),
     Import(<<Stmt("drop_if_exists", NOTES), Stmt("create", NOTES)>>)}

AllRequests == Statements \cup Scripts

\* The row of notes is deleted.
MCEdits == {[name |-> notes, owner |-> NoOwner]}

OneCreate == {Execute(<<Stmt("create", notes)>>), Execute(<<Stmt("create", plans)>>)}
===========================================================================
