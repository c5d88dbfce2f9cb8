--------------------------- MODULE MCGuardedQuery ---------------------------
(***************************************************************************)
(* A small instance of GuardedQuery: bob creates and drops tables, one of  *)
(* them under its name in two cases, while alice asks a question or types  *)
(* a statement.                                                            *)
(***************************************************************************)
EXTENDS GuardedQuery

CONSTANTS alice, bob, customer, ownership, notes, NOTES

MCUserOf  == [s \in Sessions |-> IF s = "bob1" THEN bob ELSE alice]
MCRole    == [u \in Users |-> "editor"]
MCAsker   == [q \in Questions |-> alice]
MCTableOf == [n \in Names |-> IF n = NOTES THEN notes ELSE n]

Stmt(kind, name) ==
    [helper |-> "execute",
     script |-> <<[kind |-> kind, name |-> name, parsed |-> TRUE]>>]

MCRequests == {Stmt("create", notes), Stmt("create", NOTES), Stmt("drop", notes)}

\* Empty, or left with the tables of a superuser's question.
MCIndexed == {{}, {customer, ownership}}

MCLimits == {[kind |-> "none", value |-> 0], [kind |-> "integer", value |-> 3],
             [kind |-> "literal", value |-> 3],
             [kind |-> "expression", value |-> 1]}
=============================================================================
