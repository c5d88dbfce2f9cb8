---------------------------- MODULE GuardedQuery ----------------------------
(***************************************************************************)
(* Reading app.db while table ownership changes: a question of the agent   *)
(* pipeline, or a SELECT typed in the SQL Editor's guarded mode, beside    *)
(* the write helpers of TableOwnership.  Each reads the names and owners   *)
(* of the tables, decides on a statement and runs it later, on connections *)
(* of its own.                                                             *)
(*                                                                         *)
(* A statement is the table it reads, by a name in any case, and its       *)
(* LIMIT.  How often the validator sends a statement back is QueryGraph's  *)
(* subject.                                                                *)
(***************************************************************************)
EXTENDS TableOwnership, FiniteSets

CONSTANTS
    Questions, Asker,  \* questions and typed statements, and whose they are
    Limits,            \* bound: the LIMIT clauses of statements
    TableRows,         \* bound: rows of every table
    DefaultRowLimit, MaxRowLimit,
    Semantic,          \* SCHEMA_RETRIEVAL_BACKEND is "semantic"
    TopK,              \* top_k of both rankings
    Indexed            \* bound: the collection as earlier processes left it

\* none: no LIMIT.  integer: what int() reads.  literal: a number it does not
\* read, as 1e3.  expression: LIMIT -1, a sum, a subquery.
Limit == [kind : {"none", "integer", "literal", "expression"}, value : Nat]

ASSUME AskerAssumption == Asker \in [Questions -> Users]
ASSUME LimitAssumption ==
    /\ Limits \subseteq Limit
    /\ TableRows \in Nat /\ DefaultRowLimit \in Nat /\ MaxRowLimit \in Nat
    /\ DefaultRowLimit <= MaxRowLimit
ASSUME RankingAssumption ==
    /\ Semantic \in BOOLEAN /\ TopK \in Nat \ {0}
    /\ Indexed \subseteq SUBSET Names

VARIABLES
    step,      \* the next operation of each question
    typed,     \* it is a statement typed in the SQL Editor
    names,     \* table names visible_tables has read
    context,   \* the schema, then the ranked schema_context
    statement, \* final_sql
    result,    \* number of rows of execution_result
    index,     \* Qdrant: the tables of the collection, of all users
    rankerDown \* _unavailable of semantic_schema.py

VARIABLES
    barred,    \* history: names that were not the asker's to read at first
    approved   \* history: the statement is a reviewer's

rankerVars == <<index, rankerDown>>
queryVars == <<step, typed, names, context, statement, result, rankerVars,
               barred, approved>>

\* What ends a question; a paused run outlives its process.
Ends == {"done", "refused", "failed", "lost"}

Steps == {"idle", "retrieve", "retrieve_owners", "rank", "query_index",
          "generate", "validate", "validate_owners", "review", "execute"} \cup Ends

Statements == [table : Names, limit : Limits]
NoStatement == [table |-> "none", limit |-> [kind |-> "none", value |-> 0]]

QueryInit ==
    /\ Init
    /\ step = [q \in Questions |-> "idle"]
    /\ typed = [q \in Questions |-> FALSE]
    /\ names = [q \in Questions |-> {}]
    /\ context = [q \in Questions |-> {}]
    /\ statement = [q \in Questions |-> NoStatement]
    /\ result = [q \in Questions |-> 0]
    /\ index \in Indexed /\ rankerDown = FALSE
    /\ barred = [q \in Questions |-> {}]
    /\ approved = [q \in Questions |-> FALSE]

Proceed(q, label) == step' = [step EXCEPT ![q] = label]

NotReadable(u) == {n \in Names : ~ CanAccessTable(n, u)}

Ask(q) ==
    /\ step[q] = "idle"
    /\ barred' = [barred EXCEPT ![q] = NotReadable(Asker[q])]
    /\ \/ /\ Proceed(q, "retrieve")
          /\ UNCHANGED <<typed, statement>>
       \/ /\ Proceed(q, "validate")
          /\ typed' = [typed EXCEPT ![q] = TRUE]
          /\ \E s \in Statements : statement' = [statement EXCEPT ![q] = s]
    /\ UNCHANGED <<names, context, result, rankerVars, approved>>

---------------------------------------------------------------------------
(* visible_tables and _introspect_schema, twice for a question.            *)

\* visible_tables reads sqlite_master before table_ownership.
ReadNames(q) ==
    /\ step[q] \in {"retrieve", "validate"}
    /\ names' = [names EXCEPT ![q] = exists]
    /\ Proceed(q, IF step[q] = "retrieve" THEN "retrieve_owners"
                                          ELSE "validate_owners")
    /\ UNCHANGED <<typed, context, statement, result, rankerVars, barred,
                   approved>>

\* Mutant: ownership is not asked for.
SchemaOfAll(q) == names[q] \cap exists

\* The tables that are there, less those owned by others and system tables.
Schema(q) ==
    IF IsSuperuser(Asker[q]) THEN exists
    ELSE names[q] \cap VisibleTables(Asker[q])

Retrieve(q) ==
    /\ step[q] = "retrieve_owners"
    /\ context' = [context EXCEPT ![q] = Schema(q)]
    /\ Proceed(q, "rank")
    /\ UNCHANGED <<typed, names, statement, result, rankerVars, barred, approved>>

---------------------------------------------------------------------------
(* The two rankings; which tables rank first is left open.                 *)

Fullest(tables) ==
    {best \in SUBSET tables :
        \/ Cardinality(best) = TopK
        \/ best = tables /\ Cardinality(best) < TopK}

\* _rank_tables: the tables that score, at least one, or the first TopK.
RankLexically(q) ==
    /\ \E best \in SUBSET context[q] :
           /\ Cardinality(best) <= TopK /\ (best = {} => context[q] = {})
           /\ context' = [context EXCEPT ![q] = best]
    /\ Proceed(q, "generate")

\* The default backend, no client, or an exception out of the semantic one.
Lexical(q) ==
    /\ \/ step[q] = "rank" /\ UNCHANGED rankerDown
       \/ step[q] = "query_index" /\ UNCHANGED rankerDown
       \/ step[q] = "rank" /\ Semantic /\ rankerDown' = TRUE
    /\ RankLexically(q)
    /\ UNCHANGED <<typed, names, statement, result, index, barred, approved>>

\* Mutant: a collection that is there is taken to be up to date.
UpsertOnce(q) ==
    /\ step[q] = "rank" /\ Semantic /\ ~ rankerDown /\ context[q] # {}
    /\ index' = IF index = {} THEN context[q] ELSE index
    /\ Proceed(q, "query_index")
    /\ UNCHANGED <<typed, names, context, statement, result, rankerDown,
                   barred, approved>>

\* One collection serves all users; nothing is ever deleted from it.
Upsert(q) ==
    /\ step[q] = "rank" /\ Semantic /\ ~ rankerDown /\ context[q] # {}
    /\ index' = index \cup context[q]
    /\ Proceed(q, "query_index")
    /\ UNCHANGED <<typed, names, context, statement, result, rankerDown,
                   barred, approved>>

\* The hits are the best of the asker's own tables (query_filter); without
\* any, the first of the schema.
QueryIndex(q) ==
    /\ step[q] = "query_index"
    /\ \E hits \in Fullest(index \cap context[q]) :
           \E first \in Fullest(context[q]) :
               context' = [context EXCEPT ![q] = IF hits = {} THEN first ELSE hits]
    /\ Proceed(q, "generate")
    /\ UNCHANGED <<typed, names, statement, result, rankerVars, barred, approved>>

---------------------------------------------------------------------------
(* From the prompt to the rows.                                            *)

\* The model writes what it likes.
Generate(q) ==
    /\ step[q] = "generate"
    /\ \E s \in Statements : statement' = [statement EXCEPT ![q] = s]
    /\ Proceed(q, "validate")
    /\ UNCHANGED <<typed, names, context, result, rankerVars, barred, approved>>

\* Mutant: a LIMIT is appended where there is none, and never lowered.
AppendRowLimit(limit) ==
    IF limit.kind = "none"
    THEN [kind |-> "integer", value |-> DefaultRowLimit] ELSE limit

ApplyRowLimit(limit) ==
    CASE limit.kind = "none" ->
             [kind |-> "integer", value |-> DefaultRowLimit]
      [] limit.kind = "integer" /\ limit.value > MaxRowLimit ->
             [kind |-> "integer", value |-> MaxRowLimit]
      [] OTHER -> limit

\* check_sql lowers the names on both sides.
Known(q, n) == \E m \in Schema(q) : SameTable(m, n)

\* check_sql with the tables the asker may see now; int() raises a TypeError
\* on a LIMIT expression, and the router then reads the attempt before.
Validate(q) ==
    /\ step[q] = "validate_owners"
    /\ LET s == statement[q] IN
       IF Known(q, s.table)
       THEN IF s.limit.kind = "expression"
            THEN /\ \/ Proceed(q, "failed")
                    \/ ~ typed[q] /\ (Proceed(q, "generate") \/ Proceed(q, "review"))
                 /\ UNCHANGED statement
            ELSE /\ Proceed(q, "execute")
                 /\ statement' = [statement EXCEPT ![q].limit = ApplyRowLimit(@)]
       ELSE /\ \/ typed[q] /\ Proceed(q, "refused")
               \/ ~ typed[q] /\ (Proceed(q, "generate") \/ Proceed(q, "review"))
            /\ UNCHANGED statement
    /\ UNCHANGED <<typed, names, context, result, rankerVars, barred, approved>>

\* The reviewer's statement goes to the executor as it is.
Review(q) ==
    /\ step[q] = "review"
    /\ \/ /\ \E s \in Statements : statement' = [statement EXCEPT ![q] = s]
          /\ approved' = [approved EXCEPT ![q] = TRUE]
          /\ Proceed(q, "execute")
       \/ /\ Proceed(q, "refused")
          /\ UNCHANGED <<statement, approved>>
    /\ UNCHANGED <<typed, names, context, result, rankerVars, barred>>

RowsOf(limit) ==
    IF limit.kind = "none" \/ limit.value > TableRows
    THEN TableRows ELSE limit.value

\* _execute_readonly, on the database as it is by now.
Execute(q) ==
    /\ step[q] = "execute"
    /\ IF InDatabase(statement[q].table)
       THEN /\ result' = [result EXCEPT ![q] = RowsOf(statement[q].limit)]
            /\ Proceed(q, "done")
       ELSE /\ Proceed(q, "failed")
            /\ UNCHANGED result
    /\ UNCHANGED <<typed, names, context, statement, rankerVars, barred, approved>>

QueryStep(q) ==
    \/ Ask(q) \/ ReadNames(q) \/ Retrieve(q) \/ Lexical(q) \/ Upsert(q)
    \/ QueryIndex(q) \/ Generate(q) \/ Validate(q) \/ Review(q) \/ Execute(q)

\* The questions under way are lost with the process, and so is the flag.
LoseQuestions ==
    /\ step' = [q \in Questions |->
                   IF step[q] \in {"idle", "review"} \cup Ends THEN step[q] ELSE "lost"]
    /\ rankerDown' = FALSE
    /\ UNCHANGED <<typed, names, context, statement, result, index, barred, approved>>

QueryNext ==
    \/ \E s \in Sessions : /\ Step(s) \/ \E req \in Requests : Call(s, req)
                           /\ UNCHANGED queryVars
    \/ Crash /\ LoseQuestions
    \/ \E q \in Questions : QueryStep(q) /\ UNCHANGED vars

QuerySpec == QueryInit /\ [][QueryNext]_<<vars, queryVars>>

---------------------------------------------------------------------------
(* Properties.                                                             *)

\* A table of the name in another case was created at some time.
Respelled(n) == \E m \in Names : m # n /\ SameTable(m, n) /\ present[m] # {}

\* "A non-superuser never sees, and can never generate valid SQL against,
\* another user's private tables" (graph.py:167-168), for the tables that are
\* recorded as private when the question is asked, and system tables: however
\* tables are created, dropped and recorded while it is answered, no prompt
\* shows them and no statement on them runs that a reviewer has not approved.
\* Names whose row DML has touched, and tables dropped and created again under
\* their name in another case, are excepted.
RecordedTablesStayPrivate ==
    \A q \in Questions : \A n \in barred[q] \ edited :
        /\ n \notin context[q]
        /\ step[q] \in {"execute", "done"} /\ ~ approved[q] =>
               ~ SameTable(n, statement[q].table) \/ Respelled(n)

\* The tables of other users in the one collection take no place from the
\* asker's own (semantic_schema.py:98): a question ranked by it is answered
\* from TopK tables, or from all of its schema if that has fewer.
RankedContextIsFull ==
    [][ \A q \in Questions :
           QueryIndex(q) => context'[q] \in Fullest(context[q]) ]_queryVars

\* A statement that passed the guardrails returns at most MaxRowLimit rows
\* (guardrails.py:92), unless its LIMIT is a literal int() does not read.
RowsAreCapped ==
    \A q \in Questions :
        step[q] = "done" /\ ~ approved[q] =>
            result[q] <= MaxRowLimit \/ statement[q].limit.kind = "literal"
=============================================================================
