---------------------------- MODULE AgentNodes ----------------------------
(***************************************************************************)
(* The nodes of the LangGraph pipeline as functions on the shared          *)
(* AgentState, and the routing functions that choose the next node.        *)
(*                                                                         *)
(* A statement is a member of Stmts; what the pipeline tells apart is      *)
(* whether sqlglot can process it at all (Parses: check_sql and            *)
(* apply_row_limit return instead of raising) and whether check_sql        *)
(* accepts it (Passes).  EmptyStmt is the "" that state.get("final_sql",   *)
(* "") yields before any SQL was generated.  An SQL text is a statement    *)
(* together with the fact that apply_row_limit has rewritten it.           *)
(***************************************************************************)
EXTENDS Naturals, Sequences

CONSTANTS Stmts, EmptyStmt, Parses, Passes, MaxRegenerationAttempts

ASSUME StmtsAssumption ==
    /\ Parses \subseteq Stmts
    /\ Passes \subseteq Parses
    /\ EmptyStmt \in Parses \ Passes

ASSUME CapAssumption == MaxRegenerationAttempts \in Nat

Sql == [stmt : Stmts, limited : BOOLEAN]

Raw(stmt) == [stmt |-> stmt, limited |-> FALSE]

\* No SQL text yet; as an execution_result, no rows.
NoSql == Raw(EmptyStmt)

Attempt == [sql : Sql, valid : BOOLEAN]

Nodes == {"input_guard", "schema_retriever", "sql_generator",
          "sql_validator", "enqueue_review", "await_decision",
          "sql_executor", "response_formatter", "critic"}

Statuses == {"none", "success", "escalated", "failed", "error", "reviewed"}

Answers == {"none", "refusal", "withheld", "from_rows", "from_nothing"}

(***************************************************************************)
(* The part of AgentState that control depends on.  masked says that       *)
(* user_query_masked was written; execution_result is the SQL whose rows   *)
(* the state holds; review_id and decision are the fields of human_review  *)
(* (0 and "none" while the key is missing); error_detail names the node    *)
(* that wrote it.                                                          *)
(***************************************************************************)
AgentState ==
    [masked : BOOLEAN, sql_attempts : Seq(Attempt), final_sql : Sql,
     execution_result : Sql, final_answer : Answers, status : Statuses,
     review_id : Nat, decision : {"none", "approved", "rejected"},
     error_detail : Nodes \cup {"none"}, critic_feedback : BOOLEAN]

InitialState ==
    [masked |-> FALSE, sql_attempts |-> <<>>, final_sql |-> NoSql,
     execution_result |-> NoSql, final_answer |-> "none", status |-> "none",
     review_id |-> 0, decision |-> "none", error_detail |-> "none",
     critic_feedback |-> FALSE]

LastAttempt(s) == s.sql_attempts[Len(s.sql_attempts)]

---------------------------------------------------------------------------
(* The nodes.                                                              *)

\* input_guard, over the rate limit or blocked by check_input.
RefuseInput(s) ==
    [s EXCEPT !.status = "failed", !.final_answer = "refusal",
              !.error_detail = "input_guard"]

\* input_guard, query accepted: only the masked query goes on.
AcceptInput(s) == [s EXCEPT !.masked = TRUE]

\* sql_generator with the SQL text _parse_response took from the reply.
SqlGenerator(s, stmt) == [s EXCEPT !.final_sql = Raw(stmt)]

CheckSql(sql) == sql.stmt \in Passes

ApplyRowLimit(sql) == [sql EXCEPT !.limited = TRUE]

\* Mutant: the record of the latest attempt replaces the one before.
RecordLatest(s) ==
    LET valid == CheckSql(s.final_sql)
        sql   == IF valid THEN ApplyRowLimit(s.final_sql) ELSE s.final_sql
    IN  [s EXCEPT !.final_sql = sql,
                  !.sql_attempts = <<[sql |-> sql, valid |-> valid]>>]

\* Every outcome is recorded; only SQL that passed is rewritten.
SqlValidator(s) ==
    LET valid == CheckSql(s.final_sql)
        sql   == IF valid THEN ApplyRowLimit(s.final_sql) ELSE s.final_sql
    IN  [s EXCEPT !.final_sql = sql,
                  !.sql_attempts = Append(@, [sql |-> sql, valid |-> valid])]

\* Mutant: the id of the first row instead of the one just inserted.
EnqueueFirstRow(s, id) ==
    [s EXCEPT !.review_id = 1, !.decision = "none", !.status = "escalated"]

EnqueueReview(s, id) ==
    [s EXCEPT !.review_id = id, !.decision = "none", !.status = "escalated"]

\* Mutant: the row's own status goes on the state.
AwaitRowStatus(s, row) ==
    CASE row.status = "pending"  -> [s EXCEPT !.status = "escalated"]
      [] row.status = "approved" -> [s EXCEPT !.final_sql = row.decision_sql,
                                              !.decision = "approved",
                                              !.status = "approved"]
      [] row.status = "rejected" -> [s EXCEPT !.decision = "rejected",
                                              !.status = "failed",
                                              !.final_answer = "refusal"]

\* await_decision with the queue row as it is now.
AwaitDecision(s, row) ==
    CASE row.status = "pending"  -> [s EXCEPT !.status = "escalated"]
      [] row.status = "approved" -> [s EXCEPT !.final_sql = row.decision_sql,
                                              !.decision = "approved",
                                              !.status = "reviewed"]
      [] row.status = "rejected" -> [s EXCEPT !.decision = "rejected",
                                              !.status = "failed",
                                              !.final_answer = "refusal"]

SqlExecutor(s) == [s EXCEPT !.execution_result = s.final_sql]

\* response_formatter; leak is what check_output found in the LLM's answer.
ResponseFormatter(s, leak) ==
    IF leak
    THEN [s EXCEPT !.status = "failed", !.final_answer = "withheld",
                   !.error_detail = "response_formatter"]
    ELSE [s EXCEPT !.status = IF @ = "none" THEN "success" ELSE @,
                   !.final_answer = IF s.execution_result = NoSql
                                    THEN "from_nothing" ELSE "from_rows"]

\* critic on a verdict that does not pass.
Criticise(s) == [s EXCEPT !.critic_feedback = TRUE]

\* Mutant: the error is recorded, the status is not.
FailQuietly(s, node) == [s EXCEPT !.error_detail = node]

(***************************************************************************)
(* resilient_node after the three attempts and the try on the fallback     *)
(* provider: the node's name goes on the state and the state is returned,  *)
(* so the graph takes the node's ordinary edge.                            *)
(***************************************************************************)
FailPermanently(s, node) ==
    [s EXCEPT !.status = "error", !.error_detail = node]

---------------------------------------------------------------------------
(* The edges.  "raise" is an exception out of a routing function.          *)

RouteAfterInputGuard(s) ==
    IF s.status = "failed" THEN "END" ELSE "schema_retriever"

\* Mutant: off by one at the cap.
RouteOnePastCap(s) ==
    IF s.sql_attempts = <<>> THEN "raise"
    ELSE IF LastAttempt(s).valid THEN "sql_executor"
    ELSE IF Len(s.sql_attempts) <= MaxRegenerationAttempts + 1
         THEN "sql_generator"
         ELSE "enqueue_review"

\* Mutant: the error a node has recorded is raised again.
RouteRaisingErrors(s) ==
    IF s.sql_attempts = <<>> \/ s.status = "error" THEN "raise"
    ELSE IF LastAttempt(s).valid THEN "sql_executor"
    ELSE IF Len(s.sql_attempts) <= MaxRegenerationAttempts
         THEN "sql_generator"
         ELSE "enqueue_review"

RouteAfterValidation(s) ==
    IF s.sql_attempts = <<>> THEN "raise"
    ELSE IF LastAttempt(s).valid THEN "sql_executor"
    ELSE IF Len(s.sql_attempts) <= MaxRegenerationAttempts
         THEN "sql_generator"
         ELSE "enqueue_review"

\* Mutants: only a rejection ends the run; only a pending review ends it; a
\* pending review is queued again.
RouteUnlessRejected(s) ==
    IF s.status = "failed" THEN "END" ELSE "sql_executor"

RouteUnlessPending(s) ==
    IF s.status = "escalated" THEN "END" ELSE "sql_executor"

RouteBackToQueue(s) ==
    IF s.status = "reviewed" THEN "sql_executor"
    ELSE IF s.status = "escalated" THEN "enqueue_review" ELSE "END"

RouteAfterDecision(s) ==
    IF s.status = "reviewed" THEN "sql_executor" ELSE "END"

NextNode(node, s) ==
    CASE node = "input_guard"        -> RouteAfterInputGuard(s)
      [] node = "schema_retriever"   -> "sql_generator"
      [] node = "sql_generator"      -> "sql_validator"
      [] node = "sql_validator"      -> RouteAfterValidation(s)
      [] node = "enqueue_review"     -> "await_decision"
      [] node = "await_decision"     -> RouteAfterDecision(s)
      [] node = "sql_executor"       -> "response_formatter"
      [] node = "response_formatter" -> "critic"
      [] node = "critic"             -> "END"
===========================================================================
