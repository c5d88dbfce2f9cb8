-------------------------- MODULE AgentNodesProofs --------------------------
(***************************************************************************)
(* Lemmas about the node functions and routers of AgentNodes, for every    *)
(* set of statements and every cap.  The proofs about QueryGraph and about *)
(* NodeCalls rest on them.                                                 *)
(***************************************************************************)
EXTENDS AgentNodes, SequenceTheorems, TLAPS

\* The empty statement is a statement, so NoSql is an SQL text.
LEMMA NoSqlType == EmptyStmt \in Stmts /\ NoSql \in Sql
  BY StmtsAssumption DEF NoSql, Raw, Sql

\* A fresh thread starts from a well-formed state.
LEMMA InitialStateType == InitialState \in AgentState
  <1>1. <<>> \in Seq(Attempt)
    OBVIOUS
  <1>2. QED
    BY <1>1, NoSqlType DEF InitialState, AgentState, Answers, Statuses, Nodes

\* What await_decision relies on in the row it has read.
IsReviewRow(row) ==
    /\ row.status \in {"pending", "approved", "rejected"}
    /\ row.decision_sql \in Sql

\* Every node function maps AgentState to itself.
LEMMA NodeTypes ==
  ASSUME NEW s \in AgentState
  PROVE  /\ RefuseInput(s) \in AgentState
         /\ AcceptInput(s) \in AgentState
         /\ \A stmt \in Stmts : SqlGenerator(s, stmt) \in AgentState
         /\ SqlValidator(s) \in AgentState
         /\ \A id \in Nat : EnqueueReview(s, id) \in AgentState
         /\ \A row : IsReviewRow(row) => AwaitDecision(s, row) \in AgentState
         /\ SqlExecutor(s) \in AgentState
         /\ \A leak \in BOOLEAN : ResponseFormatter(s, leak) \in AgentState
         /\ Criticise(s) \in AgentState
         /\ \A n \in Nodes : FailPermanently(s, n) \in AgentState
  <1>1. /\ RefuseInput(s) \in AgentState
        /\ AcceptInput(s) \in AgentState
        /\ SqlExecutor(s) \in AgentState
        /\ Criticise(s) \in AgentState
    BY DEF AgentState, RefuseInput, AcceptInput, SqlExecutor, Criticise,
           Answers, Statuses, Nodes
  <1>2. \A stmt \in Stmts : SqlGenerator(s, stmt) \in AgentState
    BY DEF AgentState, SqlGenerator, Raw, Sql
  <1>3. SqlValidator(s) \in AgentState
    <2> DEFINE valid == CheckSql(s.final_sql)
               sql == IF valid THEN ApplyRowLimit(s.final_sql)
                               ELSE s.final_sql
    <2>a. s.final_sql \in Sql
      BY DEF AgentState
    <2>b. ApplyRowLimit(s.final_sql) \in Sql
      BY <2>a DEF ApplyRowLimit, Sql
    <2>c. valid \in BOOLEAN
      BY DEF CheckSql
    <2>1. sql \in Sql /\ valid \in BOOLEAN
      BY <2>a, <2>b, <2>c
    <2>2. [sql |-> sql, valid |-> valid] \in Attempt
      BY <2>1 DEF Attempt
    <2>3. Append(s.sql_attempts, [sql |-> sql, valid |-> valid])
            \in Seq(Attempt)
      BY <2>2 DEF AgentState
    <2>4. QED
      BY <2>1, <2>3 DEF AgentState, SqlValidator
  <1>4. /\ \A id \in Nat : EnqueueReview(s, id) \in AgentState
        /\ \A n \in Nodes : FailPermanently(s, n) \in AgentState
    BY DEF AgentState, EnqueueReview, FailPermanently, Statuses
  <1>5. \A row : IsReviewRow(row) => AwaitDecision(s, row) \in AgentState
    BY DEF AgentState, AwaitDecision, IsReviewRow, Statuses, Answers
  <1>6. \A leak \in BOOLEAN : ResponseFormatter(s, leak) \in AgentState
    BY DEF AgentState, ResponseFormatter, Statuses, Answers, Nodes
  <1>7. QED
    BY <1>1, <1>2, <1>3, <1>4, <1>5, <1>6

\* The edges lead to nodes, to END, or raise.
LEMMA NextNodeType ==
  ASSUME NEW n \in Nodes, NEW s
  PROVE  NextNode(n, s) \in Nodes \cup {"END", "raise"}
  BY DEF NextNode, Nodes, RouteAfterInputGuard, RouteAfterValidation,
         RouteAfterDecision

=============================================================================
