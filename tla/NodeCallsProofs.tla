-------------------------- MODULE NodeCallsProofs --------------------------
(***************************************************************************)
(* Proofs about NodeCalls, for every set of statements, providers and      *)
(* review rows, with the critic on or off, and for any number of failures. *)
(***************************************************************************)
EXTENDS NodeCalls, AgentNodesProofs

\* The rows await_decision may find, and what an attempt may hold of them.
Row == [status : {"pending", "approved", "rejected"}, decision_sql : Sql]

Local == [stmt : Stmts, row : Row, flag : BOOLEAN]

(***************************************************************************)
(* The inductive invariant.  A call changes its dict only once nothing of  *)
(* the attempt can raise any more: while done is at most FirstWrite, the   *)
(* dict still is the checkpointed state, so an attempt that raises leaves  *)
(* nothing behind but, for enqueue_review, what the next one repeats.      *)
(***************************************************************************)
FirstWrite(n) ==
    IF n \in {"input_guard", "response_formatter"} THEN 3
    ELSE IF n = "sql_validator" THEN 2 ELSE 1

\* The dict of the call in progress, after done operations of the attempt.
DraftOK(t) ==
    \/ done <= FirstWrite(node) /\ t = state
    \/ node = "input_guard" /\ done = 4
       /\ t \in {RefuseInput(state), AcceptInput(state)}
    \/ node = "sql_generator" /\ t = SqlGenerator(state, local.stmt)
       /\ done = 2
    \/ node = "sql_validator" /\ done = 3
       /\ t = IF CheckSql(state.final_sql)
              THEN [state EXCEPT !.final_sql = ApplyRowLimit(@)] ELSE state
    \/ node = "sql_validator" /\ t = SqlValidator(state) /\ done = 4
    \/ node = "enqueue_review" /\ t = EnqueueReview(state, rows) /\ done = 2
    \/ node = "await_decision" /\ t = AwaitDecision(state, local.row)
       /\ done = 2
    \/ node = "sql_executor" /\ t = SqlExecutor(state) /\ done = 2
    \/ node = "response_formatter" /\ t = ResponseFormatter(state, local.flag)
       /\ done = 4
    \/ node = "critic" /\ t = (IF local.flag THEN Criticise(state) ELSE state)
       /\ done = 2

CallOK ==
    /\ local \in Local
    /\ attempt = 0 => /\ done = 0
                      /\ draft = [agent |-> state, provider |-> provider]
    /\ attempt > 0 => node \in Nodes /\ DraftOK(draft.agent)

\* A row that the run does not carry yet is one the attempt just inserted.
RowsOK ==
    \/ rows = state.review_id
    \/ attempt > 0 /\ done > 0 /\ node = "enqueue_review"

Allowed == {Chosen} \cup (IF recovered THEN {Fallback} ELSE {})

ProvidersOK ==
    /\ provider \in Allowed
    /\ draft.provider \in Allowed
    /\ asked \subseteq Allowed

SpansOK ==
    /\ attempt > 0 => spans = attempt - 1
    /\ state.status = "error" => givenUp

Inv == TypeOK /\ CallOK /\ RowsOK /\ ProvidersOK /\ SpansOK

---------------------------------------------------------------------------
(* The bodies of the nodes.                                                *)

\* Which operation each node is at.
LEMMA OperationAt ==
  ASSUME NEW n \in Nodes, NEW a, NEW k \in Nat, k < Len(Body(n, a))
  PROVE  LET op == Body(n, a)[k + 1] IN
         /\ n = "input_guard" =>
              \/ k = 0 /\ op = "check_rate_limit"
              \/ k = 1 /\ op = "check_input"
              \/ k = 2 /\ op = "mask_query"
              \/ k = 3 /\ op = "write_masked"
         /\ n = "schema_retriever" => k = 0 /\ op = "read_schema"
         /\ n = "sql_generator" =>
              (k = 0 /\ op = "model") \/ (k = 1 /\ op = "write_sql")
         /\ n = "sql_validator" =>
              \/ k = 0 /\ op = "read_schema"
              \/ k = 1 /\ op = "check_sql"
              \/ k = 2 /\ op = "apply_row_limit"
              \/ k = 3 /\ op = "append_attempt"
         /\ n = "enqueue_review" =>
              (k = 0 /\ op = "enqueue") \/ (k = 1 /\ op = "write_review")
         /\ n = "await_decision" =>
              (k = 0 /\ op = "get") \/ (k = 1 /\ op = "write_decision")
         /\ n = "sql_executor" =>
              (k = 0 /\ op = "execute") \/ (k = 1 /\ op = "write_rows")
         /\ n = "response_formatter" =>
              \/ k = 0 /\ op = "mask_rows"
              \/ k = 1 /\ op = "model"
              \/ k = 2 /\ op = "check_output"
              \/ k = 3 /\ op = "write_answer"
         /\ n = "critic" =>
              (k = 0 /\ op = "model") \/ (k = 1 /\ op = "write_feedback")
  <1>1. CASE n = "input_guard"
    BY <1>1 DEF Body
  <1>2. CASE n = "schema_retriever"
    BY <1>2 DEF Body
  <1>3. CASE n = "sql_generator"
    <2>1. Body(n, a) = <<"model", "write_sql">>
      BY <1>3 DEF Body
    <2>2. k \in {0, 1}
      BY <2>1
    <2>3. QED
      BY <1>3, <2>1, <2>2
  <1>4. CASE n = "sql_validator"
    BY <1>4 DEF Body, ValidatorBody
  <1>5. CASE n = "enqueue_review"
    <2>1. Body(n, a) = <<"enqueue", "write_review">>
      BY <1>5 DEF Body, EnqueueBody
    <2>2. k \in {0, 1}
      BY <2>1
    <2>3. QED
      BY <1>5, <2>1, <2>2
  <1>6. CASE n = "await_decision"
    <2>1. Body(n, a) = <<"get", "write_decision">>
      BY <1>6 DEF Body
    <2>2. k \in {0, 1}
      BY <2>1
    <2>3. QED
      BY <1>6, <2>1, <2>2
  <1>7. CASE n = "sql_executor"
    <2>1. Body(n, a) = <<"execute", "write_rows">>
      BY <1>7 DEF Body
    <2>2. k \in {0, 1}
      BY <2>1
    <2>3. QED
      BY <1>7, <2>1, <2>2
  <1>8. CASE n = "response_formatter"
    BY <1>8 DEF Body
  <1>9. CASE n = "critic"
    <2>1. Body(n, a) = <<"model", "write_feedback">>
      BY <1>9 DEF Body
    <2>2. k \in {0, 1}
      BY <2>1
    <2>3. QED
      BY <1>9, <2>1, <2>2
  <1>10. QED
    BY <1>1, <1>2, <1>3, <1>4, <1>5, <1>6, <1>7, <1>8, <1>9 DEF Nodes

\* How many operations each node has.
LEMMA BodyLength ==
  ASSUME NEW n \in Nodes, NEW a
  PROVE  /\ n \in {"input_guard", "sql_validator", "response_formatter"} =>
              Len(Body(n, a)) = 4
         /\ n = "schema_retriever" => Len(Body(n, a)) = 1
         /\ n \in {"sql_generator", "enqueue_review", "await_decision",
                   "sql_executor"} => Len(Body(n, a)) = 2
         /\ n = "critic" => Len(Body(n, a)) \in {0, 2}
  BY DEF Body, ValidatorBody, EnqueueBody, Nodes

---------------------------------------------------------------------------
(* Types.                                                                  *)

LEMMA InitInv == Init => Inv
  <1> SUFFICES ASSUME Init PROVE Inv
    OBVIOUS
  <1>1. Pending \in Row /\ NoLocal \in Local
    BY NoSqlType DEF Pending, NoLocal, Row, Local
  <1>2. provider \in Providers \cup {NoProvider} /\ draft \in Draft
    BY InitialStateType, ProviderAssumption DEF Init, Draft
  <1>3. node \in Nodes \cup {"END"}
    BY DEF Init, Nodes
  <1>4. attempt \in 0 .. Recovery /\ done \in Nat /\ rows \in Nat
        /\ spans \in 0 .. MaxSpans /\ failures \in Nat
    BY DEF Init, MaxSpans, Recovery, MaxAttempts
  <1>5. TypeOK
    BY <1>2, <1>3, <1>4, InitialStateType DEF Init, TypeOK
  <1>6. QED
    BY <1>1, <1>5 DEF Init, Inv, CallOK, RowsOK, ProvidersOK, Allowed,
                      SpansOK, InitialState

\* What the operations return, and what they write, is well-formed.
LEMMA ReturnedType ==
  ASSUME local \in Local, NEW op, NEW l \in Returned(op)
  PROVE  l \in Local
  <1>1. CASE op = "model" /\ node = "sql_generator"
    BY <1>1 DEF Returned, Local
  <1>2. CASE op = "model" /\ node = "critic"
    BY <1>2 DEF Returned, Local
  <1>3. CASE op = "get"
    <2>1. Decisions \subseteq Row
      BY DecisionsAssumption DEF Row
    <2>2. PICK row \in Decisions : l = [local EXCEPT !.row = row]
      BY <1>3 DEF Returned
    <2>3. QED
      BY <2>1, <2>2 DEF Local
  <1>4. CASE op = "check_output"
    BY <1>4 DEF Returned, Local
  <1>5. CASE /\ ~ (op = "model" /\ node \in {"sql_generator", "critic"})
             /\ op \notin {"get", "check_output"}
    BY <1>5 DEF Returned
  <1>6. QED
    BY <1>1, <1>2, <1>3, <1>4, <1>5

LEMMA WriteType ==
  ASSUME local \in Local, rows \in Nat, NEW a \in AgentState, NEW op
  PROVE  Write(op, a) \in AgentState
  <1>1. /\ AcceptInput(a) \in AgentState
        /\ SqlGenerator(a, local.stmt) \in AgentState
        /\ EnqueueReview(a, rows) \in AgentState
        /\ SqlExecutor(a) \in AgentState
        /\ ResponseFormatter(a, local.flag) \in AgentState
        /\ Criticise(a) \in AgentState
    BY NodeTypes DEF Local
  <1>2. AwaitDecision(a, local.row) \in AgentState
    BY NodeTypes DEF Local, Row, IsReviewRow
  <1>a. a.final_sql \in Sql /\ a.sql_attempts \in Seq(Attempt)
    BY DEF AgentState
  <1>b. ApplyRowLimit(a.final_sql) \in Sql
    BY <1>a DEF ApplyRowLimit, Sql
  <1>c. CheckSql(a.final_sql) \in BOOLEAN
    BY DEF CheckSql
  <1>3. a.final_sql \in Sql /\ ApplyRowLimit(a.final_sql) \in Sql
        /\ CheckSql(a.final_sql) \in BOOLEAN
    BY <1>a, <1>b, <1>c
  <1>4. [a EXCEPT !.final_sql = ApplyRowLimit(@)] \in AgentState
    BY <1>3 DEF AgentState
  <1>5. [a EXCEPT !.sql_attempts =
            Append(@, [sql |-> a.final_sql, valid |-> CheckSql(a.final_sql)])]
          \in AgentState
    <2>1. [sql |-> a.final_sql, valid |-> CheckSql(a.final_sql)] \in Attempt
      BY <1>3 DEF Attempt
    <2>2. Append(a.sql_attempts,
                 [sql |-> a.final_sql, valid |-> CheckSql(a.final_sql)])
            \in Seq(Attempt)
      BY <1>a, <2>1
    <2>3. QED
      BY <2>2 DEF AgentState
  <1>6. QED
    BY <1>1, <1>2, <1>4, <1>5 DEF Write

\* How a call may end: its result becomes the checkpoint, or is dropped.
LEMMA EndCallCases ==
  ASSUME NEW t, EndCall(t)
  PROVE  /\ attempt' = 0 /\ done' = 0 /\ local' = NoLocal
         /\ draft' = [agent |-> state', provider |-> provider']
         /\ \/ UNCHANGED <<state, provider, node>>
            \/ /\ state' = t /\ provider' = draft.provider
               /\ node' = NextNode(node, t) /\ node' # "raise"
  BY DEF EndCall, checkpointVars

\* Only the router after sql_validator raises.
LEMMA EndCallRaises ==
  ASSUME NEW t, EndCall(t), node \in Nodes, node # "sql_validator"
  PROVE  state' = t /\ node' = NextNode(node, t)
  BY DEF EndCall, NextNode, RouteAfterInputGuard, RouteAfterDecision, Nodes

LEMMA EndCallKeeps ==
  ASSUME NEW t, EndCall(t)
  PROVE  CallOK'
  <1>1. NoLocal \in Local
    BY NoSqlType DEF Pending, NoLocal, Row, Local
  <1>2. QED
    BY <1>1, EndCallCases DEF CallOK

LEMMA EndCallType ==
  ASSUME TypeOK, node \in Nodes, NEW t \in AgentState, EndCall(t)
  PROVE  /\ state' \in AgentState
         /\ provider' \in Providers \cup {NoProvider}
         /\ node' \in Nodes \cup {"END"}
         /\ attempt' \in 0 .. Recovery /\ done' \in Nat
         /\ draft' \in Draft
         /\ local' \in Local
  <1>1. NextNode(node, t) \in Nodes \cup {"END", "raise"}
    BY NextNodeType
  <1>2. Pending \in Row /\ NoLocal \in Local
    BY NoSqlType DEF Pending, NoLocal, Row, Local
  <1>3. draft.provider \in Providers \cup {NoProvider}
    BY DEF TypeOK, Draft
  <1>4. state' \in AgentState /\ provider' \in Providers \cup {NoProvider}
        /\ node' \in Nodes \cup {"END"}
    BY <1>1, <1>3, EndCallCases DEF TypeOK
  <1>5. QED
    BY <1>2, <1>4, EndCallCases DEF Draft, Recovery, MaxAttempts

\* sql_validator's two writes amount to the node function.
LEMMA LimitThenAppend ==
  ASSUME NEW s \in AgentState, NEW t,
         t = IF CheckSql(s.final_sql)
             THEN [s EXCEPT !.final_sql = ApplyRowLimit(@)] ELSE s
  PROVE  [t EXCEPT !.sql_attempts =
             Append(@, [sql |-> t.final_sql, valid |-> CheckSql(t.final_sql)])]
           = SqlValidator(s)
  <1>1. s.final_sql \in Sql
    BY DEF AgentState
  <1>2. ApplyRowLimit(s.final_sql).stmt = s.final_sql.stmt
    BY <1>1 DEF ApplyRowLimit, Sql
  <1>3. CASE CheckSql(s.final_sql)
    <2>1. /\ t.final_sql = ApplyRowLimit(s.final_sql)
          /\ t.sql_attempts = s.sql_attempts
      BY <1>3 DEF AgentState
    <2>2. CheckSql(t.final_sql)
      BY <1>2, <1>3, <2>1 DEF CheckSql
    <2>3. QED
      BY <1>3, <2>1, <2>2 DEF SqlValidator, AgentState
  <1>4. CASE ~ CheckSql(s.final_sql)
    BY <1>4 DEF SqlValidator, AgentState
  <1>5. QED
    BY <1>3, <1>4

---------------------------------------------------------------------------
(* The call in progress.                                                   *)

\* The next operation, with where in the node's body it stands.
LEMMA CurrentIsAt ==
  ASSUME TypeOK, CallOK, InOperation
  PROVE  /\ node \in Nodes /\ done < Len(Body(node, draft.agent))
         /\ CurrentOperation = Body(node, draft.agent)[done + 1]
         /\ DraftOK(draft.agent)
  BY DEF TypeOK, CallOK, InOperation, CurrentOperation, Operations

\* An operation that may raise finds the dict as the checkpoint has it.
LEMMA RaiseLeavesState ==
  ASSUME TypeOK, CallOK, InOperation, CurrentOperation \in Calls
  PROVE  /\ draft.agent = state
         /\ node = "enqueue_review" => done = 0
  <1>1. done \in Nat
    BY DEF TypeOK
  <1>2. done <= FirstWrite(node)
    BY <1>1, CurrentIsAt, OperationAt DEF Calls, FirstWrite, Nodes
  <1>3. node = "enqueue_review" => done = 0
    BY <1>1, CurrentIsAt, OperationAt DEF Calls
  <1>4. QED
    BY <1>1, <1>2, <1>3, CurrentIsAt DEF DraftOK, FirstWrite

\* The dict after an operation that writes nothing.
LEMMA QuietOperation ==
  ASSUME TypeOK, CallOK, Operate,
         CurrentOperation \notin {"write_masked", "write_sql",
           "append_attempt", "write_review", "write_decision",
           "write_rows", "write_answer", "write_feedback",
           "apply_row_limit"}
  PROVE  draft'.agent = draft.agent
  BY DEF Operate, Write, TypeOK, Draft

LEMMA OperateKeepsDraft ==
  ASSUME TypeOK, CallOK, Operate
  PROVE  DraftOK(draft.agent)'
  <1>0. /\ state' = state /\ node' = node /\ done' = done + 1
        /\ done \in Nat /\ InOperation
        /\ rows' = IF CurrentOperation = "enqueue" THEN rows + 1 ELSE rows
    BY DEF Operate, checkpointVars, TypeOK
  <1>a. /\ draft'.agent = Write(CurrentOperation, draft.agent)
        /\ local' \in Returned(CurrentOperation)
    BY DEF Operate, TypeOK, Draft
  <1>b. /\ node \in Nodes /\ done < Len(Body(node, draft.agent))
        /\ CurrentOperation = Body(node, draft.agent)[done + 1]
        /\ DraftOK(draft.agent)
    BY <1>0, CurrentIsAt
  <1>1. CASE node = "input_guard"
    <2>1. /\ done <= 3 /\ draft.agent = state
          /\ done < 3 => draft'.agent = draft.agent
          /\ done = 3 => draft'.agent = AcceptInput(draft.agent)
      BY <1>0, <1>a, <1>b, <1>1, OperationAt, QuietOperation
         DEF DraftOK, FirstWrite, Write
    <2>2. QED
      BY <1>0, <1>1, <2>1 DEF DraftOK, FirstWrite
  <1>2. CASE node = "schema_retriever"
    <2>1. done = 0 /\ draft'.agent = draft.agent
      BY <1>0, <1>a, <1>b, <1>2, OperationAt, QuietOperation
    <2>2. QED
      BY <1>0, <1>b, <1>2, <2>1 DEF DraftOK, FirstWrite
  <1>3. CASE node = "sql_generator"
    <2>1. \/ done = 0 /\ draft'.agent = draft.agent
          \/ /\ done = 1 /\ local' = local
             /\ draft'.agent = SqlGenerator(draft.agent, local.stmt)
      BY <1>0, <1>a, <1>b, <1>3, OperationAt, QuietOperation
         DEF Write, Returned
    <2>2. draft.agent = state
      BY <1>0, <1>b, <1>3, <2>1 DEF DraftOK, FirstWrite
    <2>3. QED
      BY <1>0, <1>3, <2>1, <2>2 DEF DraftOK, FirstWrite
  <1>4. CASE node = "sql_validator"
    <2>1. \/ done < 2 /\ draft'.agent = draft.agent
          \/ /\ done = 2
             /\ draft'.agent = Write("apply_row_limit", draft.agent)
          \/ /\ done = 3
             /\ draft'.agent = Write("append_attempt", draft.agent)
      BY <1>0, <1>a, <1>b, <1>4, OperationAt, QuietOperation
    <2>2. CASE done < 2
      BY <1>0, <1>b, <1>4, <2>1, <2>2 DEF DraftOK, FirstWrite
    <2>3. CASE done = 2
      <3>1. draft.agent = state
        BY <1>b, <1>4, <2>3 DEF DraftOK, FirstWrite
      <3>2. draft'.agent = IF CheckSql(state.final_sql)
              THEN [state EXCEPT !.final_sql = ApplyRowLimit(@)] ELSE state
        BY <2>1, <2>3, <3>1 DEF Write
      <3>3. QED
        BY <1>0, <1>4, <2>3, <3>2 DEF DraftOK
    <2>4. CASE done = 3
      <3>1. draft.agent = IF CheckSql(state.final_sql)
              THEN [state EXCEPT !.final_sql = ApplyRowLimit(@)] ELSE state
        BY <1>b, <1>4, <2>4 DEF DraftOK, FirstWrite
      <3>2. draft'.agent = [draft.agent EXCEPT !.sql_attempts =
              Append(@, [sql |-> draft.agent.final_sql,
                         valid |-> CheckSql(draft.agent.final_sql)])]
        BY <2>1, <2>4 DEF Write
      <3>3. draft'.agent = SqlValidator(state)
        BY <3>1, <3>2, LimitThenAppend DEF TypeOK
      <3>4. QED
        BY <1>0, <1>4, <2>4, <3>3 DEF DraftOK
    <2>5. QED
      BY <2>1, <2>2, <2>3, <2>4
  <1>5. CASE node = "enqueue_review"
    <2>1. \/ done = 0 /\ draft'.agent = draft.agent
          \/ /\ done = 1 /\ rows' = rows
             /\ draft'.agent = EnqueueReview(draft.agent, rows)
      BY <1>0, <1>a, <1>b, <1>5, OperationAt, QuietOperation DEF Write
    <2>2. draft.agent = state
      BY <1>0, <1>b, <1>5, <2>1 DEF DraftOK, FirstWrite
    <2>3. QED
      BY <1>0, <1>5, <2>1, <2>2 DEF DraftOK, FirstWrite
  <1>6. CASE node = "await_decision"
    <2>1. \/ done = 0 /\ draft'.agent = draft.agent
          \/ /\ done = 1 /\ local' = local
             /\ draft'.agent = AwaitDecision(draft.agent, local.row)
      BY <1>0, <1>a, <1>b, <1>6, OperationAt, QuietOperation
         DEF Write, Returned
    <2>2. draft.agent = state
      BY <1>0, <1>b, <1>6, <2>1 DEF DraftOK, FirstWrite
    <2>3. QED
      BY <1>0, <1>6, <2>1, <2>2 DEF DraftOK, FirstWrite
  <1>7. CASE node = "sql_executor"
    <2>1. \/ done = 0 /\ draft'.agent = draft.agent
          \/ done = 1 /\ draft'.agent = SqlExecutor(draft.agent)
      BY <1>0, <1>a, <1>b, <1>7, OperationAt, QuietOperation DEF Write
    <2>2. draft.agent = state
      BY <1>0, <1>b, <1>7, <2>1 DEF DraftOK, FirstWrite
    <2>3. QED
      BY <1>0, <1>7, <2>1, <2>2 DEF DraftOK, FirstWrite
  <1>8. CASE node = "response_formatter"
    <2>1. \/ done < 3 /\ draft'.agent = draft.agent
          \/ /\ done = 3 /\ local' = local
             /\ draft'.agent = ResponseFormatter(draft.agent, local.flag)
      BY <1>0, <1>a, <1>b, <1>8, OperationAt, QuietOperation
         DEF Write, Returned
    <2>2. draft.agent = state
      BY <1>0, <1>b, <1>8, <2>1 DEF DraftOK, FirstWrite
    <2>3. QED
      BY <1>0, <1>8, <2>1, <2>2 DEF DraftOK, FirstWrite
  <1>9. CASE node = "critic"
    <2>1. \/ done = 0 /\ draft'.agent = draft.agent
          \/ /\ done = 1 /\ local' = local
             /\ draft'.agent = IF local.flag THEN Criticise(draft.agent)
                                             ELSE draft.agent
      BY <1>0, <1>a, <1>b, <1>9, OperationAt, QuietOperation
         DEF Write, Returned
    <2>2. draft.agent = state
      BY <1>0, <1>b, <1>9, <2>1 DEF DraftOK, FirstWrite
    <2>3. QED
      BY <1>0, <1>9, <2>1, <2>2 DEF DraftOK, FirstWrite
  <1>10. QED
    BY <1>b, <1>1, <1>2, <1>3, <1>4, <1>5, <1>6, <1>7, <1>8, <1>9 DEF Nodes

\* Only input_guard refuses, and then its call is over.
LEMMA RefuseCases ==
  ASSUME TypeOK, CallOK, RefuseQuestion
  PROVE  node = "input_guard" /\ done' = 4 /\ draft.agent = state
  <1>1. /\ node \in Nodes /\ done \in Nat
        /\ done < Len(Body(node, draft.agent))
        /\ Body(node, draft.agent)[done + 1]
             \in {"check_rate_limit", "check_input"}
    BY CurrentIsAt DEF RefuseQuestion, TypeOK
  <1>2. node = "input_guard"
    BY <1>1, OperationAt DEF Nodes
  <1>3. done' = 4
    BY <1>1, <1>2, BodyLength DEF RefuseQuestion, Operations
  <1>4. draft.agent = state
    BY RaiseLeavesState DEF RefuseQuestion, Calls
  <1>5. QED
    BY <1>2, <1>3, <1>4

\* The dict a call returns is one whole result of the node.
LEMMA ReturnsOutcome ==
  ASSUME TypeOK, CallOK, attempt > 0, done = Len(Operations)
  PROVE  LET t == draft.agent IN
         \/ node = "input_guard" /\ t \in {RefuseInput(state), AcceptInput(state)}
         \/ node = "schema_retriever" /\ t = state
         \/ node = "sql_generator" /\ t = SqlGenerator(state, local.stmt)
         \/ node = "sql_validator" /\ t = SqlValidator(state)
         \/ node = "enqueue_review" /\ t = EnqueueReview(state, rows)
         \/ node = "await_decision" /\ t = AwaitDecision(state, local.row)
         \/ node = "sql_executor" /\ t = SqlExecutor(state)
         \/ node = "response_formatter"
            /\ t = ResponseFormatter(state, local.flag)
         \/ node = "critic" /\ t \in {state, Criticise(state)}
  <1>1. node \in Nodes /\ DraftOK(draft.agent)
        /\ done = Len(Body(node, draft.agent))
    BY DEF CallOK, Operations
  <1>2. CASE node \in {"input_guard", "sql_validator", "response_formatter"}
    <2>1. done = 4
      BY <1>1, <1>2, BodyLength
    <2>2. QED
      BY <1>1, <1>2, <2>1 DEF DraftOK, FirstWrite
  <1>3. CASE node = "schema_retriever"
    BY <1>1, <1>3 DEF DraftOK
  <1>4. CASE node \in {"sql_generator", "enqueue_review", "await_decision",
                       "sql_executor"}
    <2>1. done = 2
      BY <1>1, <1>4, BodyLength
    <2>2. QED
      BY <1>1, <1>4, <2>1 DEF DraftOK, FirstWrite
  <1>5. CASE node = "critic"
    BY <1>1, <1>5 DEF DraftOK
  <1>6. QED
    BY <1>1, <1>2, <1>3, <1>4, <1>5 DEF Nodes

\* Only enqueue_review changes the row the run carries, and no node puts
\* the status "error" on a state that lacks it.
LEMMA ReturnKeeps ==
  ASSUME TypeOK, CallOK, attempt > 0, done = Len(Operations)
  PROVE  /\ draft.agent.review_id = IF node = "enqueue_review" THEN rows
                                    ELSE state.review_id
         /\ draft.agent.status = "error" => state.status = "error"
  <1> DEFINE t == draft.agent
  <1>0. state \in AgentState /\ local.row.status \in
          {"pending", "approved", "rejected"}
    BY DEF TypeOK, CallOK, Local, Row
  <1>1. CASE node = "input_guard"
    BY <1>0, <1>1, ReturnsOutcome DEF RefuseInput, AcceptInput, AgentState
  <1>2. CASE node = "schema_retriever"
    BY <1>2, ReturnsOutcome
  <1>3. CASE node = "sql_generator"
    BY <1>0, <1>3, ReturnsOutcome DEF SqlGenerator, AgentState
  <1>4. CASE node = "sql_validator"
    BY <1>0, <1>4, ReturnsOutcome DEF SqlValidator, AgentState
  <1>5. CASE node = "enqueue_review"
    BY <1>0, <1>5, ReturnsOutcome DEF EnqueueReview, AgentState
  <1>6. CASE node = "await_decision"
    <2>1. t = AwaitDecision(state, local.row)
      BY <1>6, ReturnsOutcome
    <2>2. CASE local.row.status = "pending"
      BY <1>0, <1>6, <2>1, <2>2 DEF AwaitDecision, AgentState
    <2>3. CASE local.row.status = "approved"
      BY <1>0, <1>6, <2>1, <2>3 DEF AwaitDecision, AgentState
    <2>4. CASE local.row.status = "rejected"
      BY <1>0, <1>6, <2>1, <2>4 DEF AwaitDecision, AgentState
    <2>5. QED
      BY <1>0, <2>2, <2>3, <2>4
  <1>7. CASE node = "sql_executor"
    BY <1>0, <1>7, ReturnsOutcome DEF SqlExecutor, AgentState
  <1>8. CASE node = "response_formatter"
    BY <1>0, <1>8, ReturnsOutcome DEF ResponseFormatter, AgentState
  <1>9. CASE node = "critic"
    BY <1>0, <1>9, ReturnsOutcome DEF Criticise, AgentState
  <1>10. QED
    BY <1>1, <1>2, <1>3, <1>4, <1>5, <1>6, <1>7, <1>8, <1>9
       DEF CallOK, Nodes

---------------------------------------------------------------------------
(* The invariant.                                                          *)

\* How a raise inside an operation goes on.
LEMMA RaiseCases ==
  ASSUME Inv, RaiseInOperation
  PROVE  /\ draft.agent = state /\ node \in Nodes /\ attempt > 0
         /\ node = "enqueue_review" => done = 0
         /\ rows' = rows /\ spans' = attempt
         /\ asked' \subseteq asked \cup {draft.provider}
         /\ Retry \/ (GiveUp /\ EndCall(FailPermanently(state, node)))
  <1>1. InOperation /\ CurrentOperation \in Calls /\ TypeOK /\ CallOK
    BY DEF RaiseInOperation, Inv
  <1>2. /\ draft.agent = state /\ node \in Nodes /\ attempt > 0
        /\ node = "enqueue_review" => done = 0
    BY <1>1, RaiseLeavesState, CurrentIsAt DEF InOperation
  <1>3. spans' = attempt
    <2>1. spans = attempt - 1 /\ attempt \in 0 .. Recovery
      BY <1>2 DEF Inv, SpansOK, TypeOK
    <2>2. QED
      BY <2>1 DEF RaiseInOperation, LogAttempt, MaxSpans, Recovery,
                  MaxAttempts
  <1>4. asked' \subseteq asked \cup {draft.provider} /\ rows' = rows
    BY DEF RaiseInOperation
  <1>5. Retry \/ (GiveUp /\ EndCall(FailPermanently(state, node)))
    BY <1>2 DEF RaiseInOperation, GiveUp
  <1>6. QED
    BY <1>2, <1>3, <1>4, <1>5

LEMMA TypeStep == Inv /\ [Next]_vars => TypeOK'
  <1> SUFFICES ASSUME Inv, [Next]_vars PROVE TypeOK'
    OBVIOUS
  <1>0. /\ TypeOK /\ CallOK /\ local \in Local
        /\ attempt > 0 => node \in Nodes /\ spans = attempt - 1
    BY DEF Inv, CallOK, SpansOK
  <1>1. CASE BeginCall
    <2>1. attempt' \in 0 .. Recovery /\ spans' \in 0 .. MaxSpans
      BY <1>1 DEF BeginCall, Recovery, MaxSpans, MaxAttempts
    <2>2. QED
      BY <1>0, <1>1, <2>1 DEF BeginCall, TypeOK, checkpointVars, historyVars
  <1>2. CASE Operate
    <2>1. draft' = [draft EXCEPT !.agent = Write(CurrentOperation, @)]
      BY <1>2 DEF Operate
    <2>2. draft' \in Draft /\ draft.provider \in Providers \cup {NoProvider}
      BY <1>0, <2>1, WriteType DEF TypeOK, Draft
    <2>3. rows' \in Nat /\ done' \in Nat
      BY <1>0, <1>2 DEF Operate, TypeOK
    <2>4. asked' \subseteq Providers \cup {NoProvider}
      BY <1>0, <1>2, <2>2 DEF Operate, TypeOK
    <2>5. UNCHANGED <<state, provider, node, attempt, spans, failures,
                      recovered, givenUp>>
      BY <1>2 DEF Operate, checkpointVars
    <2>6. QED
      BY <1>0, <2>2, <2>3, <2>4, <2>5 DEF TypeOK
  <1>3. CASE RefuseQuestion
    <2>1. draft' = [draft EXCEPT !.agent = RefuseInput(@)]
          /\ draft'.agent = RefuseInput(draft.agent)
      BY <1>0, <1>3 DEF RefuseQuestion, TypeOK, Draft
    <2>2. draft' \in Draft
      BY <1>0, <2>1, NodeTypes DEF TypeOK, Draft
    <2>3. node = "input_guard" /\ done' = 4
      BY <1>0, <1>3, RefuseCases
    <2>4. QED
      BY <1>0, <1>3, <2>2, <2>3
         DEF RefuseQuestion, TypeOK, checkpointVars, historyVars
  <1>4. CASE RaiseInOperation
    <2>0. FailPermanently(state, node) \in AgentState
          /\ draft.provider \in Providers \cup {NoProvider}
      BY <1>0, <1>4, RaiseCases, NodeTypes DEF TypeOK, Draft
    <2>1. /\ spans' = attempt /\ attempt \in 0 .. Recovery
          /\ rows' = rows /\ failures' \in Nat
          /\ asked' \subseteq Providers \cup {NoProvider}
      BY <1>0, <1>4, <2>0, RaiseCases DEF TypeOK, RaiseInOperation
    <2>2. spans' \in 0 .. MaxSpans
      BY <2>1 DEF MaxSpans, Recovery, MaxAttempts
    <2>3. CASE Retry
      <3>1. draft' \in Draft
        BY <1>0, <2>3, ProviderAssumption DEF Retry, TypeOK, Draft
      <3>2. attempt' \in 0 .. Recovery /\ done' \in Nat
            /\ recovered' \in BOOLEAN
        BY <1>0, <2>1, <2>3 DEF Retry, TypeOK, Recovery, MaxAttempts
      <3>3. QED
        BY <1>0, <2>1, <2>2, <2>3, <3>1, <3>2
           DEF Retry, TypeOK, checkpointVars
    <2>4. CASE GiveUp /\ EndCall(FailPermanently(state, node))
      BY <1>0, <1>4, <2>0, <2>1, <2>2, <2>4, EndCallType, RaiseCases
         DEF GiveUp, TypeOK
    <2>5. QED
      BY <1>4, <2>3, <2>4, RaiseCases
  <1>5. CASE Return
    <2>1. EndCall(draft.agent) /\ draft.agent \in AgentState /\ node \in Nodes
          /\ attempt \in 1 .. Recovery /\ spans = attempt - 1
      BY <1>0, <1>5 DEF Return, TypeOK, Draft
    <2>2. spans' \in 0 .. MaxSpans
      BY <1>5, <2>1 DEF Return, MaxSpans, Recovery, MaxAttempts
    <2>3. QED
      BY <1>0, <1>5, <2>1, <2>2, EndCallType DEF Return, TypeOK, historyVars
  <1>6. CASE UNCHANGED vars
    BY <1>0, <1>6 DEF vars, checkpointVars, callVars, historyVars, TypeOK
  <1>7. QED
    BY <1>1, <1>2, <1>3, <1>4, <1>5, <1>6 DEF Next, Step

LEMMA CallStep == Inv /\ [Next]_vars => CallOK'
  <1> SUFFICES ASSUME Inv, [Next]_vars PROVE CallOK'
    OBVIOUS
  <1>0. /\ TypeOK /\ CallOK /\ local \in Local /\ done \in Nat
        /\ attempt \in 0 .. Recovery
    BY DEF Inv, CallOK, TypeOK
  <1>1. CASE BeginCall
    <2>1. /\ attempt = 0 /\ attempt' = 1 /\ done' = 0 /\ local' = local
          /\ node' = node /\ node \in Nodes
          /\ draft'.agent = state'
      BY <1>0, <1>1 DEF BeginCall, CallOK, TypeOK, checkpointVars
    <2>2. QED
      BY <1>0, <2>1 DEF CallOK, DraftOK, FirstWrite
  <1>2. CASE Operate
    <2>1. /\ attempt > 0 /\ attempt' = attempt /\ node' = node
          /\ node \in Nodes
          /\ local' \in Returned(CurrentOperation)
      BY <1>0, <1>2 DEF Operate, InOperation, CallOK, checkpointVars
    <2>2. local' \in Local
      BY <1>0, <2>1, ReturnedType
    <2>3. DraftOK(draft.agent)'
      BY <1>0, <1>2, OperateKeepsDraft
    <2>4. QED
      BY <1>0, <2>1, <2>2, <2>3 DEF CallOK
  <1>3. CASE RefuseQuestion
    <2>1. /\ node = "input_guard" /\ done' = 4 /\ node' = node
          /\ state' = state /\ attempt' = attempt /\ local' = local
          /\ attempt > 0
          /\ draft'.agent = RefuseInput(state)
      BY <1>0, <1>3, RefuseCases
         DEF RefuseQuestion, InOperation, checkpointVars, TypeOK, Draft
    <2>2. QED
      BY <1>0, <2>1 DEF CallOK, DraftOK, Nodes
  <1>4. CASE RaiseInOperation
    <2>1. CASE Retry
      <3>1. /\ attempt' = attempt + 1 /\ done' = 0 /\ local' = NoLocal
            /\ draft'.agent = draft.agent
            /\ state' = state /\ node' = node
        BY <1>0, <2>1 DEF Retry, checkpointVars, TypeOK, Draft
      <3>2. draft.agent = state /\ node \in Nodes
        BY <1>4, RaiseCases
      <3>3. NoLocal \in Local
        BY NoSqlType DEF Pending, NoLocal, Row, Local
      <3>4. QED
        BY <1>0, <3>1, <3>2, <3>3 DEF CallOK, DraftOK, FirstWrite
    <2>2. CASE EndCall(FailPermanently(state, node))
      BY <2>2, EndCallKeeps
    <2>3. QED
      BY <1>4, <2>1, <2>2, RaiseCases
  <1>5. CASE Return
    <2>1. EndCall(draft.agent)
      BY <1>5 DEF Return
    <2>2. QED
      BY <2>1, EndCallKeeps
  <1>6. CASE UNCHANGED vars
    BY <1>0, <1>6 DEF vars, checkpointVars, callVars, CallOK, DraftOK
  <1>7. QED
    BY <1>1, <1>2, <1>3, <1>4, <1>5, <1>6 DEF Next, Step

LEMMA RowsStep == Inv /\ [Next]_vars => RowsOK'
  <1> SUFFICES ASSUME Inv, [Next]_vars PROVE RowsOK'
    OBVIOUS
  <1>0. TypeOK /\ CallOK /\ RowsOK /\ state \in AgentState /\ done \in Nat
    BY DEF Inv, TypeOK
  <1>1. CASE BeginCall
    BY <1>0, <1>1 DEF BeginCall, RowsOK, checkpointVars, CallOK
  <1>2. CASE Operate
    <2>1. /\ state' = state /\ node' = node /\ attempt' = attempt
          /\ attempt > 0 /\ done' = done + 1
          /\ rows' = IF CurrentOperation = "enqueue" THEN rows + 1 ELSE rows
      BY <1>2 DEF Operate, InOperation, checkpointVars
    <2>2. CurrentOperation = "enqueue" => node = "enqueue_review"
      BY <1>0, <1>2, CurrentIsAt, OperationAt DEF Operate, Nodes
    <2>3. QED
      BY <1>0, <2>1, <2>2 DEF RowsOK
  <1>3. CASE RefuseQuestion
    <2>1. node = "input_guard"
      BY <1>0, <1>3, RefuseCases
    <2>2. QED
      BY <1>0, <1>3, <2>1 DEF RefuseQuestion, RowsOK, checkpointVars
  <1>4. CASE RaiseInOperation
    <2>1. rows = state.review_id /\ rows' = rows
      BY <1>0, <1>4, RaiseCases DEF RowsOK
    <2>2. CASE Retry
      BY <2>1, <2>2 DEF Retry, RowsOK, checkpointVars
    <2>3. CASE EndCall(FailPermanently(state, node))
      <3>1. FailPermanently(state, node).review_id = state.review_id
        BY <1>0 DEF FailPermanently, AgentState
      <3>2. QED
        BY <2>1, <2>3, <3>1, EndCallCases DEF RowsOK
    <2>4. QED
      BY <1>4, <2>2, <2>3, RaiseCases
  <1>5. CASE Return
    <2>1. /\ EndCall(draft.agent) /\ rows' = rows
          /\ attempt > 0 /\ done = Len(Operations)
      BY <1>5 DEF Return
    <2>2. rows = draft.agent.review_id
      BY <1>0, <2>1, ReturnKeeps DEF RowsOK
    <2>3. CASE UNCHANGED <<state, provider, node>>
      <3>1. CASE node = "enqueue_review"
        BY <1>0, <2>1, <2>2, <3>1, EndCallRaises DEF CallOK, RowsOK
      <3>2. CASE node # "enqueue_review"
        BY <1>0, <2>1, <2>3, <3>2 DEF RowsOK
      <3>3. QED
        BY <3>1, <3>2
    <2>4. CASE state' = draft.agent
      BY <2>1, <2>2, <2>4 DEF RowsOK
    <2>5. QED
      BY <2>1, <2>3, <2>4, EndCallCases
  <1>6. CASE UNCHANGED vars
    BY <1>0, <1>6 DEF vars, checkpointVars, callVars, RowsOK
  <1>7. QED
    BY <1>1, <1>2, <1>3, <1>4, <1>5, <1>6 DEF Next, Step

LEMMA ProvidersStep == Inv /\ [Next]_vars => ProvidersOK'
  <1> SUFFICES ASSUME Inv, [Next]_vars PROVE ProvidersOK'
    OBVIOUS
  <1>0. /\ provider \in Allowed /\ draft.provider \in Allowed
        /\ asked \subseteq Allowed
        /\ TypeOK
    BY DEF Inv, ProvidersOK
  <1>1. CASE BeginCall
    BY <1>0, <1>1
       DEF BeginCall, ProvidersOK, Allowed, checkpointVars, historyVars
  <1>2. CASE Operate
    <2>1. /\ draft'.provider = draft.provider /\ provider' = provider
          /\ asked' \subseteq asked \cup {draft.provider}
          /\ recovered' = recovered
      BY <1>0, <1>2 DEF Operate, checkpointVars, TypeOK, Draft
    <2>2. QED
      BY <1>0, <2>1 DEF ProvidersOK, Allowed
  <1>3. CASE RefuseQuestion
    <2>1. /\ draft'.provider = draft.provider /\ provider' = provider
          /\ asked' = asked /\ recovered' = recovered
      BY <1>0, <1>3
         DEF RefuseQuestion, checkpointVars, historyVars, TypeOK, Draft
    <2>2. QED
      BY <1>0, <2>1 DEF ProvidersOK, Allowed
  <1>4. CASE RaiseInOperation
    <2>1. asked' \subseteq Allowed
      BY <1>0, <1>4, RaiseCases
    <2>2. CASE Retry
      <3>1. /\ provider' = provider
            /\ recovered' = (recovered \/ attempt = MaxAttempts)
            /\ draft'.provider = IF attempt = MaxAttempts
                                 THEN Fallback ELSE draft.provider
        BY <1>0, <2>2 DEF Retry, checkpointVars, TypeOK, Draft
      <3>2. Allowed \subseteq Allowed'
            /\ (attempt = MaxAttempts => Fallback \in Allowed')
        BY <3>1 DEF Allowed
      <3>3. QED
        BY <1>0, <2>1, <3>1, <3>2 DEF ProvidersOK
    <2>3. CASE GiveUp /\ EndCall(FailPermanently(state, node))
      <3>1. Allowed' = Allowed
        BY <2>3 DEF GiveUp, Allowed
      <3>2. QED
        BY <1>0, <2>1, <2>3, <3>1, EndCallCases DEF ProvidersOK
    <2>4. QED
      BY <1>4, <2>2, <2>3, RaiseCases
  <1>5. CASE Return
    <2>1. EndCall(draft.agent) /\ asked' = asked /\ Allowed' = Allowed
      BY <1>5 DEF Return, historyVars, Allowed
    <2>2. QED
      BY <1>0, <2>1, EndCallCases DEF ProvidersOK
  <1>6. CASE UNCHANGED vars
    BY <1>0, <1>6 DEF vars, checkpointVars, callVars, historyVars,
                      ProvidersOK, Allowed
  <1>7. QED
    BY <1>1, <1>2, <1>3, <1>4, <1>5, <1>6 DEF Next, Step

LEMMA SpansStep == Inv /\ [Next]_vars => SpansOK'
  <1> SUFFICES ASSUME Inv, [Next]_vars PROVE SpansOK'
    OBVIOUS
  <1>0. TypeOK /\ CallOK /\ SpansOK /\ attempt \in 0 .. Recovery
    BY DEF Inv, TypeOK
  <1>1. CASE BeginCall
    BY <1>0, <1>1 DEF BeginCall, SpansOK, checkpointVars, historyVars
  <1>2. CASE Operate
    BY <1>0, <1>2 DEF Operate, SpansOK, checkpointVars
  <1>3. CASE RefuseQuestion
    BY <1>0, <1>3 DEF RefuseQuestion, SpansOK, checkpointVars, historyVars
  <1>4. CASE RaiseInOperation
    <2>1. CASE Retry
      BY <1>0, <1>4, <2>1, RaiseCases DEF Retry, SpansOK, checkpointVars
    <2>2. CASE GiveUp /\ EndCall(FailPermanently(state, node))
      BY <2>2, EndCallCases DEF GiveUp, SpansOK
    <2>3. QED
      BY <1>4, <2>1, <2>2, RaiseCases
  <1>5. CASE Return
    <2>1. /\ EndCall(draft.agent) /\ givenUp' = givenUp
          /\ attempt > 0 /\ done = Len(Operations)
      BY <1>5 DEF Return, historyVars
    <2>2. draft.agent.status = "error" => state.status = "error"
      BY <1>0, <2>1, ReturnKeeps
    <2>3. QED
      BY <1>0, <2>1, <2>2, EndCallCases DEF SpansOK
  <1>6. CASE UNCHANGED vars
    BY <1>0, <1>6 DEF vars, checkpointVars, callVars, historyVars, SpansOK
  <1>7. QED
    BY <1>1, <1>2, <1>3, <1>4, <1>5, <1>6 DEF Next, Step

LEMMA Invariance == Spec => []Inv
  <1>1. Inv /\ [Next]_vars => Inv'
    BY TypeStep, CallStep, RowsStep, ProvidersStep, SpansStep DEF Inv
  <1>2. QED
    BY <1>1, InitInv, PTL DEF Spec

---------------------------------------------------------------------------
(* The theorems.                                                           *)

\* Every variable of a run's calls stays in its domain, and resilient_node
\* makes no fifth attempt, for any providers and any number of failures.
THEOREM TypeCorrect == Spec => []TypeOK
  <1>1. Inv => TypeOK
    BY DEF Inv
  <1>2. QED
    BY <1>1, Invariance, PTL

\* A retried enqueue_review leaves one row, the one whose id the run carries.
THEOREM RowsAreCarried == Spec => []NoOrphanRows
  <1>1. Inv => NoOrphanRows
    BY DEF Inv, RowsOK, NoOrphanRows, TypeOK
  <1>2. QED
    BY <1>1, Invariance, PTL

\* Models are built for the chosen provider until a node has used up its
\* attempts, and then for that one or the fallback.
THEOREM ChosenFirst == Spec => []ChosenModelFirst
  <1>1. Inv => ChosenModelFirst
    BY DEF Inv, ProvidersOK, Allowed, ChosenModelFirst
  <1>2. QED
    BY <1>1, Invariance, PTL

\* Each raised attempt leaves an error line, and a node that returns leaves
\* one only after an earlier node failed for good.
THEOREM ErrorLines == Spec => ErrorLinesAreFailures
  <1>1. Inv /\ Inv' => [attempt > 0 /\ attempt' > 0 => spans' = attempt' - 1]_vars
    BY DEF Inv, SpansOK
  <1>2. Inv => [Return => spans' = attempt - 1 \/ givenUp]_vars
    <2> SUFFICES ASSUME Inv, Return PROVE spans' = attempt - 1 \/ givenUp
      OBVIOUS
    <2>1. /\ attempt > 0 /\ done = Len(Operations) /\ TypeOK /\ CallOK
          /\ spans = attempt - 1
          /\ state.status = "error" => givenUp
      BY DEF Return, Inv, SpansOK
    <2>2. draft.agent.status = "error" => givenUp
      BY <2>1, ReturnKeeps
    <2>3. QED
      BY <2>1, <2>2 DEF Return
  <1>3. QED
    BY <1>1, <1>2, Invariance, PTL DEF ErrorLinesAreFailures

---------------------------------------------------------------------------
(* Refinement.                                                             *)

\* The edges of the two specifications are the same definitions.
LEMMA SameEdges ==
  ASSUME NEW n, NEW s
  PROVE  /\ Atomic!NextNode(n, s) = NextNode(n, s)
         /\ Atomic!FailPermanently(s, n) = FailPermanently(s, n)
  BY DEF NextNode, FailPermanently, RouteAfterInputGuard, RouteAfterValidation,
         RouteAfterDecision, LastAttempt, Atomic!NextNode,
         Atomic!FailPermanently, Atomic!RouteAfterInputGuard,
         Atomic!RouteAfterValidation, Atomic!RouteAfterDecision,
         Atomic!LastAttempt

\* A call that ends well is a NodeCall, or changes nothing.
LEMMA EndCallIsWhole ==
  ASSUME NEW t, EndCall(t), node \in Nodes,
         Atomic!Outcome(node, state, t) \/ t = FailPermanently(state, node)
  PROVE  Atomic!Next \/ UNCHANGED <<state, node>>
  <1>1. CASE state' = t /\ node' = NextNode(node, t) /\ node' # "raise"
    <2>1. Atomic!NodeCall(node)
      BY <1>1, SameEdges DEF Atomic!NodeCall
    <2>2. node \in Atomic!Nodes
      BY DEF Nodes, Atomic!Nodes
    <2>3. QED
      BY <2>1, <2>2 DEF Atomic!Next
  <1>2. QED
    BY <1>1, EndCallCases

LEMMA ReturnIsWhole ==
  ASSUME TypeOK, CallOK, attempt > 0, done = Len(Operations)
  PROVE  Atomic!Outcome(node, state, draft.agent)
  <1> DEFINE t == draft.agent
  <1>0. /\ state \in AgentState /\ t \in AgentState /\ node \in Nodes
        /\ local \in Local
    BY DEF TypeOK, CallOK, Draft
  <1>1. CASE node = "input_guard"
    BY <1>1, ReturnsOutcome DEF Atomic!Outcome, RefuseInput, AcceptInput,
             Atomic!RefuseInput, Atomic!AcceptInput
  <1>2. CASE node = "schema_retriever"
    BY <1>2, ReturnsOutcome DEF Atomic!Outcome
  <1>3. CASE node = "sql_generator"
    <2>1. t = SqlGenerator(state, local.stmt)
      BY <1>3, ReturnsOutcome
    <2>2. t.final_sql.stmt = local.stmt
      BY <1>0, <2>1 DEF SqlGenerator, Raw, AgentState
    <2>3. t = Atomic!SqlGenerator(state, t.final_sql.stmt)
      BY <2>1, <2>2 DEF SqlGenerator, Raw, Atomic!SqlGenerator, Atomic!Raw
    <2>4. QED
      BY <1>3, <2>3 DEF Atomic!Outcome
  <1>4. CASE node = "sql_validator"
    <2>1. t = SqlValidator(state)
      BY <1>4, ReturnsOutcome
    <2>2. t = Atomic!SqlValidator(state)
      BY <2>1 DEF SqlValidator, CheckSql, ApplyRowLimit, Atomic!SqlValidator,
                  Atomic!CheckSql, Atomic!ApplyRowLimit
    <2>3. QED
      BY <1>4, <2>2 DEF Atomic!Outcome
  <1>5. CASE node = "enqueue_review"
    <2>1. t = EnqueueReview(state, rows)
      BY <1>5, ReturnsOutcome
    <2>2. t.review_id = rows
      BY <1>0, <2>1 DEF EnqueueReview, AgentState
    <2>3. t = Atomic!EnqueueReview(state, t.review_id)
      BY <2>1, <2>2 DEF EnqueueReview, Atomic!EnqueueReview
    <2>4. QED
      BY <1>5, <2>3 DEF Atomic!Outcome
  <1>6. CASE node = "await_decision"
    <2> DEFINE seen == [status |-> local.row.status,
                        decision_sql |-> t.final_sql]
    <2>1. t = AwaitDecision(state, local.row)
          /\ local.row.status \in Atomic!Verdict
      BY <1>0, <1>6, ReturnsOutcome DEF Local, Row, Atomic!Verdict
    <2>2. t = Atomic!AwaitDecision(state, seen)
      <3>1. CASE local.row.status = "pending"
        BY <2>1, <3>1 DEF AwaitDecision, Atomic!AwaitDecision
      <3>2. CASE local.row.status = "approved"
        <4>1. t.final_sql = local.row.decision_sql
          BY <1>0, <2>1, <3>2 DEF AwaitDecision, AgentState
        <4>2. QED
          BY <2>1, <3>2, <4>1 DEF AwaitDecision, Atomic!AwaitDecision
      <3>3. CASE local.row.status = "rejected"
        BY <2>1, <3>3 DEF AwaitDecision, Atomic!AwaitDecision
      <3>4. QED
        BY <2>1, <3>1, <3>2, <3>3 DEF Atomic!Verdict
    <2> HIDE DEF t
    <2>3. Atomic!Outcome(node, state, t)
      BY <1>6, <2>1, <2>2 DEF Atomic!Outcome
    <2>4. QED
      BY <2>3 DEF t
  <1>7. CASE node = "sql_executor"
    BY <1>7, ReturnsOutcome DEF Atomic!Outcome, SqlExecutor, Atomic!SqlExecutor
  <1>8. CASE node = "response_formatter"
    <2>1. t = ResponseFormatter(state, local.flag) /\ local.flag \in BOOLEAN
      BY <1>0, <1>8, ReturnsOutcome DEF Local
    <2>2. t = Atomic!ResponseFormatter(state, local.flag)
      BY <2>1 DEF ResponseFormatter, NoSql, Raw, Atomic!ResponseFormatter,
                  Atomic!NoSql, Atomic!Raw
    <2> HIDE DEF t
    <2>3. Atomic!Outcome(node, state, t)
      BY <1>8, <2>1, <2>2 DEF Atomic!Outcome
    <2>4. QED
      BY <2>3 DEF t
  <1>9. CASE node = "critic"
    BY <1>9, ReturnsOutcome DEF Atomic!Outcome, Criticise, Atomic!Criticise
  <1>10. QED
    BY <1>0, <1>1, <1>2, <1>3, <1>4, <1>5, <1>6, <1>7, <1>8, <1>9 DEF Nodes

\* NodeCalls implements AtomicNodes: whatever attempts raise half way, each
\* checkpoint follows from the one before by one whole result of a node, or
\* by the error on the state the node was called with.
THEOREM CallsImplementAtomicNodes == Spec => CallsAreAtomic
  <1>1. Init => Atomic!Init
    BY DEF Init, InitialState, NoSql, Raw, Atomic!Init, Atomic!InitialState,
           Atomic!NoSql, Atomic!Raw
  <1>2. Inv /\ [Next]_vars => [Atomic!Next]_<<state, node>>
    <2> SUFFICES ASSUME Inv, [Next]_vars
                 PROVE  Atomic!Next \/ UNCHANGED <<state, node>>
      OBVIOUS
    <2>0. TypeOK /\ CallOK
      BY DEF Inv
    <2>1. CASE BeginCall \/ Operate \/ RefuseQuestion
      BY <2>1 DEF BeginCall, Operate, RefuseQuestion, checkpointVars
    <2>2. CASE RaiseInOperation
      <3>1. CASE Retry
        BY <3>1 DEF Retry, checkpointVars
      <3>2. CASE EndCall(FailPermanently(state, node))
        BY <2>2, <3>2, RaiseCases, EndCallIsWhole
      <3>3. QED
        BY <2>2, <3>1, <3>2, RaiseCases
    <2>3. CASE Return
      <3>1. /\ EndCall(draft.agent) /\ node \in Nodes
            /\ Atomic!Outcome(node, state, draft.agent)
        BY <2>0, <2>3, ReturnIsWhole DEF Return, CallOK
      <3>2. QED
        BY <3>1, EndCallIsWhole
    <2>4. CASE UNCHANGED vars
      BY <2>4 DEF vars, checkpointVars
    <2>5. QED
      BY <2>1, <2>2, <2>3, <2>4 DEF Next, Step
  <1>3. QED
    BY <1>1, <1>2, Invariance, PTL DEF Spec, CallsAreAtomic, Atomic!Spec

=============================================================================
