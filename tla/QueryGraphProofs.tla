------------------------- MODULE QueryGraphProofs -------------------------
(***************************************************************************)
(* Type correctness and the safety invariants of QueryGraph, for every     *)
(* number of runs, set of statements, cap and recursion limit.             *)
(***************************************************************************)
EXTENDS QueryGraph, AgentNodesProofs, SequenceTheorems, TLAPS

---------------------------------------------------------------------------
(* Types of the queue's operations.                                        *)

\* Queue operations keep the table well formed.
LEMMA QueueTypes ==
  ASSUME NEW q \in Seq(ReviewRow)
  PROVE  /\ \A r \in Runs, a \in Seq(Attempt) :
               Enqueue(q, r, a) \in Seq(ReviewRow)
         /\ \A id \in Nat, ok \in BOOLEAN, sql \in Sql :
               Decide(q, id, ok, sql) \in Seq(ReviewRow)
  <1>1. ASSUME NEW r \in Runs, NEW a \in Seq(Attempt)
        PROVE  Enqueue(q, r, a) \in Seq(ReviewRow)
    BY NoSqlType DEF Enqueue, ReviewRow
  <1>2. ASSUME NEW id \in Nat, NEW ok \in BOOLEAN, NEW sql \in Sql
        PROVE  Decide(q, id, ok, sql) \in Seq(ReviewRow)
    <2> DEFINE status == IF ok THEN "approved" ELSE "rejected"
               row == [[q[id] EXCEPT !.status = status]
                                EXCEPT !.decision_sql = sql]
               rows == [q EXCEPT ![id] = row]
    <2>1. q \in [1 .. Len(q) -> ReviewRow] /\ Len(q) \in Nat
      OBVIOUS
    <2>2. id \in 1 .. Len(q) => row \in ReviewRow
      <3>1. id \in 1 .. Len(q) => q[id] \in ReviewRow
        BY <2>1
      <3>2. QED
        BY <3>1 DEF ReviewRow
    <2>3. rows \in [1 .. Len(q) -> ReviewRow]
      <3> HIDE DEF row
      <3>1. QED
        BY <2>1, <2>2
    <2>4. Decide(q, id, ok, sql) = rows
      BY DEF Decide
    <2>5. rows \in Seq(ReviewRow)
      <3> HIDE DEF rows
      <3>1. QED
        BY <2>1, <2>3
    <2>6. QED
      BY <2>4, <2>5
  <1>3. QED
    BY <1>1, <1>2

\* The reviewer's default is an SQL text.
LEMMA LatestFailedSqlType ==
  ASSUME NEW row \in ReviewRow
  PROVE  LatestFailedSql(row) \in Sql
  <1>1. row.sql_attempts \in Seq(Attempt)
    BY DEF ReviewRow
  <1>2. row.sql_attempts # <<>> =>
          row.sql_attempts[Len(row.sql_attempts)] \in Attempt
    BY <1>1
  <1>3. QED
    BY <1>2, NoSqlType DEF LatestFailedSql, Attempt

---------------------------------------------------------------------------
(* Type correctness.                                                       *)

\* Handing a state to the caller touches phase, the chat and activity only, and
\* keeps their types.
LEMMA DeliverType ==
  ASSUME TypeOK, NEW r \in Runs, NEW c \in Callers, NEW s \in AgentState,
         Deliver(r, c, s)
  PROVE  /\ phase' \in [Runs -> Phases]
         /\ streamed' \in [Runs -> Statuses]
         /\ shown' \in [Runs -> Statuses]
         /\ activity' \in [Runs -> Nat]
  <1>1. phase' \in [Runs -> Phases]
    BY DEF TypeOK, Deliver, Phases
  <1>2. streamed' \in [Runs -> Statuses] /\ shown' \in [Runs -> Statuses]
    BY DEF TypeOK, Deliver, AgentState
  <1>3. activity' \in [Runs -> Nat]
    <2>1. activity \in [Runs -> Nat]
      BY DEF TypeOK
    <2>2. [activity EXCEPT ![r] = IF @ < MaxActivity THEN @ + 1 ELSE @]
            \in [Runs -> Nat]
      BY <2>1
    <2>3. \/ activity' = activity
          \/ activity' =
               [activity EXCEPT ![r] = IF @ < MaxActivity THEN @ + 1 ELSE @]
      BY DEF Deliver, LogActivity
    <2>4. QED
      BY <2>1, <2>2, <2>3
  <1>4. QED
    BY <1>1, <1>2, <1>3

\* A superstep keeps the types of everything it writes.
LEMMA SuperstepType ==
  ASSUME TypeOK, NEW r \in Runs, NEW n \in Nodes, NEW s \in AgentState,
         Superstep(r, n, s)
  PROVE  /\ state' \in [Runs -> AgentState]
         /\ next' \in [Runs -> Nodes \cup {"END"}]
         /\ steps' \in [Runs -> Nat]
         /\ phase' \in [Runs -> Phases]
         /\ streamed' \in [Runs -> Statuses]
         /\ shown' \in [Runs -> Statuses]
         /\ activity' \in [Runs -> Nat]
  <1>1. caller[r] \in Callers
    BY DEF TypeOK
  <1>2. CASE NextNode(n, s) = "raise"
    BY <1>2 DEF TypeOK, Superstep, Raise, Phases, chatVars
  <1>3. CASE NextNode(n, s) # "raise"
    <2>1. NextNode(n, s) \in Nodes \cup {"END"}
      BY <1>3, NextNodeType
    <2>2. /\ state' = [state EXCEPT ![r] = s]
          /\ next' = [next EXCEPT ![r] = NextNode(n, s)]
          /\ steps' = [steps EXCEPT ![r] = @ + 1]
          /\ \/ Raise(r)
             \/ Deliver(r, caller[r], s)
             \/ UNCHANGED <<phase, chatVars, activity>>
      BY <1>3 DEF Superstep
    <2>3. /\ state' \in [Runs -> AgentState]
          /\ next' \in [Runs -> Nodes \cup {"END"}]
          /\ steps' \in [Runs -> Nat]
      BY <2>1, <2>2 DEF TypeOK
    <2>4. /\ phase' \in [Runs -> Phases]
          /\ streamed' \in [Runs -> Statuses]
          /\ shown' \in [Runs -> Statuses]
          /\ activity' \in [Runs -> Nat]
      <3>1. CASE Raise(r)
        BY <3>1 DEF TypeOK, Raise, Phases, chatVars
      <3>2. CASE Deliver(r, caller[r], s)
        BY <3>2, <1>1, DeliverType
      <3>3. CASE UNCHANGED <<phase, chatVars, activity>>
        BY <3>3 DEF TypeOK, chatVars
      <3>4. QED
        BY <2>2, <3>1, <3>2, <3>3
    <2>5. QED
      BY <2>3, <2>4
  <1>4. QED
    BY <1>2, <1>3

\* The initial state is well typed.
LEMMA TypeInit == Init => TypeOK
  <1>1. SUFFICES ASSUME Init PROVE TypeOK
    OBVIOUS
  <1>2. state \in [Runs -> AgentState]
    BY <1>1, InitialStateType DEF Init
  <1>3. /\ queue \in Seq(ReviewRow) /\ approvals \subseteq [id : Nat, sql : Sql]
    BY <1>1 DEF Init
  <1>4. QED
    BY <1>1, <1>2, <1>3 DEF Init, TypeOK, Phases, Callers, Nodes, Statuses

\* Every step keeps every variable in its domain.
LEMMA TypeStep == TypeOK /\ [Next]_vars => TypeOK'
  <1> SUFFICES ASSUME TypeOK, [Next]_vars PROVE TypeOK'
    OBVIOUS
  <1> USE DEF NodeFrame, reviewVars, graphVars, callVars, chatVars, uiVars
  <1>1. ASSUME NEW r \in Runs, NodeStep(r) PROVE TypeOK'
    <2>0. /\ state[r] \in AgentState
          /\ \A n : Running(r, n) => n \in Nodes \cup {"END"}
      BY DEF TypeOK, Running
    <2>a. ASSUME NEW n \in Nodes, NEW s \in AgentState, Superstep(r, n, s),
                 UNCHANGED <<generations, queue, approvals, caller, widget,
                             crashes>>
          PROVE  TypeOK'
      BY <2>a, SuperstepType DEF TypeOK
    <2>b. CountGeneration(r) => generations' \in [Runs -> Nat]
      BY DEF CountGeneration, TypeOK
    <2>1. CASE InputGuard(r)
      BY <2>1, <2>0, <2>a, NodeTypes DEF InputGuard, Nodes
    <2>2. CASE SchemaRetriever(r)
      BY <2>2, <2>0, <2>a DEF SchemaRetriever, Nodes
    <2>3. CASE GenerateSql(r)
      <3>1. PICK stmt \in Stmts :
              Superstep(r, "sql_generator", SqlGenerator(state[r], stmt))
        BY <2>3 DEF GenerateSql
      <3>2. SqlGenerator(state[r], stmt) \in AgentState
            /\ "sql_generator" \in Nodes
        BY <2>0, NodeTypes DEF Nodes
      <3>3. QED
        BY <2>3, <3>1, <3>2, <2>b, SuperstepType DEF GenerateSql, TypeOK
    <2>4. CASE ValidateSql(r)
      BY <2>4, <2>0, <2>a, NodeTypes DEF ValidateSql, Nodes
    <2>5. CASE EnqueueForReview(r)
      <3>1. queue' \in Seq(ReviewRow)
        BY <2>5, <2>0, QueueTypes DEF EnqueueForReview, TypeOK, AgentState
      <3>2. Len(queue') \in Nat /\ "enqueue_review" \in Nodes
        BY <3>1 DEF Nodes
      <3>3. EnqueueReview(state[r], Len(queue')) \in AgentState
        BY <3>2, <2>0, NodeTypes
      <3>4. QED
        BY <2>5, <3>1, <3>2, <3>3, SuperstepType DEF EnqueueForReview, TypeOK
    <2>6. CASE ReadDecision(r)
      <3>1. queue[state[r].review_id] \in ReviewRow
        BY <2>6, <2>0 DEF ReadDecision, TypeOK
      <3>2. AwaitDecision(state[r], queue[state[r].review_id]) \in AgentState
            /\ "await_decision" \in Nodes
        BY <3>1, <2>0, NodeTypes DEF Nodes, ReviewRow, IsReviewRow
      <3>3. QED
        BY <2>6, <3>2, <2>a DEF ReadDecision
    <2>7. CASE ExecuteSql(r)
      BY <2>7, <2>0, <2>a, NodeTypes DEF ExecuteSql, Nodes
    <2>8. CASE FormatResponse(r)
      BY <2>8, <2>0, <2>a, NodeTypes DEF FormatResponse, Nodes
    <2>9. CASE Critic(r)
      BY <2>9, <2>0, <2>a, NodeTypes DEF Critic, Nodes
    <2>10. CASE NodeFails(r)
      <3>1. PICK n \in Nodes :
              Superstep(r, n, FailPermanently(state[r], n))
        BY <2>10 DEF NodeFails
      <3>2. FailPermanently(state[r], n) \in AgentState
        BY <2>0, NodeTypes
      <3>3. generations' \in [Runs -> Nat]
        BY <2>10, <2>b DEF NodeFails, TypeOK
      <3>4. QED
        BY <2>10, <3>1, <3>2, <3>3, SuperstepType DEF NodeFails, TypeOK
    <2>11. CASE OutOfSteps(r)
      BY <2>11 DEF OutOfSteps, Raise, TypeOK, Phases
    <2>12. QED
      BY <1>1, <2>1, <2>2, <2>3, <2>4, <2>5, <2>6, <2>7, <2>8, <2>9, <2>10,
         <2>11 DEF NodeStep
  <1>2. ASSUME NEW r \in Runs, RunQuery(r) \/ RunNewQuery(r) PROVE TypeOK'
    BY <1>2 DEF RunQuery, RunNewQuery, Start, TypeOK, Phases, Callers
  <1>3. ASSUME NEW r \in Runs, NEW c \in {"resume_review", "widget"},
               Resume(r, c), widget' \in [Runs -> {"idle", "clicked", "decided"}]
        PROVE  TypeOK'
    <2>1. caller' \in [Runs -> Callers] /\ c \in Callers /\ state[r] \in AgentState
      BY <1>3 DEF Resume, TypeOK, Callers
    <2>2. CASE next[r] = "END"
      <3>1. Deliver(r, c, state[r]) /\ UNCHANGED steps
        BY <1>3, <2>2 DEF Resume
      <3>2. /\ phase' \in [Runs -> Phases]
            /\ streamed' \in [Runs -> Statuses]
            /\ shown' \in [Runs -> Statuses]
            /\ activity' \in [Runs -> Nat]
        BY <2>1, <3>1, DeliverType
      <3>3. UNCHANGED <<state, next, generations, queue, approvals, crashes>>
        BY <1>3 DEF Resume
      <3>4. /\ state' \in [Runs -> AgentState]
            /\ next' \in [Runs -> Nodes \cup {"END"}]
            /\ steps' \in [Runs -> Nat]
            /\ queue' \in Seq(ReviewRow)
            /\ generations' \in [Runs -> Nat]
            /\ crashes' \in Nat
            /\ approvals' \subseteq [id : Nat, sql : Sql]
        BY <3>1, <3>3 DEF TypeOK
      <3>5. QED
        BY <1>3, <2>1, <3>2, <3>4 DEF TypeOK
    <2>3. CASE next[r] # "END"
      <3>1. /\ phase' = [phase EXCEPT ![r] = "running"]
            /\ steps' = [steps EXCEPT ![r] = 0]
            /\ UNCHANGED <<chatVars, activity, state, next, generations, queue,
                           approvals, crashes>>
        BY <1>3, <2>3 DEF Resume
      <3>2. QED
        BY <1>3, <2>1, <3>1 DEF TypeOK, Phases
    <2>4. QED
      BY <2>2, <2>3
  <1>4. ASSUME NEW r \in Runs, ResumeReview(r) \/ WidgetResume(r) PROVE TypeOK'
    BY <1>4, <1>3 DEF ResumeReview, WidgetResume, TypeOK
  <1>5. ASSUME NEW id \in Nat, NEW ok \in BOOLEAN, NEW sql \in Sql,
               DecideRow(id, ok, sql)
        PROVE  queue' \in Seq(ReviewRow) /\ approvals' \subseteq [id : Nat, sql : Sql]
    <2>1. queue' = Decide(queue, id, ok, sql) /\ queue \in Seq(ReviewRow)
      BY <1>5 DEF DecideRow, TypeOK
    <2>2. queue' \in Seq(ReviewRow)
      BY <2>1, QueueTypes
    <2>3. approvals' \subseteq [id : Nat, sql : Sql]
      BY <1>5 DEF DecideRow, TypeOK
    <2>4. QED
      BY <2>2, <2>3
  <1>6. ASSUME NEW r \in Runs, WidgetClick(r) PROVE TypeOK'
    BY <1>6 DEF WidgetClick, TypeOK
  <1>7. ASSUME NEW r \in Runs, WidgetDecide(r) PROVE TypeOK'
    <2>1. \A stmt \in Corrections : Raw(stmt) \in Sql
      BY BoundAssumption DEF Raw, Sql
    <2>2. state[r].review_id \in Nat
      BY DEF TypeOK, AgentState
    <2>3. ASSUME NEW id \in DOMAIN queue PROVE LatestFailedSql(queue[id]) \in Sql
      <3>1. queue[id] \in ReviewRow
        BY ElementOfSeq DEF TypeOK
      <3>2. QED
        BY <3>1, LatestFailedSqlType
    <2>4. queue' \in Seq(ReviewRow) /\ approvals' \subseteq [id : Nat, sql : Sql]
      BY <1>7, <1>5, <2>1, <2>2, <2>3, NoSqlType DEF WidgetDecide
    <2>5. QED
      BY <1>7, <2>4 DEF WidgetDecide, TypeOK
  <1>8. ASSUME NEW id \in DOMAIN queue, CliApprove(id) \/ CliReject(id)
        PROVE  TypeOK'
    <2>1. \A stmt \in Corrections : Raw(stmt) \in Sql
      BY BoundAssumption DEF Raw, Sql
    <2>0. queue \in Seq(ReviewRow) /\ id \in 1 .. Len(queue)
      BY DEF TypeOK
    <2>a. queue[id] \in ReviewRow
      BY <2>0, ElementOfSeq
    <2>2. LatestFailedSql(queue[id]) \in Sql
      BY <2>a, LatestFailedSqlType
    <2>3. queue' \in Seq(ReviewRow) /\ approvals' \subseteq [id : Nat, sql : Sql]
      <3>1. id \in Nat
        BY DEF TypeOK
      <3>2. QED
        BY <1>8, <1>5, <2>1, <2>2, <3>1, NoSqlType DEF CliApprove, CliReject
    <2>4. QED
      BY <1>8, <2>3 DEF CliApprove, CliReject, TypeOK
  <1>9. ASSUME NEW r \in Runs,
               AppendMessage(r) \/ RerunDuringTurn(r) \/ NewChat(r)
        PROVE  TypeOK'
    BY <1>9 DEF AppendMessage, RerunDuringTurn, NewChat, TypeOK, Phases, Statuses
  <1>10. ASSUME ProcessDies, queue' \in Seq(ReviewRow),
                generations' \in [Runs -> Nat]
         PROVE  TypeOK'
    BY <1>10 DEF ProcessDies, TypeOK, Phases, Statuses
  <1>11. ASSUME NEW r \in Runs, CrashAfterEnqueue(r) PROVE TypeOK'
    <2>1. queue' \in Seq(ReviewRow)
      BY <1>11, QueueTypes DEF CrashAfterEnqueue, TypeOK, AgentState
    <2>2. QED
      BY <1>11, <2>1, <1>10 DEF CrashAfterEnqueue, TypeOK
  <1>15. ASSUME NEW r \in Runs, CrashAfterGenerate(r) PROVE TypeOK'
    BY <1>15, <1>10 DEF CrashAfterGenerate, CountGeneration, TypeOK
  <1>12. CASE Crash
    BY <1>12, <1>10 DEF Crash, TypeOK
  <1>13. CASE UNCHANGED vars
    BY <1>13 DEF vars, TypeOK
  <1>14. QED
    BY <1>1, <1>2, <1>4, <1>6, <1>7, <1>8, <1>9, <1>11, <1>12, <1>13,
       <1>15 DEF Next

\* Every variable stays in its domain: no node result, permanent failure,
\* decision, resume or crash leaves a value the code has no case for.
THEOREM TypeCorrect == Spec => []TypeOK
  BY TypeInit, TypeStep, PTL DEF Spec

---------------------------------------------------------------------------
(* Safety.  AttemptsCapped, ExecutedIsVetted, RejectedRunsNothing and      *)
(* SuccessIsEarned speak of the state alone; what makes them inductive is  *)
(* what must hold of the state before each node that is still to run.      *)

BeforeExecution ==
    {"input_guard", "schema_retriever", "sql_generator", "sql_validator",
     "enqueue_review", "await_decision", "sql_executor"}

Validated(s, sql) ==
    /\ s.sql_attempts # <<>> /\ LastAttempt(s).valid
    /\ sql = LastAttempt(s).sql /\ sql.limited /\ sql.stmt \in Passes

Approved(s, sql, approved) ==
    [id |-> s.review_id, sql |-> sql] \in approved /\ s.decision = "approved"

AttemptsOK(s, n) ==
    /\ n \in {"input_guard", "schema_retriever"} => s.sql_attempts = <<>>
    /\ n \in {"sql_generator", "sql_validator"} =>
           /\ Len(s.sql_attempts) <= MaxRegenerationAttempts
           /\ \A i \in 1 .. Len(s.sql_attempts) : ~ s.sql_attempts[i].valid
    /\ Len(s.sql_attempts) <= MaxRegenerationAttempts + 1
    /\ \A i \in 1 .. Len(s.sql_attempts) - 1 : ~ s.sql_attempts[i].valid

ExecutionOK(s, n, approved) ==
    /\ n \in BeforeExecution => s.execution_result = NoSql
    /\ n = "sql_executor" =>
           Validated(s, s.final_sql) \/ Approved(s, s.final_sql, approved)
    /\ s.execution_result # NoSql =>
           \/ Validated(s, s.execution_result)
           \/ Approved(s, s.execution_result, approved)

DecisionOK(s, n) ==
    s.decision = "rejected" =>
        /\ n = "END"
        /\ s.execution_result = NoSql
        /\ s.final_answer = "refusal"

OutcomeOK(s, n) ==
    /\ s.status = "none" =>
           /\ s.decision = "none" /\ s.error_detail = "none"
           /\ n # "input_guard" => s.masked
           /\ n = "response_formatter" => s.execution_result # NoSql
    /\ s.status = "success" =>
           /\ n \in {"critic", "END"}
           /\ s.masked /\ s.error_detail = "none"
           /\ Validated(s, s.execution_result)
           /\ s.final_answer = "from_rows"

RunOK(s, n, approved) ==
    /\ AttemptsOK(s, n)
    /\ ExecutionOK(s, n, approved)
    /\ DecisionOK(s, n)
    /\ OutcomeOK(s, n)

\* An approved row's SQL is among the approvals.
QueueOK ==
    \A id \in DOMAIN queue :
        queue[id].status = "approved" =>
            [id |-> id, sql |-> queue[id].decision_sql] \in approvals

IInv ==
    /\ TypeOK
    /\ \A r \in Runs : RunOK(state[r], next[r], approvals)
    /\ QueueOK

\* More approvals never invalidate a run.
LEMMA ApprovalsGrow ==
  ASSUME NEW s, NEW n, NEW a, NEW b, a \subseteq b, RunOK(s, n, a)
  PROVE  RunOK(s, n, b)
  BY DEF RunOK, ExecutionOK, Approved

\* input_guard: a refused question ends the run, an accepted one is masked.
LEMMA InputGuardKeeps ==
  ASSUME NEW s \in AgentState, NEW a, RunOK(s, "input_guard", a)
  PROVE  /\ RunOK(RefuseInput(s), NextNode("input_guard", RefuseInput(s)), a)
         /\ RunOK(AcceptInput(s), NextNode("input_guard", AcceptInput(s)), a)
  BY DEF RunOK, AttemptsOK, ExecutionOK, DecisionOK, OutcomeOK, Validated,
         Approved, LastAttempt, AgentState, RefuseInput, AcceptInput, NextNode,
         RouteAfterInputGuard, BeforeExecution

\* schema_retriever leaves the modelled state alone.
LEMMA SchemaRetrieverKeeps ==
  ASSUME NEW s \in AgentState, NEW a, RunOK(s, "schema_retriever", a)
  PROVE  RunOK(s, NextNode("schema_retriever", s), a)
  <1>1. s.sql_attempts = <<>> /\ Len(s.sql_attempts) = 0
    BY DEF RunOK, AttemptsOK
  <1>2. AttemptsOK(s, "sql_generator")
    BY <1>1, CapAssumption DEF AttemptsOK
  <1>3. QED
    BY <1>2 DEF RunOK, ExecutionOK, DecisionOK, OutcomeOK, NextNode,
       BeforeExecution

\* sql_generator replaces final_sql, which no invariant reads before the
\* validator has judged it.
LEMMA SqlGeneratorKeeps ==
  ASSUME NEW s \in AgentState, NEW stmt \in Stmts, NEW a,
         RunOK(s, "sql_generator", a)
  PROVE  RunOK(SqlGenerator(s, stmt),
               NextNode("sql_generator", SqlGenerator(s, stmt)), a)
  BY DEF RunOK, AttemptsOK, ExecutionOK, DecisionOK, OutcomeOK, Validated,
         Approved, LastAttempt, AgentState, SqlGenerator, NextNode,
         BeforeExecution

\* sql_validator adds one attempt; its route sends on only what passed.
LEMMA SqlValidatorKeeps ==
  ASSUME NEW s \in AgentState, NEW a, RunOK(s, "sql_validator", a)
  PROVE  RunOK(SqlValidator(s), NextNode("sql_validator", SqlValidator(s)), a)
  <1> DEFINE valid == CheckSql(s.final_sql)
             sql == IF valid THEN ApplyRowLimit(s.final_sql) ELSE s.final_sql
             new == [sql |-> sql, valid |-> valid]
             t == SqlValidator(s)
             n == NextNode("sql_validator", t)
  <1>1. s.sql_attempts \in Seq(Attempt) /\ s.final_sql \in Sql
    BY DEF AgentState
  <1>2. sql \in Sql /\ valid \in BOOLEAN
    <2>1. ApplyRowLimit(s.final_sql) \in Sql
      BY <1>1 DEF ApplyRowLimit, Sql
    <2>2. valid \in BOOLEAN
      BY DEF CheckSql
    <2>3. QED
      BY <1>1, <2>1, <2>2
  <1>3. new \in Attempt /\ new.valid = valid /\ new.sql = sql
    BY <1>2 DEF Attempt
  <1>4. /\ t.sql_attempts = Append(s.sql_attempts, new)
        /\ t.final_sql = sql
        /\ t.execution_result = s.execution_result
        /\ t.decision = s.decision /\ t.status = s.status
        /\ t.error_detail = s.error_detail /\ t.masked = s.masked
        /\ t.review_id = s.review_id /\ t.final_answer = s.final_answer
    BY DEF SqlValidator, AgentState
  <1> HIDE DEF new
  <1>5. /\ Len(t.sql_attempts) = Len(s.sql_attempts) + 1
        /\ Len(s.sql_attempts) \in Nat
        /\ t.sql_attempts # <<>>
        /\ \A i \in 1 .. Len(s.sql_attempts) :
              t.sql_attempts[i] = s.sql_attempts[i]
        /\ LastAttempt(t) = new
    BY <1>1, <1>3, <1>4, AppendProperties DEF LastAttempt
  <1>6. /\ Len(s.sql_attempts) <= MaxRegenerationAttempts
        /\ \A i \in 1 .. Len(s.sql_attempts) : ~ s.sql_attempts[i].valid
        /\ s.execution_result = NoSql /\ s.decision # "rejected"
        /\ s.status # "success"
        /\ s.status = "none" => /\ s.decision = "none" /\ s.masked
                                /\ s.error_detail = "none"
    BY DEF RunOK, AttemptsOK, ExecutionOK, DecisionOK, OutcomeOK,
           BeforeExecution
  <1>7. n = IF valid THEN "sql_executor"
            ELSE IF Len(t.sql_attempts) <= MaxRegenerationAttempts
            THEN "sql_generator" ELSE "enqueue_review"
    BY <1>3, <1>5 DEF NextNode, RouteAfterValidation
  <1> HIDE DEF t, n
  <1>8. AttemptsOK(t, n)
    <2>1. Len(t.sql_attempts) <= MaxRegenerationAttempts + 1
      BY <1>5, <1>6, CapAssumption
    <2>2. \A i \in 1 .. Len(t.sql_attempts) - 1 : ~ t.sql_attempts[i].valid
      BY <1>5, <1>6
    <2>3. ASSUME n \in {"sql_generator", "sql_validator"}
          PROVE  /\ Len(t.sql_attempts) <= MaxRegenerationAttempts
                 /\ \A i \in 1 .. Len(t.sql_attempts) :
                       ~ t.sql_attempts[i].valid
      <3>1. ~ valid /\ Len(t.sql_attempts) <= MaxRegenerationAttempts
        BY <1>7, <2>3
      <3>2. ~ t.sql_attempts[Len(t.sql_attempts)].valid
        BY <1>3, <1>5, <3>1 DEF LastAttempt
      <3>3. QED
        BY <1>5, <2>2, <3>1, <3>2
    <2>4. n \notin {"input_guard", "schema_retriever"}
      BY <1>7
    <2>5. QED
      BY <2>1, <2>2, <2>3, <2>4 DEF AttemptsOK
  <1>9. ExecutionOK(t, n, a)
    <2>1. ASSUME valid PROVE Validated(t, t.final_sql)
      <3>1. sql.limited /\ sql.stmt \in Passes
        BY <1>1, <2>1 DEF CheckSql, ApplyRowLimit, Sql
      <3>2. QED
        BY <1>3, <1>4, <1>5, <2>1, <3>1 DEF Validated
    <2>2. n = "sql_executor" => valid
      BY <1>7
    <2>3. t.execution_result = NoSql
      BY <1>4, <1>6
    <2>4. QED
      BY <2>1, <2>2, <2>3 DEF ExecutionOK
  <1>10. DecisionOK(t, n) /\ OutcomeOK(t, n)
    BY <1>4, <1>6, <1>7 DEF DecisionOK, OutcomeOK
  <1>11. QED
    BY <1>8, <1>9, <1>10 DEF RunOK, t, n

\* enqueue_review puts the row's id on the state.
LEMMA EnqueueReviewKeeps ==
  ASSUME NEW s \in AgentState, NEW id \in Nat, NEW a,
         RunOK(s, "enqueue_review", a)
  PROVE  RunOK(EnqueueReview(s, id),
               NextNode("enqueue_review", EnqueueReview(s, id)), a)
  <1> DEFINE t == EnqueueReview(s, id)
  <1>1. /\ t.sql_attempts = s.sql_attempts
        /\ t.execution_result = s.execution_result
        /\ t.decision = "none" /\ t.status = "escalated"
    BY DEF EnqueueReview, AgentState
  <1>2. NextNode("enqueue_review", t) = "await_decision"
    BY DEF NextNode
  <1>3. s.execution_result = NoSql
    BY DEF RunOK, ExecutionOK, BeforeExecution
  <1> HIDE DEF t
  <1>4. AttemptsOK(t, "await_decision")
    BY <1>1 DEF RunOK, AttemptsOK
  <1>5. QED
    BY <1>1, <1>2, <1>3, <1>4 DEF RunOK, ExecutionOK, DecisionOK, OutcomeOK, t

\* await_decision: only an approved row sends the run on, with its SQL.
LEMMA AwaitDecisionKeeps ==
  ASSUME NEW s \in AgentState, NEW row \in ReviewRow, NEW a,
         RunOK(s, "await_decision", a),
         row.status = "approved" =>
             [id |-> s.review_id, sql |-> row.decision_sql] \in a
  PROVE  RunOK(AwaitDecision(s, row),
               NextNode("await_decision", AwaitDecision(s, row)), a)
  <1> DEFINE t == AwaitDecision(s, row)
             n == NextNode("await_decision", t)
  <1>1. row.status \in {"pending", "approved", "rejected"}
    BY DEF ReviewRow
  <1>2. /\ t.sql_attempts = s.sql_attempts
        /\ t.execution_result = s.execution_result
        /\ t.review_id = s.review_id
    BY <1>1 DEF AwaitDecision, AgentState
  <1>3. s.execution_result = NoSql /\ s.decision # "rejected"
    BY DEF RunOK, ExecutionOK, DecisionOK, BeforeExecution
  <1>4. CASE row.status = "pending"
    <2>1. t.status = "escalated" /\ t.decision = s.decision /\ n = "END"
      BY <1>4 DEF AwaitDecision, AgentState, NextNode, RouteAfterDecision
    <2> HIDE DEF t, n
    <2>2. AttemptsOK(t, n)
      BY <1>2, <2>1 DEF RunOK, AttemptsOK
    <2>3. QED
      BY <1>2, <1>3, <2>1, <2>2
         DEF RunOK, ExecutionOK, DecisionOK, OutcomeOK, t, n
  <1>5. CASE row.status = "approved"
    <2>1. /\ t.status = "reviewed" /\ t.decision = "approved"
          /\ t.final_sql = row.decision_sql /\ n = "sql_executor"
      BY <1>5 DEF AwaitDecision, AgentState, NextNode, RouteAfterDecision
    <2> HIDE DEF t, n
    <2>2. AttemptsOK(t, n)
      BY <1>2, <2>1 DEF RunOK, AttemptsOK
    <2>3. Approved(t, t.final_sql, a)
      BY <1>2, <1>5, <2>1 DEF Approved
    <2>4. QED
      BY <1>2, <1>3, <2>1, <2>2, <2>3
         DEF RunOK, ExecutionOK, DecisionOK, OutcomeOK, t, n
  <1>6. CASE row.status = "rejected"
    <2>1. /\ t.status = "failed" /\ t.decision = "rejected"
          /\ t.final_answer = "refusal" /\ n = "END"
      BY <1>6 DEF AwaitDecision, AgentState, NextNode, RouteAfterDecision
    <2> HIDE DEF t, n
    <2>2. AttemptsOK(t, n)
      BY <1>2, <2>1 DEF RunOK, AttemptsOK
    <2>3. QED
      BY <1>2, <1>3, <2>1, <2>2
         DEF RunOK, ExecutionOK, DecisionOK, OutcomeOK, t, n
  <1>7. QED
    BY <1>1, <1>4, <1>5, <1>6

\* sql_executor runs final_sql, which is vetted by the time it is reached.
LEMMA SqlExecutorKeeps ==
  ASSUME NEW s \in AgentState, NEW a, RunOK(s, "sql_executor", a),
         s.final_sql.stmt # EmptyStmt
  PROVE  RunOK(SqlExecutor(s), NextNode("sql_executor", SqlExecutor(s)), a)
  <1> DEFINE t == SqlExecutor(s)
  <1>1. /\ t.sql_attempts = s.sql_attempts
        /\ t.execution_result = s.final_sql
        /\ t.review_id = s.review_id /\ t.decision = s.decision
        /\ t.status = s.status /\ t.masked = s.masked
        /\ t.error_detail = s.error_detail
    BY DEF SqlExecutor, AgentState
  <1>2. NextNode("sql_executor", t) = "response_formatter"
    BY DEF NextNode
  <1>3. s.final_sql # NoSql
    BY DEF NoSql, Raw
  <1> HIDE DEF t
  <1>4. AttemptsOK(t, "response_formatter")
    BY <1>1 DEF RunOK, AttemptsOK
  <1>5. ExecutionOK(t, "response_formatter", a)
    <2>1. \/ Validated(t, t.execution_result)
          \/ Approved(t, t.execution_result, a)
      BY <1>1 DEF RunOK, ExecutionOK, Validated, Approved, LastAttempt
    <2>2. QED
      BY <2>1 DEF ExecutionOK, BeforeExecution
  <1>6. DecisionOK(t, "response_formatter")
    BY <1>1 DEF RunOK, DecisionOK
  <1>7. OutcomeOK(t, "response_formatter")
    BY <1>1, <1>3 DEF RunOK, OutcomeOK
  <1>8. QED
    BY <1>2, <1>4, <1>5, <1>6, <1>7 DEF RunOK, t

\* response_formatter turns "none" into "success" only with rows at hand.
LEMMA ResponseFormatterKeeps ==
  ASSUME NEW s \in AgentState, NEW leak \in BOOLEAN, NEW a,
         RunOK(s, "response_formatter", a)
  PROVE  RunOK(ResponseFormatter(s, leak),
               NextNode("response_formatter", ResponseFormatter(s, leak)), a)
  <1> DEFINE t == ResponseFormatter(s, leak)
  <1>1. /\ t.sql_attempts = s.sql_attempts
        /\ t.execution_result = s.execution_result
        /\ t.review_id = s.review_id /\ t.decision = s.decision
        /\ t.masked = s.masked
    BY DEF ResponseFormatter, AgentState
  <1>2. \/ t.status = "failed"
        \/ /\ ~ leak
           /\ t.status = IF s.status = "none" THEN "success" ELSE s.status
           /\ t.error_detail = s.error_detail
           /\ t.final_answer = IF s.execution_result = NoSql
                               THEN "from_nothing" ELSE "from_rows"
    BY DEF ResponseFormatter, AgentState
  <1>3. NextNode("response_formatter", t) = "critic"
    BY DEF NextNode
  <1> HIDE DEF t
  <1>4. AttemptsOK(t, "critic") /\ ExecutionOK(t, "critic", a)
        /\ DecisionOK(t, "critic")
    BY <1>1 DEF RunOK, AttemptsOK, ExecutionOK, DecisionOK, BeforeExecution,
                Validated, Approved, LastAttempt
  <1>5. OutcomeOK(t, "critic")
    <2>1. s.status # "success"
      BY DEF RunOK, OutcomeOK
    <2>2. t.status # "none"
      BY <1>2
    <2>3. ASSUME t.status = "success"
          PROVE  /\ t.masked /\ t.error_detail = "none"
                 /\ Validated(t, t.execution_result)
                 /\ t.final_answer = "from_rows"
      <3>1. s.status = "none"
        BY <1>2, <2>1, <2>3
      <3>2. /\ s.decision = "none" /\ s.error_detail = "none" /\ s.masked
            /\ s.execution_result # NoSql
        BY <3>1 DEF RunOK, OutcomeOK
      <3>3. Validated(s, s.execution_result)
        BY <3>2 DEF RunOK, ExecutionOK, Approved
      <3>4. QED
        BY <1>1, <1>2, <2>3, <3>2, <3>3 DEF Validated, LastAttempt
    <2>4. QED
      BY <2>2, <2>3 DEF OutcomeOK
  <1>6. QED
    BY <1>3, <1>4, <1>5 DEF RunOK, t

\* critic may leave its feedback and nothing else.
LEMMA CriticKeeps ==
  ASSUME NEW s \in AgentState, NEW a, RunOK(s, "critic", a)
  PROVE  /\ RunOK(s, NextNode("critic", s), a)
         /\ RunOK(Criticise(s), NextNode("critic", Criticise(s)), a)
  <1>1. NextNode("critic", s) = "END" /\ NextNode("critic", Criticise(s)) = "END"
    BY DEF NextNode
  <1>2. RunOK(s, "END", a)
    BY DEF RunOK, AttemptsOK, ExecutionOK, DecisionOK, OutcomeOK,
           BeforeExecution
  <1> DEFINE t == Criticise(s)
  <1>3. /\ t.sql_attempts = s.sql_attempts
        /\ t.execution_result = s.execution_result
        /\ t.review_id = s.review_id /\ t.decision = s.decision
        /\ t.status = s.status /\ t.masked = s.masked
        /\ t.error_detail = s.error_detail /\ t.final_answer = s.final_answer
    BY DEF Criticise, AgentState
  <1> HIDE DEF t
  <1>4. RunOK(t, "END", a)
    BY <1>2, <1>3 DEF RunOK, AttemptsOK, ExecutionOK, DecisionOK, OutcomeOK,
                      BeforeExecution, Validated, Approved, LastAttempt
  <1>5. QED
    BY <1>1, <1>2, <1>4 DEF t

\* A permanent failure writes status and error_detail and takes the ordinary
\* edge: it never opens the way to sql_executor.
LEMMA FailPermanentlyKeeps ==
  ASSUME NEW s \in AgentState, NEW n \in Nodes, NEW a, RunOK(s, n, a),
         NextNode(n, FailPermanently(s, n)) # "raise"
  PROVE  RunOK(FailPermanently(s, n), NextNode(n, FailPermanently(s, n)), a)
  <1> DEFINE t == FailPermanently(s, n)
             m == NextNode(n, t)
  <1>1. /\ t.sql_attempts = s.sql_attempts
        /\ t.final_sql = s.final_sql
        /\ t.execution_result = s.execution_result
        /\ t.review_id = s.review_id /\ t.decision = s.decision
        /\ t.status = "error" /\ t.final_answer = s.final_answer
    BY DEF FailPermanently, AgentState
  <1>2. s.sql_attempts \in Seq(Attempt)
    BY DEF AgentState
  <1>3. CASE n = "sql_validator"
    <2>1. /\ Len(s.sql_attempts) <= MaxRegenerationAttempts
          /\ \A i \in 1 .. Len(s.sql_attempts) : ~ s.sql_attempts[i].valid
      BY <1>3 DEF RunOK, AttemptsOK
    <2>2. m = RouteAfterValidation(t) /\ m # "raise"
      BY <1>3 DEF NextNode
    <2> HIDE DEF t
    <2>3. t.sql_attempts # <<>>
      BY <2>2 DEF RouteAfterValidation
    <2>4. ~ LastAttempt(t).valid
      BY <1>1, <1>2, <2>1, <2>3 DEF LastAttempt
    <2>5. m = "sql_generator"
      BY <1>1, <2>1, <2>2, <2>3, <2>4 DEF RouteAfterValidation
    <2> HIDE DEF m
    <2>6. AttemptsOK(t, m)
      BY <1>1, <1>3, <2>5 DEF RunOK, AttemptsOK
    <2>7. ExecutionOK(t, m, a)
      BY <1>1, <1>3, <2>5 DEF RunOK, ExecutionOK, BeforeExecution
    <2>8. DecisionOK(t, m) /\ OutcomeOK(t, m)
      BY <1>1, <1>3 DEF RunOK, DecisionOK, OutcomeOK
    <2>9. QED
      BY <2>6, <2>7, <2>8 DEF RunOK, t, m
  <1>4. CASE n # "sql_validator"
    <2>1. /\ n = "input_guard" => m = "schema_retriever"
          /\ n = "schema_retriever" => m = "sql_generator"
          /\ n = "sql_generator" => m = "sql_validator"
          /\ n = "enqueue_review" => m = "await_decision"
          /\ n = "await_decision" => m = "END"
          /\ n = "sql_executor" => m = "response_formatter"
          /\ n = "response_formatter" => m = "critic"
          /\ n = "critic" => m = "END"
      BY <1>1 DEF NextNode, RouteAfterInputGuard, RouteAfterDecision
    <2> HIDE DEF t, m
    <2>2. n \in Nodes \ {"sql_validator"}
      BY <1>4
    <2>3. AttemptsOK(t, m)
      <3>1. s.sql_attempts = <<>> => Len(s.sql_attempts) = 0
        OBVIOUS
      <3>2. QED
        BY <1>1, <1>2, <2>1, <2>2, <3>1, CapAssumption
           DEF RunOK, AttemptsOK, Nodes
    <2>4. ExecutionOK(t, m, a)
      BY <1>1, <2>1, <2>2 DEF RunOK, ExecutionOK, BeforeExecution, Nodes,
                              Validated, Approved, LastAttempt
    <2>5. DecisionOK(t, m) /\ OutcomeOK(t, m)
      BY <1>1, <2>2 DEF RunOK, DecisionOK, OutcomeOK, Nodes
    <2>6. QED
      BY <2>3, <2>4, <2>5 DEF RunOK, t, m
  <1>5. QED
    BY <1>3, <1>4

---------------------------------------------------------------------------
(* The inductive invariant.                                                *)

\* A superstep on a run keeps every run well formed, when the node's result
\* is well formed for the node that follows.
LEMMA SuperstepKeeps ==
  ASSUME IInv, NEW r \in Runs, NEW n \in Nodes, NEW s, Superstep(r, n, s),
         NextNode(n, s) # "raise" => RunOK(s, NextNode(n, s), approvals)
  PROVE  \A q \in Runs : RunOK(state'[q], next'[q], approvals)
  <1>1. CASE NextNode(n, s) = "raise"
    BY <1>1 DEF Superstep, IInv
  <1>2. CASE NextNode(n, s) # "raise"
    <2>1. /\ state' = [state EXCEPT ![r] = s]
          /\ next' = [next EXCEPT ![r] = NextNode(n, s)]
      BY <1>2 DEF Superstep
    <2>2. state \in [Runs -> AgentState] /\ next \in [Runs -> Nodes \cup {"END"}]
      BY DEF IInv, TypeOK
    <2>3. RunOK(state'[r], next'[r], approvals)
      BY <1>2, <2>1, <2>2
    <2>4. \A q \in Runs \ {r} : state'[q] = state[q] /\ next'[q] = next[q]
      BY <2>1, <2>2
    <2>5. QED
      BY <2>3, <2>4 DEF IInv
  <1>3. QED
    BY <1>1, <1>2

\* A new row is pending: it adds nothing to what was approved.
LEMMA EnqueueKeepsQueue ==
  ASSUME TypeOK, QueueOK, NEW r \in Runs, NEW a \in Seq(Attempt),
         queue' = Enqueue(queue, r, a), approvals' = approvals
  PROVE  QueueOK'
  <1> DEFINE row == [trace |-> r, sql_attempts |-> a, status |-> "pending",
                     decision_sql |-> NoSql]
  <1>1. queue \in Seq(ReviewRow) /\ row \in ReviewRow /\ row.status = "pending"
    BY NoSqlType DEF TypeOK, ReviewRow
  <1>2. queue' = Append(queue, row)
    BY DEF Enqueue
  <1> HIDE DEF row
  <1>3. /\ Len(queue') = Len(queue) + 1
        /\ queue' \in Seq(ReviewRow)
        /\ \A id \in 1 .. Len(queue) : queue'[id] = queue[id]
        /\ queue'[Len(queue) + 1] = row
    BY <1>1, <1>2, AppendProperties
  <1>4. SUFFICES ASSUME NEW id \in DOMAIN queue',
                        queue'[id].status = "approved"
                 PROVE  [id |-> id, sql |-> queue'[id].decision_sql] \in approvals
    BY DEF QueueOK
  <1>5. id \in 1 .. Len(queue) + 1 /\ Len(queue) \in Nat
    BY <1>1, <1>3
  <1>6. id # Len(queue) + 1
    BY <1>1, <1>3, <1>4
  <1>7. id \in DOMAIN queue /\ queue'[id] = queue[id]
    BY <1>1, <1>3, <1>5, <1>6
  <1>8. QED
    BY <1>4, <1>7 DEF QueueOK

\* A decision that approves a row records the approval.
LEMMA DecideKeepsQueue ==
  ASSUME TypeOK, QueueOK, NEW id \in Nat, NEW ok \in BOOLEAN, NEW sql \in Sql,
         DecideRow(id, ok, sql)
  PROVE  QueueOK' /\ approvals \subseteq approvals'
  <1>1. /\ queue' = Decide(queue, id, ok, sql)
        /\ approvals' = IF ok THEN approvals \cup {[id |-> id, sql |-> sql]}
                              ELSE approvals
    BY DEF DecideRow
  <1>2. queue \in Seq(ReviewRow)
    BY DEF TypeOK
  <1>3. /\ DOMAIN queue' = DOMAIN queue
        /\ \A q \in DOMAIN queue \ {id} : queue'[q] = queue[q]
    BY <1>1, <1>2 DEF Decide
  <1>4. id \in DOMAIN queue =>
          /\ queue'[id].status = IF ok THEN "approved" ELSE "rejected"
          /\ queue'[id].decision_sql = sql
    <2>1. id \in DOMAIN queue => queue[id] \in ReviewRow
      BY <1>2
    <2>2. QED
      BY <1>1, <1>2, <2>1 DEF Decide, ReviewRow
  <1>5. QED
    BY <1>1, <1>3, <1>4 DEF QueueOK

\* A step that leaves every run's state and next node alone.
LEMMA RunsUntouched ==
  ASSUME IInv, UNCHANGED <<state, next>>, approvals \subseteq approvals'
  PROVE  \A q \in Runs : RunOK(state'[q], next'[q], approvals')
  BY ApprovalsGrow DEF IInv

\* A fresh thread has made no attempt, run nothing and decided nothing.
LEMMA InvariantInit == Init => IInv
  <1>1. SUFFICES ASSUME Init PROVE IInv
    OBVIOUS
  <1>2. QueueOK
    BY <1>1 DEF Init, QueueOK
  <1>3. ASSUME NEW r \in Runs PROVE RunOK(state[r], next[r], approvals)
    <2>1. state[r] = InitialState /\ next[r] = "input_guard"
      BY <1>1 DEF Init
    <2>2. InitialState.sql_attempts = <<>> /\ Len(<<>>) = 0
      BY DEF InitialState
    <2>3. AttemptsOK(InitialState, "input_guard")
      BY <2>2, CapAssumption DEF AttemptsOK
    <2>4. QED
      BY <2>1, <2>3 DEF RunOK, ExecutionOK, DecisionOK, OutcomeOK, InitialState
  <1>4. QED
    BY <1>1, <1>2, <1>3, TypeInit DEF IInv

\* Every step keeps the invariant.
LEMMA InvariantStep == IInv /\ [Next]_vars => IInv'
  <1> SUFFICES ASSUME IInv, [Next]_vars PROVE IInv'
    OBVIOUS
  <1> DEFINE RunsOK == \A q \in Runs : RunOK(state[q], next[q], approvals)
  <1> USE DEF NodeFrame, reviewVars, graphVars, callVars, chatVars, uiVars
  <1>a. TypeOK /\ RunsOK /\ QueueOK /\ TypeOK'
    BY TypeStep DEF IInv
  <1>b. UNCHANGED <<queue, approvals>> => QueueOK'
    BY <1>a DEF QueueOK
  <1> SUFFICES RunsOK' /\ QueueOK'
    BY <1>a DEF IInv
  <1>c. UNCHANGED <<state, next>> /\ approvals \subseteq approvals' => RunsOK'
    BY RunsUntouched
  <1> HIDE DEF RunsOK
  <1>1. ASSUME NEW r \in Runs, NodeStep(r) PROVE RunsOK' /\ QueueOK'
    <2>0. state[r] \in AgentState
      BY <1>a DEF TypeOK
    <2>a. ASSUME NEW n \in Nodes, NEW s, Running(r, n), Superstep(r, n, s),
                 UNCHANGED approvals,
                 NextNode(n, s) # "raise" =>
                     RunOK(s, NextNode(n, s), approvals)
          PROVE  RunsOK'
      BY <2>a, SuperstepKeeps DEF RunsOK
    <2>b. \A n : Running(r, n) => RunOK(state[r], n, approvals)
      BY <1>a DEF Running, RunsOK
    <2>1. CASE InputGuard(r)
      <3>1. PICK s \in {RefuseInput(state[r]), AcceptInput(state[r])} :
              Superstep(r, "input_guard", s)
        BY <2>1 DEF InputGuard
      <3>2. RunOK(state[r], "input_guard", approvals)
        BY <2>1, <2>b DEF InputGuard
      <3>3. RunOK(s, NextNode("input_guard", s), approvals)
        BY <2>0, <3>1, <3>2, InputGuardKeeps
      <3>4. QED
        BY <2>1, <2>a, <3>1, <3>3, <1>b DEF InputGuard, Nodes
    <2>2. CASE SchemaRetriever(r)
      <3>1. RunOK(state[r], NextNode("schema_retriever", state[r]), approvals)
        BY <2>0, <2>2, <2>b, SchemaRetrieverKeeps DEF SchemaRetriever
      <3>2. QED
        BY <2>2, <2>a, <3>1, <1>b DEF SchemaRetriever, Nodes
    <2>3. CASE GenerateSql(r)
      <3>1. PICK stmt \in Stmts :
              Superstep(r, "sql_generator", SqlGenerator(state[r], stmt))
        BY <2>3 DEF GenerateSql
      <3>2. RunOK(state[r], "sql_generator", approvals)
        BY <2>3, <2>b DEF GenerateSql
      <3>3. RunOK(SqlGenerator(state[r], stmt),
                  NextNode("sql_generator", SqlGenerator(state[r], stmt)),
                  approvals)
        BY <2>0, <3>2, SqlGeneratorKeeps
      <3>4. QED
        BY <2>3, <2>a, <3>1, <3>3, <1>b DEF GenerateSql, Nodes
    <2>4. CASE ValidateSql(r)
      <3>1. RunOK(SqlValidator(state[r]),
                  NextNode("sql_validator", SqlValidator(state[r])), approvals)
        BY <2>0, <2>4, <2>b, SqlValidatorKeeps DEF ValidateSql
      <3>2. QED
        BY <2>4, <2>a, <3>1, <1>b DEF ValidateSql, Nodes
    <2>5. CASE EnqueueForReview(r)
      <3>1. Len(queue') \in Nat
        BY <1>a DEF TypeOK
      <3>2. RunOK(EnqueueReview(state[r], Len(queue')),
                  NextNode("enqueue_review",
                           EnqueueReview(state[r], Len(queue'))), approvals)
        BY <2>0, <2>5, <2>b, <3>1, EnqueueReviewKeeps DEF EnqueueForReview
      <3>3. RunsOK'
        BY <2>5, <2>a, <3>2 DEF EnqueueForReview, Nodes
      <3>4. QueueOK'
        BY <2>0, <2>5, <1>a, EnqueueKeepsQueue DEF EnqueueForReview, AgentState
      <3>5. QED
        BY <3>3, <3>4
    <2>6. CASE ReadDecision(r)
      <3> DEFINE row == queue[state[r].review_id]
      <3>1. row \in ReviewRow /\ state[r].review_id \in DOMAIN queue
        BY <2>6, <1>a DEF ReadDecision, TypeOK
      <3>2. row.status = "approved" =>
              [id |-> state[r].review_id, sql |-> row.decision_sql] \in approvals
        BY <3>1, <1>a DEF QueueOK
      <3>3. RunOK(state[r], "await_decision", approvals)
        BY <2>6, <2>b DEF ReadDecision
      <3>4. Superstep(r, "await_decision", AwaitDecision(state[r], row))
        BY <2>6 DEF ReadDecision
      <3> HIDE DEF row
      <3>5. RunOK(AwaitDecision(state[r], row),
                  NextNode("await_decision", AwaitDecision(state[r], row)),
                  approvals)
        BY <2>0, <3>1, <3>2, <3>3, AwaitDecisionKeeps
      <3>6. QED
        BY <2>6, <2>a, <3>4, <3>5, <1>b DEF ReadDecision, Nodes
    <2>7. CASE ExecuteSql(r)
      <3>1. RunOK(SqlExecutor(state[r]),
                  NextNode("sql_executor", SqlExecutor(state[r])), approvals)
        BY <2>0, <2>7, <2>b, SqlExecutorKeeps DEF ExecuteSql
      <3>2. QED
        BY <2>7, <2>a, <3>1, <1>b DEF ExecuteSql, Nodes
    <2>8. CASE FormatResponse(r)
      <3>1. PICK leak \in BOOLEAN :
              Superstep(r, "response_formatter",
                        ResponseFormatter(state[r], leak))
        BY <2>8 DEF FormatResponse
      <3>2. RunOK(state[r], "response_formatter", approvals)
        BY <2>8, <2>b DEF FormatResponse
      <3>3. RunOK(ResponseFormatter(state[r], leak),
                  NextNode("response_formatter",
                           ResponseFormatter(state[r], leak)), approvals)
        BY <2>0, <3>2, ResponseFormatterKeeps
      <3>4. QED
        BY <2>8, <2>a, <3>1, <3>3, <1>b DEF FormatResponse, Nodes
    <2>9. CASE Critic(r)
      <3>1. PICK s \in {state[r], Criticise(state[r])} :
              Superstep(r, "critic", s)
        BY <2>9 DEF Critic
      <3>2. RunOK(s, NextNode("critic", s), approvals)
        BY <2>0, <2>9, <2>b, <3>1, CriticKeeps DEF Critic
      <3>3. QED
        BY <2>9, <2>a, <3>1, <3>2, <1>b DEF Critic, Nodes
    <2>10. CASE NodeFails(r)
      <3>1. PICK n \in Nodes : /\ Running(r, n)
                               /\ Superstep(r, n, FailPermanently(state[r], n))
        BY <2>10 DEF NodeFails
      <3>2. RunOK(state[r], n, approvals)
        BY <2>b, <3>1
      <3>3. NextNode(n, FailPermanently(state[r], n)) # "raise" =>
              RunOK(FailPermanently(state[r], n),
                    NextNode(n, FailPermanently(state[r], n)), approvals)
        BY <2>0, <3>2, FailPermanentlyKeeps
      <3>4. UNCHANGED <<queue, approvals>>
        BY <2>10 DEF NodeFails
      <3>5. QED
        BY <2>a, <3>1, <3>3, <3>4, <1>b
    <2>11. CASE OutOfSteps(r)
      BY <2>11, <1>b, <1>c DEF OutOfSteps
    <2>12. QED
      BY <1>1, <2>1, <2>2, <2>3, <2>4, <2>5, <2>6, <2>7, <2>8, <2>9, <2>10,
         <2>11 DEF NodeStep
  <1>2. ASSUME NEW r \in Runs,
               \/ RunQuery(r) \/ RunNewQuery(r) \/ ResumeReview(r)
               \/ WidgetClick(r) \/ WidgetResume(r) \/ AppendMessage(r)
               \/ RerunDuringTurn(r) \/ NewChat(r) \/ CrashAfterGenerate(r)
        PROVE  RunsOK' /\ QueueOK'
    <2>1. UNCHANGED <<state, next, queue, approvals>>
      BY <1>2 DEF RunQuery, RunNewQuery, Start, ResumeReview, WidgetClick,
                  WidgetResume, Resume, AppendMessage, RerunDuringTurn, NewChat,
                  CrashAfterGenerate, ProcessDies
    <2>2. QED
      BY <2>1, <1>b, <1>c
  <1>3. ASSUME UNCHANGED <<state, next>>, NEW id \in Nat, NEW ok \in BOOLEAN,
               NEW sql \in Sql, DecideRow(id, ok, sql)
        PROVE  RunsOK' /\ QueueOK'
    BY <1>3, <1>a, <1>c, DecideKeepsQueue
  <1>4. \A stmt \in Corrections : Raw(stmt) \in Sql
    BY BoundAssumption DEF Raw, Sql
  <1>5. ASSUME NEW r \in Runs, WidgetDecide(r) PROVE RunsOK' /\ QueueOK'
    <2>1. state[r].review_id \in Nat
      BY <1>a DEF TypeOK, AgentState
    <2>2. ASSUME NEW id \in DOMAIN queue PROVE LatestFailedSql(queue[id]) \in Sql
      <3>1. queue[id] \in ReviewRow
        BY <1>a, ElementOfSeq DEF TypeOK
      <3>2. QED
        BY <3>1, LatestFailedSqlType
    <2>3. QED
      BY <1>5, <1>3, <1>4, <2>1, <2>2, NoSqlType DEF WidgetDecide
  <1>6. ASSUME NEW id \in DOMAIN queue, CliApprove(id) \/ CliReject(id)
        PROVE  RunsOK' /\ QueueOK'
    <2>1. id \in Nat /\ queue[id] \in ReviewRow
      BY <1>a, ElementOfSeq DEF TypeOK
    <2>2. LatestFailedSql(queue[id]) \in Sql
      BY <2>1, LatestFailedSqlType
    <2>3. QED
      BY <1>6, <1>3, <1>4, <2>1, <2>2, NoSqlType DEF CliApprove, CliReject
  <1>7. ASSUME NEW r \in Runs, CrashAfterEnqueue(r) PROVE RunsOK' /\ QueueOK'
    <2>1. UNCHANGED <<state, next, approvals>>
      BY <1>7 DEF CrashAfterEnqueue, ProcessDies
    <2>2. state[r].sql_attempts \in Seq(Attempt)
      BY <1>a DEF TypeOK, AgentState
    <2>3. QueueOK'
      BY <1>7, <1>a, <2>1, <2>2, EnqueueKeepsQueue DEF CrashAfterEnqueue
    <2>4. QED
      BY <2>1, <2>3, <1>c
  <1>8. CASE Crash
    BY <1>8, <1>b, <1>c DEF Crash, ProcessDies
  <1>9. CASE UNCHANGED vars
    BY <1>9, <1>b, <1>c DEF vars
  <1>10. QED
    BY <1>1, <1>2, <1>5, <1>6, <1>7, <1>8, <1>9 DEF Next

\* The invariant holds of every reachable state.
LEMMA Invariance == Spec => []IInv
  BY InvariantInit, InvariantStep, PTL DEF Spec

---------------------------------------------------------------------------
(* What the invariant gives.                                               *)

\* However nodes fail and reviewers decide, at most the first attempt and
\* MaxRegenerationAttempts more are ever recorded, and none after a passed one.
THEOREM AttemptsAreCapped == Spec => []AttemptsCapped
  <1>1. IInv => AttemptsCapped
    BY DEF IInv, RunOK, AttemptsOK, AttemptsCapped
  <1>2. QED
    BY <1>1, Invariance, PTL

\* Whatever sql_executor ran was passed and limited by the validator or was
\* approved, word for word, by a reviewer of the run's own row.
THEOREM ExecutionIsVetted == Spec => []ExecutedIsVetted
  <1>1. IInv => ExecutedIsVetted
    BY DEF IInv, RunOK, ExecutionOK, ExecutedIsVetted, Validated, Approved
  <1>2. QED
    BY <1>1, Invariance, PTL

\* "success" is never reported for a run that skipped the mask, ran no
\* validated SQL, answered without rows or lost a node on the way.
THEOREM SuccessMeansSuccess == Spec => []SuccessIsEarned
  <1>1. IInv => SuccessIsEarned
    BY DEF IInv, RunOK, OutcomeOK, SuccessIsEarned, Validated
  <1>2. QED
    BY <1>1, Invariance, PTL

\* A rejected run never shows rows, whatever is decided or resumed later.
THEOREM RejectionIsFinal == Spec => []RejectedRunsNothing
  <1>1. IInv => RejectedRunsNothing
    BY DEF IInv, RunOK, DecisionOK, RejectedRunsNothing
  <1>2. QED
    BY <1>1, Invariance, PTL
===========================================================================
