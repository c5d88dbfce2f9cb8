------------------------- MODULE InvocationProofs -------------------------
(***************************************************************************)
(* How an invocation of the graph may end, that an ended run stays as it   *)
(* is, what the review queue holds of each run and how often a run may     *)
(* regenerate.  All rest on one fact: a node step of a run is a superstep  *)
(* of the node its checkpoint names, or the recursion limit.               *)
(***************************************************************************)
EXTENDS QueryGraphProofs, FiniteSetTheorems

\* What a superstep of run r does: node n, the checkpoint's next, returns s.
\* The validator leaves no attempt behind only if there was none before.
SuperstepOf(r, n, s) ==
    /\ Running(r, n)
    /\ Superstep(r, n, s)
    /\ n = "sql_validator" /\ s.sql_attempts = <<>> =>
           state[r].sql_attempts = <<>>

LEMMA NodeStepIsSuperstep ==
  ASSUME TypeOK, NEW r \in Runs, NodeStep(r)
  PROVE  \/ \E n \in Nodes, s \in AgentState : SuperstepOf(r, n, s)
         \/ OutOfSteps(r)
  <1>0. state[r] \in AgentState
    BY DEF TypeOK
  <1>a. ASSUME NEW n \in Nodes, n # "sql_validator", NEW s \in AgentState,
               Running(r, n), Superstep(r, n, s)
        PROVE  \E m \in Nodes, u \in AgentState : SuperstepOf(r, m, u)
    BY <1>a DEF SuperstepOf
  <1>1. CASE InputGuard(r)
    BY <1>1, <1>0, <1>a, NodeTypes DEF InputGuard, Nodes
  <1>2. CASE SchemaRetriever(r)
    BY <1>2, <1>0, <1>a DEF SchemaRetriever, Nodes
  <1>3. CASE GenerateSql(r)
    <2>1. PICK stmt \in Stmts :
            Superstep(r, "sql_generator", SqlGenerator(state[r], stmt))
      BY <1>3 DEF GenerateSql
    <2>2. SqlGenerator(state[r], stmt) \in AgentState
          /\ Running(r, "sql_generator") /\ "sql_generator" \in Nodes
      BY <1>0, <1>3, NodeTypes DEF GenerateSql, Nodes
    <2>3. QED
      BY <2>1, <2>2, <1>a
  <1>4. CASE ValidateSql(r)
    <2> DEFINE s == SqlValidator(state[r])
    <2>1. s \in AgentState /\ "sql_validator" \in Nodes
      BY <1>0, NodeTypes DEF Nodes
    <2>2. s.sql_attempts # <<>>
      <3>1. state[r].sql_attempts \in Seq(Attempt)
        BY <1>0 DEF AgentState
      <3>2. \A e : Append(state[r].sql_attempts, e) # <<>>
        BY <3>1
      <3>3. \E e : s.sql_attempts = Append(state[r].sql_attempts, e)
        BY <1>0 DEF SqlValidator, AgentState
      <3>4. QED
        BY <3>2, <3>3
    <2> HIDE DEF s
    <2>3. Running(r, "sql_validator") /\ Superstep(r, "sql_validator", s)
      BY <1>4 DEF ValidateSql, s
    <2>4. SuperstepOf(r, "sql_validator", s)
      BY <2>2, <2>3 DEF SuperstepOf
    <2>5. QED
      BY <2>1, <2>4
  <1>5. CASE EnqueueForReview(r)
    <2>1. queue' \in Seq(ReviewRow)
      BY <1>5, <1>0, QueueTypes DEF EnqueueForReview, TypeOK, AgentState
    <2>2. Len(queue') \in Nat /\ "enqueue_review" \in Nodes
      BY <2>1 DEF Nodes
    <2>3. EnqueueReview(state[r], Len(queue')) \in AgentState
      BY <2>2, <1>0, NodeTypes
    <2>4. QED
      BY <1>5, <2>2, <2>3, <1>a DEF EnqueueForReview
  <1>6. CASE ReadDecision(r)
    <2>1. queue[state[r].review_id] \in ReviewRow
      BY <1>6, <1>0 DEF ReadDecision, TypeOK
    <2>2. AwaitDecision(state[r], queue[state[r].review_id]) \in AgentState
          /\ "await_decision" \in Nodes
      BY <2>1, <1>0, NodeTypes DEF Nodes, ReviewRow, IsReviewRow
    <2>3. QED
      BY <1>6, <2>2, <1>a DEF ReadDecision
  <1>7. CASE ExecuteSql(r)
    BY <1>7, <1>0, <1>a, NodeTypes DEF ExecuteSql, Nodes
  <1>8. CASE FormatResponse(r)
    BY <1>8, <1>0, <1>a, NodeTypes DEF FormatResponse, Nodes
  <1>9. CASE Critic(r)
    BY <1>9, <1>0, <1>a, NodeTypes DEF Critic, Nodes
  <1>10. CASE NodeFails(r)
    <2>1. PICK n \in Nodes : /\ Running(r, n)
                             /\ Superstep(r, n, FailPermanently(state[r], n))
      BY <1>10 DEF NodeFails
    <2>2. FailPermanently(state[r], n) \in AgentState
      BY <1>0, NodeTypes
    <2>3. FailPermanently(state[r], n).sql_attempts = state[r].sql_attempts
      BY <1>0 DEF FailPermanently, AgentState
    <2>4. SuperstepOf(r, n, FailPermanently(state[r], n))
      BY <2>1, <2>3 DEF SuperstepOf
    <2>5. QED
      BY <2>2, <2>4
  <1>11. CASE OutOfSteps(r)
    BY <1>11
  <1>12. QED
    BY <1>1, <1>2, <1>3, <1>4, <1>5, <1>6, <1>7, <1>8, <1>9, <1>10, <1>11
       DEF NodeStep

---------------------------------------------------------------------------
(* An ended run keeps its outcome.                                         *)

LEMMA EndedStays ==
  ASSUME TypeOK, [Next]_vars, NEW r \in Runs, next[r] = "END"
  PROVE  next'[r] = "END" /\ state'[r] = state[r]
  <1> USE DEF graphVars, callVars, chatVars, uiVars, reviewVars
  <1>1. CASE \E q \in Runs : NodeStep(q)
    <2>1. PICK q \in Runs : NodeStep(q)
      BY <1>1
    <2>2. CASE OutOfSteps(q)
      BY <2>2 DEF OutOfSteps
    <2>3. CASE ~ OutOfSteps(q)
      <3>1. PICK n \in Nodes, s \in AgentState : SuperstepOf(q, n, s)
        BY <2>1, <2>3, NodeStepIsSuperstep
      <3>2. q # r
        BY <3>1 DEF SuperstepOf, Running, Nodes
      <3>3. \/ UNCHANGED <<state, next>>
            \/ /\ state' = [state EXCEPT ![q] = s]
               /\ next' = [next EXCEPT ![q] = NextNode(n, s)]
        BY <3>1 DEF SuperstepOf, Superstep
      <3>4. QED
        BY <3>2, <3>3 DEF TypeOK
    <2>4. QED
      BY <2>2, <2>3
  <1>2. CASE ~ \E q \in Runs : NodeStep(q)
    <2>1. UNCHANGED <<state, next>>
      BY <1>2 DEF Next, RunQuery, RunNewQuery, Start, ResumeReview, WidgetClick,
                  WidgetDecide, WidgetResume, Resume, AppendMessage,
                  RerunDuringTurn, NewChat, CrashAfterEnqueue,
                  CrashAfterGenerate, ProcessDies, Crash, CliApprove, CliReject,
                  vars
    <2>2. QED
      BY <2>1
  <1>3. QED
    BY <1>1, <1>2

\* Neither resuming it, deciding its row again nor a crash changes what a run
\* that reached END has produced, for any number of runs and reviewers.
THEOREM OutcomesAreFinal == Spec => EndedRunsKeepTheirOutcome
  <1>1. TypeOK /\ [Next]_vars =>
            [ \A r \in Runs :
                next[r] = "END" => next'[r] = "END" /\ state'[r] = state[r] ]_vars
    BY EndedStays
  <1>2. QED
    BY TypeCorrect, <1>1, PTL DEF Spec, EndedRunsKeepTheirOutcome

---------------------------------------------------------------------------
(* Which exceptions leave the graph.                                       *)

\* Only the router after the validator raises, on an empty list of attempts.
LEMMA OnlyValidatorRouteRaises ==
  ASSUME NEW n \in Nodes, NEW s, NextNode(n, s) = "raise"
  PROVE  n = "sql_validator" /\ s.sql_attempts = <<>>
  BY DEF NextNode, Nodes, RouteAfterInputGuard, RouteAfterValidation,
         RouteAfterDecision

\* What RaisesAreExplained says of one run.
Explained(r) ==
    phase[r] = "raised" =>
        \/ next[r] = "sql_validator" /\ state[r].sql_attempts = <<>>
        \/ steps[r] >= RecursionLimit
        \/ InterruptMarker /\ next[r] = "await_decision"

\* A superstep that raises is one of the explained ones.
LEMMA SuperstepExplained ==
  ASSUME TypeOK, NEW r \in Runs, NEW n \in Nodes, NEW s \in AgentState,
         SuperstepOf(r, n, s)
  PROVE  Explained(r)'
  <1>1. CASE NextNode(n, s) = "raise"
    <2>1. n = "sql_validator" /\ s.sql_attempts = <<>>
      BY <1>1, OnlyValidatorRouteRaises
    <2>2. next[r] = "sql_validator" /\ state[r].sql_attempts = <<>>
      BY <2>1 DEF SuperstepOf, Running
    <2>3. UNCHANGED <<state, next, steps>>
      BY <1>1 DEF SuperstepOf, Superstep
    <2>4. QED
      BY <2>2, <2>3 DEF Explained
  <1>2. CASE /\ NextNode(n, s) = "await_decision" /\ caller[r] = "run_new_query"
             /\ InterruptMarker
    BY <1>2 DEF SuperstepOf, Superstep, Explained, TypeOK
  <1>3. CASE /\ NextNode(n, s) # "raise"
             /\ ~ /\ NextNode(n, s) = "await_decision"
                  /\ caller[r] = "run_new_query"
                  /\ InterruptMarker
    <2>1. Deliver(r, caller[r], s) \/ phase' = phase
      BY <1>3 DEF SuperstepOf, Superstep
    <2>2. phase[r] = "running"
      BY DEF SuperstepOf, Running
    <2>3. phase'[r] # "raised"
      BY <2>1, <2>2 DEF Deliver, TypeOK
    <2>4. QED
      BY <2>3 DEF Explained
  <1>4. QED
    BY <1>1, <1>2, <1>3

LEMMA ExplainedStep ==
  ASSUME TypeOK, RaisesAreExplained, [Next]_vars
  PROVE  RaisesAreExplained'
  <1> USE DEF graphVars, callVars, chatVars, uiVars, reviewVars
  <1> SUFFICES ASSUME NEW r \in Runs PROVE Explained(r)'
    BY DEF RaisesAreExplained, Explained
  <1>a. Explained(r)
    BY DEF RaisesAreExplained, Explained
  <1>b. ASSUME phase'[r] \in {phase[r], "running", "returned", "dropped", "lost"},
               phase'[r] = "raised" =>
                   /\ state'[r] = state[r] /\ next'[r] = next[r]
                   /\ steps'[r] = steps[r]
        PROVE  Explained(r)'
    BY <1>a, <1>b DEF Explained
  <1>1. CASE \E q \in Runs : NodeStep(q)
    <2>1. PICK q \in Runs : NodeStep(q)
      BY <1>1
    <2>2. CASE OutOfSteps(q)
      BY <2>2, <1>b DEF OutOfSteps, Raise, Explained, TypeOK
    <2>3. CASE ~ OutOfSteps(q)
      <3>1. PICK n \in Nodes, s \in AgentState : SuperstepOf(q, n, s)
        BY <2>1, <2>3, NodeStepIsSuperstep
      <3>2. CASE q = r
        BY <3>1, <3>2, SuperstepExplained
      <3>3. CASE q # r
        <4>1. phase'[r] = phase[r]
          BY <3>1, <3>3 DEF SuperstepOf, Superstep, Raise, Deliver, TypeOK
        <4>2. /\ state'[r] = state[r] /\ next'[r] = next[r]
              /\ steps'[r] = steps[r]
          BY <3>1, <3>3 DEF SuperstepOf, Superstep, TypeOK
        <4>3. QED
          BY <1>b, <4>1, <4>2
      <3>4. QED
        BY <3>2, <3>3
    <2>4. QED
      BY <2>2, <2>3
  <1>2. ASSUME NEW q \in Runs, NEW c, Start(q, c) PROVE Explained(r)'
    BY <1>2, <1>b DEF Start, TypeOK
  <1>3. ASSUME NEW q \in Runs, NEW c, Resume(q, c) PROVE Explained(r)'
    <2>1. phase'[r] \in {phase[r], "running", "returned"}
          /\ state' = state /\ next' = next
          /\ (q # r => steps'[r] = steps[r])
          /\ (q = r => phase'[r] # "raised")
      BY <1>3 DEF Resume, Deliver, TypeOK
    <2>2. QED
      BY <2>1, <1>b
  <1>4. ASSUME NEW q \in Runs, RerunDuringTurn(q) PROVE Explained(r)'
    BY <1>4, <1>b DEF RerunDuringTurn, TypeOK
  <1>5. ASSUME ProcessDies PROVE Explained(r)'
    <2>1. phase'[r] \in {phase[r], "dropped", "lost"}
          /\ UNCHANGED <<state, next, steps>>
      BY <1>5 DEF ProcessDies, TypeOK
    <2>2. QED
      BY <2>1, <1>b
  <1>6. CASE UNCHANGED <<state, next, steps, phase>>
    BY <1>6, <1>b
  <1>7. CASE ~ (\E q \in Runs : NodeStep(q)) /\ ~ UNCHANGED <<state, next, steps, phase>>
    BY <1>2, <1>3, <1>4, <1>5, <1>7
       DEF Next, RunQuery, RunNewQuery, ResumeReview, WidgetClick, WidgetDecide,
           WidgetResume, AppendMessage, NewChat, CrashAfterEnqueue,
           CrashAfterGenerate, Crash, CliApprove, CliReject, vars
  <1>8. QED
    BY <1>1, <1>6, <1>7

\* However nodes fail, an exception leaves invoke or stream in three known
\* situations only; everything else ends as a status on the state.
THEOREM ExceptionsAreExplained == Spec => []RaisesAreExplained
  <1>1. Init => RaisesAreExplained
    BY DEF Init, RaisesAreExplained
  <1>2. QED
    BY TypeCorrect, <1>1, ExplainedStep, PTL DEF Spec

---------------------------------------------------------------------------
(* The review queue and the count of generations.                          *)

\* What any result t of node n, a permanent failure included, has from s.
Carries(n, s, t) ==
    /\ n # "enqueue_review" => t.review_id = s.review_id
    /\ n # "sql_validator" => t.sql_attempts = s.sql_attempts
    /\ n = "sql_validator" /\ t.error_detail = "none" =>
           Len(t.sql_attempts) = Len(s.sql_attempts) + 1
    /\ t.error_detail = "none" => s.error_detail = "none"
    /\ t.status = "escalated" =>
           \/ s.status = "escalated" /\ n # "enqueue_review"
           \/ n = "enqueue_review" /\ t.review_id # 0
           \/ n = "await_decision" /\ s.review_id # 0
    /\ n = "await_decision" /\ s.review_id = 0 => t.status = "error"

\* The superstep of node n of run r that leaves state t.
Moves(r, n, t) ==
    /\ Running(r, n) /\ Superstep(r, n, t)
    /\ state' = [state EXCEPT ![r] = t]
    /\ next' = [next EXCEPT ![r] = NextNode(n, t)]
    /\ IF n = "sql_generator" THEN CountGeneration(r) ELSE UNCHANGED generations
    /\ \/ queue' = queue /\ (n = "enqueue_review" =>
                                t = FailPermanently(state[r], n))
       \/ /\ n = "enqueue_review"
          /\ queue' = Enqueue(queue, r, state[r].sql_attempts)
          /\ t = EnqueueReview(state[r], Len(queue'))

\* The node functions, seen through Carries.
LEMMA ResultsCarry ==
  ASSUME NEW s \in AgentState
  PROVE  /\ Carries("input_guard", s, RefuseInput(s))
         /\ Carries("input_guard", s, AcceptInput(s))
         /\ Carries("schema_retriever", s, s)
         /\ \A stmt \in Stmts : Carries("sql_generator", s, SqlGenerator(s, stmt))
         /\ Carries("sql_validator", s, SqlValidator(s))
         /\ \A id \in Nat \ {0} :
                Carries("enqueue_review", s, EnqueueReview(s, id))
         /\ \A row : IsReviewRow(row) /\ s.review_id # 0 =>
                Carries("await_decision", s, AwaitDecision(s, row))
         /\ Carries("sql_executor", s, SqlExecutor(s))
         /\ \A leak \in BOOLEAN :
                Carries("response_formatter", s, ResponseFormatter(s, leak))
         /\ Carries("critic", s, s) /\ Carries("critic", s, Criticise(s))
         /\ \A n \in Nodes : Carries(n, s, FailPermanently(s, n))
  <1>1. /\ Carries("input_guard", s, RefuseInput(s))
        /\ Carries("input_guard", s, AcceptInput(s))
        /\ Carries("schema_retriever", s, s)
        /\ Carries("sql_executor", s, SqlExecutor(s))
        /\ Carries("critic", s, s) /\ Carries("critic", s, Criticise(s))
    BY DEF Carries, RefuseInput, AcceptInput, SqlExecutor, Criticise, AgentState
  <1>2. \A stmt \in Stmts : Carries("sql_generator", s, SqlGenerator(s, stmt))
    BY DEF Carries, SqlGenerator, AgentState
  <1>3. Carries("sql_validator", s, SqlValidator(s))
    <2>1. PICK e : SqlValidator(s).sql_attempts = Append(s.sql_attempts, e)
      BY DEF SqlValidator, AgentState
    <2>2. s.sql_attempts \in Seq(Attempt)
      BY DEF AgentState
    <2>3. Len(SqlValidator(s).sql_attempts) = Len(s.sql_attempts) + 1
      BY <2>1, <2>2
    <2>4. /\ SqlValidator(s).review_id = s.review_id
          /\ SqlValidator(s).error_detail = s.error_detail
          /\ SqlValidator(s).status = s.status
      BY DEF SqlValidator, AgentState
    <2>5. QED
      BY <2>3, <2>4 DEF Carries
  <1>4. \A id \in Nat \ {0} : Carries("enqueue_review", s, EnqueueReview(s, id))
    BY DEF Carries, EnqueueReview, AgentState
  <1>5. ASSUME NEW row, IsReviewRow(row), s.review_id # 0
        PROVE  Carries("await_decision", s, AwaitDecision(s, row))
    <2>1. CASE row.status = "pending"
      BY <1>5, <2>1 DEF Carries, AwaitDecision, AgentState
    <2>2. CASE row.status = "approved"
      BY <1>5, <2>2 DEF Carries, AwaitDecision, AgentState
    <2>3. CASE row.status = "rejected"
      BY <1>5, <2>3 DEF Carries, AwaitDecision, AgentState
    <2>4. QED
      BY <1>5, <2>1, <2>2, <2>3 DEF IsReviewRow
  <1>6. ASSUME NEW leak \in BOOLEAN
        PROVE  Carries("response_formatter", s, ResponseFormatter(s, leak))
    BY DEF Carries, ResponseFormatter, AgentState
  <1>7. ASSUME NEW n \in Nodes PROVE Carries(n, s, FailPermanently(s, n))
    BY DEF Carries, FailPermanently, AgentState, Nodes
  <1>8. QED
    BY <1>1, <1>2, <1>3, <1>4, <1>5, <1>6, <1>7

\* A superstep writes a checkpoint unless its router raises.
LEMMA SuperstepMoves ==
  ASSUME NEW r \in Runs, NEW n \in Nodes, NEW t, Running(r, n), Superstep(r, n, t)
  PROVE  \/ Raise(r) /\ UNCHANGED <<state, next>> /\ n = "sql_validator"
         \/ /\ next[r] = n
            /\ state' = [state EXCEPT ![r] = t]
            /\ next' = [next EXCEPT ![r] = NextNode(n, t)]
  BY OnlyValidatorRouteRaises DEF Superstep, Running

\* A node step writes nothing, or Moves the run.
LEMMA NodeStepMoves ==
  ASSUME TypeOK, NEW r \in Runs, NodeStep(r)
  PROVE  \/ Raise(r) /\ UNCHANGED <<state, next, generations, queue>>
         \/ \E n \in Nodes, t \in AgentState :
                Moves(r, n, t) /\ Carries(n, state[r], t)
  <1>0. state[r] \in AgentState
    BY DEF TypeOK
  <1> USE DEF reviewVars
  <1>a. ASSUME NEW n \in Nodes \ {"sql_generator", "enqueue_review"},
               NEW t \in AgentState, Running(r, n), Superstep(r, n, t),
               UNCHANGED <<generations, queue>>, Carries(n, state[r], t)
        PROVE  \/ Raise(r) /\ UNCHANGED <<state, next, generations, queue>>
               \/ \E m \in Nodes, u \in AgentState :
                      Moves(r, m, u) /\ Carries(m, state[r], u)
    <2>1. (Raise(r) /\ UNCHANGED <<state, next>>) \/ Moves(r, n, t)
      BY <1>a, SuperstepMoves DEF Moves
    <2>2. QED
      BY <1>a, <2>1
  <1>1. CASE InputGuard(r)
    <2>1. PICK t \in {RefuseInput(state[r]), AcceptInput(state[r])} :
            Superstep(r, "input_guard", t)
      BY <1>1 DEF InputGuard
    <2>2. t \in AgentState /\ Carries("input_guard", state[r], t)
      BY <1>0, NodeTypes, ResultsCarry
    <2>3. QED
      BY <1>1, <2>1, <2>2, <1>a DEF InputGuard, Nodes
  <1>2. CASE SchemaRetriever(r)
    BY <1>0, <1>2, <1>a, ResultsCarry DEF SchemaRetriever, Nodes
  <1>3. CASE GenerateSql(r)
    <2>1. PICK stmt \in Stmts :
            Superstep(r, "sql_generator", SqlGenerator(state[r], stmt))
      BY <1>3 DEF GenerateSql
    <2> DEFINE t == SqlGenerator(state[r], stmt)
    <2>2. t \in AgentState /\ Carries("sql_generator", state[r], t)
      BY <1>0, NodeTypes, ResultsCarry
    <2>3. "sql_generator" \in Nodes /\ Running(r, "sql_generator")
          /\ CountGeneration(r) /\ queue' = queue
      BY <1>3 DEF GenerateSql, Nodes
    <2> HIDE DEF t
    <2>4. Superstep(r, "sql_generator", t)
      BY <2>1 DEF t
    <2>5. Moves(r, "sql_generator", t)
      BY <2>3, <2>4, SuperstepMoves DEF Moves
    <2>6. QED
      BY <2>2, <2>3, <2>5
  <1>4. CASE ValidateSql(r)
    <2>1. SqlValidator(state[r]) \in AgentState
          /\ Carries("sql_validator", state[r], SqlValidator(state[r]))
      BY <1>0, NodeTypes, ResultsCarry
    <2>2. QED
      BY <1>4, <2>1, <1>a DEF ValidateSql, Nodes
  <1>5. CASE EnqueueForReview(r)
    <2> DEFINE t == EnqueueReview(state[r], Len(queue'))
    <2>1. queue' = Enqueue(queue, r, state[r].sql_attempts)
          /\ Running(r, "enqueue_review") /\ "enqueue_review" \in Nodes
          /\ Superstep(r, "enqueue_review", t) /\ generations' = generations
      BY <1>5 DEF EnqueueForReview, Nodes
    <2>2. Len(queue') \in Nat \ {0}
      BY <2>1 DEF Enqueue, TypeOK
    <2>3. t \in AgentState /\ Carries("enqueue_review", state[r], t)
      BY <1>0, <2>2, NodeTypes, ResultsCarry
    <2>4. Moves(r, "enqueue_review", t)
      <3>1. t = EnqueueReview(state[r], Len(queue'))
        OBVIOUS
      <3> HIDE DEF t
      <3>2. QED
        BY <2>1, <3>1, SuperstepMoves DEF Moves
    <2>5. QED
      BY <2>1, <2>3, <2>4
  <1>6. CASE ReadDecision(r)
    <2> DEFINE row == queue[state[r].review_id]
               t == AwaitDecision(state[r], row)
    <2>1. IsReviewRow(row) /\ state[r].review_id # 0
      <3>1. state[r].review_id \in DOMAIN queue /\ queue \in Seq(ReviewRow)
        BY <1>6 DEF ReadDecision, TypeOK
      <3>2. row \in ReviewRow /\ state[r].review_id # 0
        BY <3>1
      <3>3. QED
        BY <3>2 DEF ReviewRow, IsReviewRow
    <2>2. t \in AgentState /\ Carries("await_decision", state[r], t)
      BY <1>0, <2>1, NodeTypes, ResultsCarry
    <2>3. Superstep(r, "await_decision", t) /\ Running(r, "await_decision")
          /\ UNCHANGED <<generations, queue>>
      BY <1>6 DEF ReadDecision
    <2> HIDE DEF t
    <2>4. QED
      BY <2>2, <2>3, <1>a DEF Nodes
  <1>7. CASE ExecuteSql(r)
    BY <1>0, <1>7, <1>a, NodeTypes, ResultsCarry DEF ExecuteSql, Nodes
  <1>8. CASE FormatResponse(r)
    <2>1. PICK leak \in BOOLEAN :
            Superstep(r, "response_formatter", ResponseFormatter(state[r], leak))
      BY <1>8 DEF FormatResponse
    <2>2. QED
      BY <1>0, <1>8, <2>1, <1>a, NodeTypes, ResultsCarry DEF FormatResponse, Nodes
  <1>9. CASE Critic(r)
    BY <1>0, <1>9, <1>a, NodeTypes, ResultsCarry DEF Critic, Nodes
  <1>10. CASE NodeFails(r)
    <2>1. PICK n \in Nodes : /\ Running(r, n)
                             /\ Superstep(r, n, FailPermanently(state[r], n))
      BY <1>10 DEF NodeFails
    <2> DEFINE t == FailPermanently(state[r], n)
    <2>2. t \in AgentState /\ Carries(n, state[r], t)
      BY <1>0, NodeTypes, ResultsCarry
    <2>3. Running(r, n) /\ queue' = queue
          /\ IF n = "sql_generator" THEN CountGeneration(r)
                                    ELSE UNCHANGED generations
      BY <1>10, <2>1 DEF NodeFails, Running
    <2>4. \/ Raise(r) /\ UNCHANGED <<state, next, generations, queue>>
          \/ Moves(r, n, t)
      BY <2>1, <2>3, SuperstepMoves DEF Moves
    <2>5. QED
      BY <2>2, <2>4
  <1>11. CASE OutOfSteps(r)
    BY <1>11 DEF OutOfSteps, graphVars
  <1>12. QED
    BY <1>1, <1>2, <1>3, <1>4, <1>5, <1>6, <1>7, <1>8, <1>9, <1>10, <1>11
       DEF NodeStep

---------------------------------------------------------------------------
(* What a step does to the queue.                                          *)

\* The three things that happen to the table: nothing, a new row for a run
\* that is at enqueue_review, a decision.
QueueStep ==
    \/ queue' = queue
    \/ \E r \in Runs : queue' = Enqueue(queue, r, state[r].sql_attempts)
    \/ \E id \in Nat, ok \in BOOLEAN, sql \in Sql : queue' = Decide(queue, id, ok, sql)

\* A step is a superstep of one run, or leaves every checkpoint alone.
LEMMA StepMoves ==
  ASSUME TypeOK, [Next]_vars
  PROVE  \/ /\ crashes' = crashes
            /\ \E r \in Runs, n \in Nodes, t \in AgentState :
                   Moves(r, n, t) /\ Carries(n, state[r], t)
         \/ /\ UNCHANGED <<state, next>>
            /\ queue' = queue /\ crashes' = crashes + 1
            /\ \E r \in Runs : next[r] = "sql_generator" /\ CountGeneration(r)
         \/ /\ UNCHANGED <<state, next, generations>>
            /\ \/ queue' = queue /\ crashes' \in {crashes, crashes + 1}
               \/ /\ crashes' = crashes
                  /\ \E id \in Nat, ok \in BOOLEAN, sql \in Sql :
                         queue' = Decide(queue, id, ok, sql)
               \/ /\ crashes' = crashes + 1
                  /\ \E r \in Runs :
                         /\ next[r] = "enqueue_review"
                         /\ queue' = Enqueue(queue, r, state[r].sql_attempts)
  <1> USE DEF graphVars, callVars, chatVars, uiVars, reviewVars
  <1>a. ASSUME NEW id, NEW ok \in BOOLEAN, NEW sql \in Sql, DecideRow(id, ok, sql),
               id \in Nat
        PROVE  \E i \in Nat, o \in BOOLEAN, q \in Sql : queue' = Decide(queue, i, o, q)
    BY <1>a DEF DecideRow
  <1>1. ASSUME NEW r \in Runs, NodeStep(r)
        PROVE  /\ crashes' = crashes
               /\ \/ UNCHANGED <<state, next, generations, queue>>
                  \/ \E n \in Nodes, t \in AgentState :
                         Moves(r, n, t) /\ Carries(n, state[r], t)
    <2>1. crashes' = crashes
      BY <1>1 DEF NodeStep, NodeFrame, InputGuard, SchemaRetriever, GenerateSql,
                  ValidateSql, EnqueueForReview, ReadDecision, ExecuteSql,
                  FormatResponse, Critic, NodeFails, OutOfSteps
    <2>2. QED
      BY <1>1, <2>1, NodeStepMoves
  <1>2. ASSUME NEW r \in Runs, WidgetDecide(r)
        PROVE  /\ UNCHANGED <<state, next, generations, crashes>>
               /\ \E id \in Nat, ok \in BOOLEAN, sql \in Sql :
                      queue' = Decide(queue, id, ok, sql)
    <2>1. state[r].review_id \in Nat
      BY DEF TypeOK, AgentState
    <2>2. \A stmt \in Corrections : Raw(stmt) \in Sql
      BY BoundAssumption DEF Raw, Sql
    <2>3. UNCHANGED <<state, next, generations, crashes>>
      BY <1>2 DEF WidgetDecide
    <2>4. ASSUME NEW id \in DOMAIN queue PROVE LatestFailedSql(queue[id]) \in Sql
      <3>1. queue[id] \in ReviewRow
        BY ElementOfSeq DEF TypeOK
      <3>2. QED
        BY <3>1, LatestFailedSqlType
    <2>5. \E ok \in BOOLEAN, sql \in Sql : DecideRow(state[r].review_id, ok, sql)
      BY <1>2, <2>2, <2>4, NoSqlType DEF WidgetDecide
    <2>6. QED
      BY <2>1, <2>3, <2>5, <1>a
  <1>3. ASSUME NEW id \in DOMAIN queue, CliApprove(id) \/ CliReject(id)
        PROVE  /\ UNCHANGED <<state, next, generations, crashes>>
               /\ \E i \in Nat, ok \in BOOLEAN, sql \in Sql :
                      queue' = Decide(queue, i, ok, sql)
    <2>1. id \in Nat /\ queue[id] \in ReviewRow
      BY DEF TypeOK
    <2>2. \A stmt \in Corrections : Raw(stmt) \in Sql
      BY BoundAssumption DEF Raw, Sql
    <2>3. LatestFailedSql(queue[id]) \in Sql
      BY <2>1, LatestFailedSqlType
    <2>4. UNCHANGED <<state, next, generations, crashes>>
      BY <1>3 DEF CliApprove, CliReject
    <2>5. \E ok \in BOOLEAN, sql \in Sql : DecideRow(id, ok, sql)
      BY <1>3, <2>2, <2>3, NoSqlType DEF CliApprove, CliReject
    <2>6. QED
      BY <2>1, <2>4, <2>5, <1>a
  <1>4. ASSUME NEW r \in Runs, CrashAfterEnqueue(r)
        PROVE  /\ UNCHANGED <<state, next, generations>>
               /\ crashes' = crashes + 1 /\ next[r] = "enqueue_review"
               /\ queue' = Enqueue(queue, r, state[r].sql_attempts)
    BY <1>4 DEF CrashAfterEnqueue, ProcessDies, Running
  <1>5. CASE Crash
    BY <1>5 DEF Crash, ProcessDies
  <1>14. ASSUME NEW r \in Runs, CrashAfterGenerate(r)
         PROVE  /\ UNCHANGED <<state, next, queue>> /\ crashes' = crashes + 1
                /\ next[r] = "sql_generator" /\ CountGeneration(r)
    BY <1>14 DEF CrashAfterGenerate, ProcessDies, Running
  <1>6. ASSUME NEW r \in Runs,
               \/ RunQuery(r) \/ RunNewQuery(r) \/ ResumeReview(r)
               \/ WidgetClick(r) \/ WidgetResume(r) \/ AppendMessage(r)
               \/ RerunDuringTurn(r) \/ NewChat(r)
        PROVE  UNCHANGED <<state, next, generations, queue, crashes>>
    BY <1>6 DEF RunQuery, RunNewQuery, Start, ResumeReview, WidgetClick,
                WidgetResume, Resume, AppendMessage, RerunDuringTurn, NewChat
  <1>7. CASE UNCHANGED vars
    BY <1>7 DEF vars
  <1>8. CASE \E r \in Runs : NodeStep(r)
    BY <1>1, <1>8
  <1>9. CASE \E r \in Runs : WidgetDecide(r)
    BY <1>2, <1>9
  <1>10. CASE \E id \in DOMAIN queue : CliApprove(id) \/ CliReject(id)
    BY <1>3, <1>10
  <1>11. CASE \E r \in Runs : CrashAfterEnqueue(r)
    BY <1>4, <1>11
  <1>12. CASE \E r \in Runs :
                \/ RunQuery(r) \/ RunNewQuery(r) \/ ResumeReview(r)
                \/ WidgetClick(r) \/ WidgetResume(r) \/ AppendMessage(r)
                \/ RerunDuringTurn(r) \/ NewChat(r)
    BY <1>6, <1>12
  <1>15. CASE \E r \in Runs : CrashAfterGenerate(r)
    BY <1>14, <1>15
  <1>13. QED
    BY <1>5, <1>7, <1>8, <1>9, <1>10, <1>11, <1>12, <1>15 DEF Next

LEMMA StepIsQueueStep ==
  ASSUME TypeOK, [Next]_vars
  PROVE  QueueStep
  BY StepMoves DEF QueueStep, Moves

\* A row in the table keeps its place, its run and its evidence, and a decided
\* one stays decided.
LEMMA RowsStay ==
  ASSUME TypeOK, QueueStep
  PROVE  /\ Len(queue') >= Len(queue)
         /\ \A id \in DOMAIN queue :
               /\ id \in DOMAIN queue'
               /\ queue'[id].trace = queue[id].trace
               /\ queue'[id].sql_attempts = queue[id].sql_attempts
               /\ queue[id].status # "pending" => queue'[id].status # "pending"
  <1>1. queue \in Seq(ReviewRow) /\ Len(queue) \in Nat
    BY DEF TypeOK
  <1>2. CASE queue' = queue
    BY <1>1, <1>2
  <1>3. ASSUME NEW r \in Runs, queue' = Enqueue(queue, r, state[r].sql_attempts)
        PROVE  /\ Len(queue') = Len(queue) + 1
               /\ \A id \in DOMAIN queue : id \in DOMAIN queue' /\ queue'[id] = queue[id]
    BY <1>1, <1>3 DEF Enqueue
  <1>4. ASSUME NEW id \in Nat, NEW ok \in BOOLEAN, NEW sql \in Sql,
               queue' = Decide(queue, id, ok, sql)
        PROVE  /\ Len(queue') = Len(queue) /\ DOMAIN queue' = DOMAIN queue
               /\ \A i \in DOMAIN queue :
                     /\ queue'[i].trace = queue[i].trace
                     /\ queue'[i].sql_attempts = queue[i].sql_attempts
                     /\ queue[i].status # "pending" => queue'[i].status # "pending"
    <2>1. queue' \in Seq(ReviewRow) /\ DOMAIN queue' = DOMAIN queue
      BY <1>1, <1>4, QueueTypes DEF Decide
    <2>2. Len(queue') = Len(queue)
      BY <1>1, <2>1
    <2>3. ASSUME NEW i \in DOMAIN queue
          PROVE  /\ queue'[i].trace = queue[i].trace
                 /\ queue'[i].sql_attempts = queue[i].sql_attempts
                 /\ queue[i].status # "pending" => queue'[i].status # "pending"
      <3>1. queue[i] \in ReviewRow
        BY <1>1, <2>3
      <3>2. QED
        BY <1>1, <1>4, <3>1 DEF Decide, ReviewRow
    <2>4. QED
      BY <2>1, <2>2, <2>3
  <1>5. QED
    BY <1>1, <1>2, <1>3, <1>4 DEF QueueStep

\* Whoever decides what and whenever a process dies, no step loses a row,
\* rewrites its attempts, gives it to another run or reopens it.
THEOREM EvidenceIsKept == Spec => QueueKeepsEvidence
  <1>1. TypeOK /\ [Next]_vars =>
          [ /\ Len(queue') >= Len(queue)
            /\ \A id \in DOMAIN queue :
                  /\ queue'[id].trace = queue[id].trace
                  /\ queue'[id].sql_attempts = queue[id].sql_attempts
                  /\ queue[id].status # "pending" => queue'[id].status # "pending"
          ]_vars
    BY StepIsQueueStep, RowsStay
  <1>2. QED
    BY TypeCorrect, <1>1, PTL DEF Spec, QueueKeepsEvidence

---------------------------------------------------------------------------
(* The count of generations.                                               *)

\* Until a node has failed, a run at sql_generator has generated once for
\* every recorded attempt, and at sql_validator once more; c crashes may have
\* lost as many replies.
CountOK(s, n, g, c) ==
    s.error_detail = "none" =>
        /\ g <= MaxRegenerationAttempts + 1 + c
        /\ n \in {"input_guard", "schema_retriever"} => g <= c
        /\ n = "sql_generator" => g <= Len(s.sql_attempts) + c
        /\ n = "sql_validator" => g <= Len(s.sql_attempts) + 1 + c

CountsOK == \A r \in Runs : CountOK(state[r], next[r], generations[r], crashes)

\* One generation more is counted, or the count is at its bound.
LEMMA CountGrows ==
  ASSUME TypeOK, NEW r \in Runs, CountGeneration(r)
  PROVE  /\ generations'[r] <= generations[r] + 1 /\ generations'[r] \in Nat
         /\ \A q \in Runs \ {r} : generations'[q] = generations[q]
  BY DEF CountGeneration, TypeOK

LEMMA MoveCounts ==
  ASSUME IInv, CountsOK, NEW r \in Runs, NEW n \in Nodes, NEW t \in AgentState,
         Moves(r, n, t), Carries(n, state[r], t)
  PROVE  CountOK(t, NextNode(n, t), generations'[r], crashes)
  <1> DEFINE s == state[r]
             g == generations[r]
  <1>1. /\ s \in AgentState /\ s.sql_attempts \in Seq(Attempt)
        /\ g \in Nat /\ next[r] = n /\ AttemptsOK(s, n) /\ crashes \in Nat
    BY DEF IInv, TypeOK, AgentState, RunOK, Moves, Running
  <1>2. SUFFICES ASSUME t.error_detail = "none"
                 PROVE  CountOK(t, NextNode(n, t), generations'[r], crashes)
    BY DEF CountOK
  <1>3. s.error_detail = "none" /\ CountOK(s, n, g, crashes)
    BY <1>1, <1>2 DEF Carries, CountsOK
  <1>4. MaxRegenerationAttempts \in Nat /\ Len(s.sql_attempts) \in Nat
    BY <1>1, CapAssumption
  <1>5. CASE n \in {"input_guard", "schema_retriever"}
    <2>1. g <= crashes /\ generations'[r] = g
      BY <1>3, <1>5 DEF CountOK, Moves
    <2>2. NextNode(n, t) \in {"END", "schema_retriever", "sql_generator"}
          /\ (n = "input_guard" => NextNode(n, t) # "sql_generator")
      BY <1>5 DEF NextNode, RouteAfterInputGuard
    <2>3. Len(t.sql_attempts) = 0
      BY <1>1, <1>5 DEF Carries, AttemptsOK
    <2>4. QED
      BY <1>1, <1>4, <2>1, <2>2, <2>3 DEF CountOK
  <1>6. CASE n = "sql_generator"
    <2>1. /\ g <= Len(s.sql_attempts) + crashes
          /\ Len(s.sql_attempts) <= MaxRegenerationAttempts
          /\ t.sql_attempts = s.sql_attempts
      BY <1>1, <1>3, <1>6 DEF CountOK, AttemptsOK, Carries
    <2>2. generations'[r] <= g + 1 /\ generations'[r] \in Nat
      BY <1>6, CountGrows DEF Moves, IInv
    <2>3. NextNode(n, t) = "sql_validator"
      BY <1>6 DEF NextNode
    <2>4. QED
      BY <1>1, <1>4, <2>1, <2>2, <2>3 DEF CountOK
  <1>7. CASE n = "sql_validator"
    <2>1. /\ g <= Len(s.sql_attempts) + 1 + crashes
          /\ g <= MaxRegenerationAttempts + 1 + crashes
          /\ generations'[r] = g /\ Len(t.sql_attempts) = Len(s.sql_attempts) + 1
      BY <1>2, <1>3, <1>7 DEF CountOK, Carries, Moves
    <2>2. NextNode(n, t) \in {"raise", "sql_executor", "sql_generator", "enqueue_review"}
      BY <1>7 DEF NextNode, RouteAfterValidation
    <2>3. QED
      BY <1>1, <1>4, <2>1, <2>2 DEF CountOK
  <1>8. CASE n \in {"enqueue_review", "await_decision", "sql_executor",
                    "response_formatter", "critic"}
    <2>1. g <= MaxRegenerationAttempts + 1 + crashes /\ generations'[r] = g
      BY <1>3, <1>8 DEF CountOK, Moves
    <2>2. NextNode(n, t) \in {"await_decision", "sql_executor", "response_formatter",
                              "critic", "END"}
      BY <1>8 DEF NextNode, RouteAfterDecision
    <2>3. QED
      BY <2>1, <2>2 DEF CountOK
  <1>9. QED
    BY <1>5, <1>6, <1>7, <1>8 DEF Nodes

\* A superstep of one run is seen in that run only.
LEMMA MoveIsLocal ==
  ASSUME TypeOK, NEW r \in Runs, NEW n \in Nodes, NEW t, Moves(r, n, t)
  PROVE  /\ state'[r] = t /\ next'[r] = NextNode(n, t) /\ next[r] = n
         /\ \A q \in Runs \ {r} : /\ state'[q] = state[q] /\ next'[q] = next[q]
                                  /\ generations'[q] = generations[q]
  <1>1. state \in [Runs -> AgentState] /\ next \in [Runs -> Nodes \cup {"END"}]
        /\ generations \in [Runs -> Nat]
    BY DEF TypeOK
  <1>2. \/ generations' = generations
        \/ generations' = [generations EXCEPT ![r] = IF @ < Overrun THEN @ + 1 ELSE @]
    BY DEF Moves, CountGeneration
  <1>3. QED
    BY <1>1, <1>2 DEF Moves, Running

\* A crash more allows for a generation more.
LEMMA CrashAllows ==
  ASSUME NEW s \in AgentState, NEW n, NEW g \in Nat, NEW h \in Nat, NEW c \in Nat,
         CountOK(s, n, g, c), h <= g + 1
  PROVE  CountOK(s, n, h, c + 1) /\ CountOK(s, n, g, c + 1)
  <1> DEFINE made == Len(s.sql_attempts)
  <1>1. MaxRegenerationAttempts \in Nat /\ made \in Nat
    <2>1. s.sql_attempts \in Seq(Attempt)
      BY DEF AgentState
    <2>2. QED
      BY <2>1, CapAssumption
  <1>2. SUFFICES ASSUME s.error_detail = "none"
                 PROVE  CountOK(s, n, h, c + 1) /\ CountOK(s, n, g, c + 1)
    BY DEF CountOK
  <1>3. /\ g <= MaxRegenerationAttempts + 1 + c
        /\ n \in {"input_guard", "schema_retriever"} => g <= c
        /\ n = "sql_generator" => g <= made + c
        /\ n = "sql_validator" => g <= made + 1 + c
    BY <1>2 DEF CountOK
  <1> HIDE DEF made
  <1>4. \A k \in {g, h} :
           /\ k <= MaxRegenerationAttempts + 1 + (c + 1)
           /\ n \in {"input_guard", "schema_retriever"} => k <= c + 1
           /\ n = "sql_generator" => k <= made + (c + 1)
           /\ n = "sql_validator" => k <= made + 1 + (c + 1)
    BY <1>1, <1>3
  <1>5. QED
    BY <1>4 DEF CountOK, made

LEMMA CountsStep ==
  ASSUME IInv, CountsOK, [Next]_vars
  PROVE  CountsOK'
  <1>0. /\ TypeOK /\ crashes \in Nat
        /\ \A q \in Runs : state[q] \in AgentState /\ generations[q] \in Nat
    BY DEF IInv, TypeOK
  <1>1. CASE UNCHANGED <<state, next, generations>> /\ crashes' \in {crashes, crashes + 1}
    BY <1>0, <1>1, CrashAllows DEF CountsOK
  <1>2. ASSUME NEW r \in Runs, NEW n \in Nodes, NEW t \in AgentState,
               Moves(r, n, t), Carries(n, state[r], t), crashes' = crashes
        PROVE  CountsOK'
    <2>1. CountOK(state'[r], next'[r], generations'[r], crashes')
      BY <1>0, <1>2, MoveCounts, MoveIsLocal
    <2>2. \A q \in Runs \ {r} : CountOK(state'[q], next'[q], generations'[q], crashes')
      BY <1>0, <1>2, MoveIsLocal DEF CountsOK
    <2>3. QED
      BY <2>1, <2>2 DEF CountsOK
  <1>3. ASSUME NEW r \in Runs, CountGeneration(r), UNCHANGED <<state, next>>,
               crashes' = crashes + 1
        PROVE  CountsOK'
    <2>1. SUFFICES ASSUME NEW q \in Runs
                   PROVE  CountOK(state[q], next[q], generations'[q], crashes + 1)
      BY <1>3 DEF CountsOK
    <2>2. generations'[q] \in Nat /\ generations'[q] <= generations[q] + 1
      BY <1>0, <1>3, CountGrows
    <2>3. QED
      BY <1>0, <2>2, CrashAllows DEF CountsOK
  <1>4. QED
    BY <1>0, <1>1, <1>2, <1>3, StepMoves

\* For every cap: a run none of whose nodes failed permanently has generated
\* at most once more than the cap and once for each crash, however often it
\* was resumed or re-run.
THEOREM GenerationsAreCapped == Spec => []RegenerationsCapped
  <1>1. Init => CountsOK
    BY CapAssumption DEF Init, CountsOK, CountOK, InitialState
  <1>2. IInv /\ CountsOK /\ [Next]_vars => CountsOK'
    BY CountsStep
  <1>3. IInv /\ CountsOK => RegenerationsCapped
    <2>1. SUFFICES ASSUME IInv, CountsOK, NEW r \in Runs,
                          generations[r] > MaxRegenerationAttempts + 1 + crashes,
                          state[r].error_detail = "none"
                   PROVE  FALSE
      BY DEF RegenerationsCapped
    <2>2. generations[r] <= MaxRegenerationAttempts + 1 + crashes
      BY <2>1 DEF CountsOK, CountOK
    <2>3. generations[r] \in Nat /\ MaxRegenerationAttempts \in Nat /\ crashes \in Nat
      BY <2>1, CapAssumption DEF IInv, TypeOK
    <2>4. QED
      BY <2>1, <2>2, <2>3
  <1>4. QED
    BY Invariance, <1>1, <1>2, <1>3, PTL DEF Spec

---------------------------------------------------------------------------
(* The row of an escalated run.                                            *)

\* The nodes up to the one that writes the review row.
UpToReview ==
    {"input_guard", "schema_retriever", "sql_generator", "sql_validator",
     "enqueue_review"}

\* Every attempt the cap allows was made, and the last one failed too.
Exhausted(s) ==
    /\ Len(s.sql_attempts) = MaxRegenerationAttempts + 1
    /\ ~ LastAttempt(s).valid

\* Row id of table q is the review of run r in state s.
IsRowOf(q, id, r, s) ==
    /\ id \in DOMAIN q
    /\ q[id].trace = r /\ q[id].sql_attempts = s.sql_attempts

ReviewOK(s, n, r, q) ==
    /\ n \in UpToReview => s.review_id = 0
    /\ n = "enqueue_review" => Exhausted(s)
    /\ s.review_id # 0 => IsRowOf(q, s.review_id, r, s) /\ Exhausted(s)
    /\ s.status = "escalated" => s.review_id # 0
    /\ n = "await_decision" =>
           \/ s.status = "escalated"
           \/ s.review_id = 0 /\ s.status = "error" /\ s.error_detail # "none"

ReviewsOK == \A r \in Runs : ReviewOK(state[r], next[r], r, queue)

\* A run at enqueue_review was routed there with its attempts used up.
LEMMA RoutedToReview ==
  ASSUME NEW t \in AgentState, NEW n \in Nodes, NextNode(n, t) = "enqueue_review",
         Len(t.sql_attempts) <= MaxRegenerationAttempts + 1
  PROVE  n = "sql_validator" /\ Exhausted(t)
  <1>1. n = "sql_validator"
    BY DEF NextNode, Nodes, RouteAfterInputGuard, RouteAfterDecision
  <1>2. /\ ~ LastAttempt(t).valid
        /\ ~ (Len(t.sql_attempts) <= MaxRegenerationAttempts)
    BY <1>1 DEF NextNode, RouteAfterValidation
  <1>3. Len(t.sql_attempts) \in Nat /\ MaxRegenerationAttempts \in Nat
    BY CapAssumption DEF AgentState
  <1>4. QED
    BY <1>1, <1>2, <1>3 DEF Exhausted

LEMMA MoveReviews ==
  ASSUME IInv, IInv', ReviewsOK, NEW r \in Runs, NEW n \in Nodes, NEW t \in AgentState,
         Moves(r, n, t), Carries(n, state[r], t), QueueStep
  PROVE  ReviewOK(t, NextNode(n, t), r, queue')
  <1> DEFINE s == state[r]
             m == NextNode(n, t)
  <1>1. /\ s \in AgentState /\ ReviewOK(s, n, r, queue)
        /\ state'[r] = t /\ next'[r] = m /\ TypeOK
    BY MoveIsLocal DEF IInv, TypeOK, ReviewsOK
  <1>2. Len(t.sql_attempts) <= MaxRegenerationAttempts + 1
    <2>1. RunOK(state'[r], next'[r], approvals')
      BY DEF IInv
    <2>2. QED
      BY <1>1, <2>1 DEF RunOK, AttemptsOK
  <1>3. m = "enqueue_review" => n = "sql_validator" /\ Exhausted(t)
    BY <1>2, RoutedToReview
  <1>4. m \in UpToReview => n \in UpToReview \ {"enqueue_review"}
    BY DEF NextNode, Nodes, UpToReview, RouteAfterInputGuard, RouteAfterValidation,
           RouteAfterDecision
  <1>8. m = "await_decision" => n = "enqueue_review"
    BY DEF NextNode, Nodes, RouteAfterInputGuard, RouteAfterValidation,
           RouteAfterDecision
  <1>5. CASE n # "enqueue_review"
    <2>1. t.review_id = s.review_id
      BY <1>5 DEF Carries
    <2>2. t.review_id # 0 => t.sql_attempts = s.sql_attempts
      BY <1>1, <2>1 DEF Carries, ReviewOK, UpToReview
    <2>3. t.review_id # 0 => IsRowOf(queue', t.review_id, r, t) /\ Exhausted(t)
      BY <1>1, <2>1, <2>2, RowsStay DEF ReviewOK, IsRowOf, Exhausted, LastAttempt
    <2>4. t.status = "escalated" => t.review_id # 0
      BY <1>1, <1>5, <2>1 DEF Carries, ReviewOK
    <2>5. m \in UpToReview => t.review_id = 0
      BY <1>1, <1>4, <2>1 DEF ReviewOK
    <2>6. QED
      BY <1>3, <1>5, <1>8, <2>3, <2>4, <2>5 DEF ReviewOK
  <1>6. CASE n = "enqueue_review"
    <2>1. m \notin UpToReview
      BY <1>4, <1>6
    <2>2. /\ s.review_id = 0 /\ Exhausted(s) /\ t.sql_attempts = s.sql_attempts
      BY <1>1, <1>6 DEF ReviewOK, Carries, UpToReview
    <2>3. Exhausted(t)
      BY <2>2 DEF Exhausted, LastAttempt
    <2>4. CASE t = FailPermanently(s, n)
      <3>1. t.review_id = 0 /\ t.status = "error" /\ t.error_detail # "none"
        BY <1>1, <1>6, <2>2, <2>4 DEF FailPermanently, AgentState
      <3>2. QED
        BY <2>1, <3>1, <1>3, <1>6 DEF ReviewOK
    <2>5. CASE /\ queue' = Enqueue(queue, r, s.sql_attempts)
               /\ t = EnqueueReview(s, Len(queue'))
      <3> DEFINE row == [trace |-> r, sql_attempts |-> s.sql_attempts,
                         status |-> "pending", decision_sql |-> NoSql]
      <3>1. row.trace = r /\ row.sql_attempts = s.sql_attempts
        OBVIOUS
      <3>2. queue' = Append(queue, row)
        BY <2>5 DEF Enqueue
      <3>3. queue \in Seq(ReviewRow) /\ row \in ReviewRow
        BY <1>1, NoSqlType DEF TypeOK, ReviewRow, AgentState
      <3> HIDE DEF row
      <3>4. /\ Len(queue') = Len(queue) + 1 /\ queue'[Len(queue')] = row
            /\ Len(queue') \in DOMAIN queue' /\ Len(queue') # 0
        BY <3>2, <3>3, AppendProperties
      <3>5. t.review_id = Len(queue') /\ t.status = "escalated"
        BY <1>1, <2>5 DEF EnqueueReview, AgentState
      <3>6. IsRowOf(queue', t.review_id, r, t)
        BY <2>2, <3>1, <3>4, <3>5 DEF IsRowOf
      <3>7. QED
        BY <1>3, <1>6, <2>1, <2>3, <3>4, <3>5, <3>6 DEF ReviewOK
    <2>6. QED
      BY <1>6, <2>4, <2>5 DEF Moves
  <1>7. QED
    BY <1>5, <1>6

\* Nobody else's step takes a run's row away.
LEMMA ReviewStays ==
  ASSUME TypeOK, QueueStep, NEW s, NEW n, NEW r, ReviewOK(s, n, r, queue)
  PROVE  ReviewOK(s, n, r, queue')
  BY RowsStay DEF ReviewOK, IsRowOf

LEMMA ReviewsStep ==
  ASSUME IInv, IInv', ReviewsOK, [Next]_vars
  PROVE  ReviewsOK'
  <1>0. TypeOK /\ QueueStep
    BY StepIsQueueStep DEF IInv
  <1>1. CASE UNCHANGED <<state, next>>
    BY <1>0, <1>1, ReviewStays DEF ReviewsOK
  <1>2. ASSUME NEW r \in Runs, NEW n \in Nodes, NEW t \in AgentState,
               Moves(r, n, t), Carries(n, state[r], t)
        PROVE  ReviewsOK'
    <2>1. ReviewOK(state'[r], next'[r], r, queue')
      BY <1>0, <1>2, MoveReviews, MoveIsLocal
    <2>2. \A q \in Runs \ {r} : ReviewOK(state'[q], next'[q], q, queue')
      BY <1>0, <1>2, MoveIsLocal, ReviewStays DEF ReviewsOK
    <2>3. QED
      BY <2>1, <2>2 DEF ReviewsOK
  <1>3. QED
    BY <1>0, <1>1, <1>2, StepMoves

LEMMA ReviewInvariance == Spec => []ReviewsOK
  <1>1. Init => ReviewsOK
    BY DEF Init, ReviewsOK, ReviewOK, InitialState
  <1>2. IInv /\ IInv' /\ ReviewsOK /\ [Next]_vars => ReviewsOK'
    BY ReviewsStep
  <1>3. QED
    BY Invariance, <1>1, <1>2, PTL DEF Spec

\* Whatever the cap and the number of runs and reviewers, an escalated run's
\* review_id names a row of its own that holds all its attempts, all failed.
THEOREM EscalationHasItsRow == Spec => []EscalatedHasItsRow
  <1>1. ReviewsOK => EscalatedHasItsRow
    BY DEF ReviewsOK, ReviewOK, IsRowOf, Exhausted, EscalatedHasItsRow
  <1>2. QED
    BY ReviewInvariance, <1>1, PTL

\* Every paused run has its row, or the error that cost it the row.
THEOREM PausesAreReviewable == Spec => []PausedRunsAreReviewable
  <1>1. ReviewsOK => PausedRunsAreReviewable
    BY DEF ReviewsOK, ReviewOK, IsRowOf, PausedRunsAreReviewable
  <1>2. QED
    BY ReviewInvariance, <1>1, PTL

---------------------------------------------------------------------------
(* How many rows a run has.                                                *)

RowsOf(q, r) == {id \in DOMAIN q : q[id].trace = r}

\* Each crash allows for one row, and the enqueue_review that was checkpointed
\* for another; no edge leads back to it.
RowCountOK(r) ==
    Cardinality(RowsOf(queue, r)) <=
        crashes + (IF next[r] \in UpToReview THEN 0 ELSE 1)

LEMMA RowsOfIsFinite ==
  ASSUME NEW q \in Seq(ReviewRow), NEW r
  PROVE  /\ IsFiniteSet(RowsOf(q, r))
         /\ Cardinality(RowsOf(q, r)) \in Nat
  <1>1. RowsOf(q, r) \in SUBSET (1 .. Len(q)) /\ Len(q) \in Int
    BY DEF RowsOf
  <1>2. IsFiniteSet(1 .. Len(q))
    BY <1>1, FS_Interval
  <1>3. QED
    BY <1>1, <1>2, FS_Subset, FS_CardinalityType

\* A new row counts for its own run only.
LEMMA EnqueueCounts ==
  ASSUME NEW q \in Seq(ReviewRow), NEW r \in Runs, NEW p \in Runs,
         NEW a \in Seq(Attempt)
  PROVE  Cardinality(RowsOf(Enqueue(q, p, a), r))
             = Cardinality(RowsOf(q, r)) + (IF p = r THEN 1 ELSE 0)
  <1> DEFINE row == [trace |-> p, sql_attempts |-> a, status |-> "pending",
                     decision_sql |-> NoSql]
             e == Len(q) + 1
  <1>1. row \in ReviewRow /\ row.trace = p /\ Enqueue(q, p, a) = Append(q, row)
    BY NoSqlType DEF ReviewRow, Enqueue
  <1> HIDE DEF row
  <1>2. /\ DOMAIN Append(q, row) = DOMAIN q \cup {e} /\ e \notin DOMAIN q
        /\ Append(q, row)[e] = row
        /\ \A id \in DOMAIN q : Append(q, row)[id] = q[id]
    BY <1>1
  <1>3. RowsOf(Append(q, row), r) = RowsOf(q, r) \cup (IF p = r THEN {e} ELSE {})
    BY <1>1, <1>2 DEF RowsOf
  <1>4. e \notin RowsOf(q, r)
    BY <1>2 DEF RowsOf
  <1>5. CASE p = r
    <2>1. RowsOf(Append(q, row), r) = RowsOf(q, r) \cup {e}
      BY <1>3, <1>5
    <2>2. Cardinality(RowsOf(q, r) \cup {e}) = Cardinality(RowsOf(q, r)) + 1
      BY <1>4, RowsOfIsFinite, FS_AddElement
    <2>3. QED
      BY <1>1, <1>5, <2>1, <2>2
  <1>6. CASE p # r
    <2>1. RowsOf(Append(q, row), r) = RowsOf(q, r)
      BY <1>3, <1>6
    <2>2. QED
      BY <1>1, <1>6, <2>1, RowsOfIsFinite
  <1>7. QED
    BY <1>5, <1>6

\* A decision leaves every row with its run.
LEMMA DecideCounts ==
  ASSUME NEW q \in Seq(ReviewRow), NEW r, NEW id \in Nat, NEW ok \in BOOLEAN,
         NEW sql \in Sql
  PROVE  RowsOf(Decide(q, id, ok, sql), r) = RowsOf(q, r)
  <1>1. DOMAIN Decide(q, id, ok, sql) = DOMAIN q
    BY DEF Decide
  <1>2. ASSUME NEW i \in DOMAIN q
        PROVE  Decide(q, id, ok, sql)[i].trace = q[i].trace
    <2>1. q[i] \in ReviewRow
      OBVIOUS
    <2>2. QED
      BY <2>1 DEF Decide, ReviewRow
  <1>3. QED
    BY <1>1, <1>2 DEF RowsOf

\* No edge leads back to the nodes up to enqueue_review.
LEMMA NoWayBack ==
  ASSUME NEW n \in Nodes, NEW t, NextNode(n, t) \in UpToReview
  PROVE  n \in UpToReview \ {"enqueue_review"}
  BY DEF NextNode, Nodes, UpToReview, RouteAfterInputGuard, RouteAfterValidation,
         RouteAfterDecision

LEMMA RowCountStep ==
  ASSUME TypeOK, TypeOK', [Next]_vars, NEW r \in Runs, RowCountOK(r)
  PROVE  RowCountOK(r)'
  <1> DEFINE count == Cardinality(RowsOf(queue, r))
  <1>1. /\ queue \in Seq(ReviewRow) /\ crashes \in Nat
        /\ \A q \in Runs : state[q].sql_attempts \in Seq(Attempt)
    BY DEF TypeOK, AgentState
  <1>2. count \in Nat
    BY <1>1, RowsOfIsFinite
  <1>3. count <= crashes + (IF next[r] \in UpToReview THEN 0 ELSE 1)
    BY DEF RowCountOK
  <1> HIDE DEF count
  <1>4. SUFFICES Cardinality(RowsOf(queue', r)) <=
                     crashes' + (IF next'[r] \in UpToReview THEN 0 ELSE 1)
    BY DEF RowCountOK
  <1>5. queue' = queue => Cardinality(RowsOf(queue', r)) = count
    BY DEF count
  <1>6. ASSUME NEW q \in Runs, queue' = Enqueue(queue, q, state[q].sql_attempts)
        PROVE  Cardinality(RowsOf(queue', r)) = count + (IF q = r THEN 1 ELSE 0)
    BY <1>1, <1>6, EnqueueCounts DEF count
  <1>7. ASSUME NEW q \in Runs, NEW n \in Nodes, NEW t \in AgentState,
               Moves(q, n, t), crashes' = crashes
        PROVE  Cardinality(RowsOf(queue', r)) <=
                   crashes' + (IF next'[r] \in UpToReview THEN 0 ELSE 1)
    <2>1. CASE q # r
      <3>1. next'[r] = next[r]
        BY <1>7, <2>1, MoveIsLocal
      <3>2. Cardinality(RowsOf(queue', r)) = count
        BY <1>2, <1>5, <1>6, <1>7, <2>1 DEF Moves
      <3>3. QED
        BY <1>1, <1>2, <1>3, <1>7, <3>1, <3>2
    <2>2. CASE q = r
      <3>1. next[r] = n /\ next'[r] = NextNode(n, t)
        BY <1>7, <2>2, MoveIsLocal
      <3>2. next'[r] \in UpToReview => n \in UpToReview \ {"enqueue_review"}
        BY <3>1, NoWayBack
      <3>3. \/ Cardinality(RowsOf(queue', r)) = count
            \/ n = "enqueue_review" /\ Cardinality(RowsOf(queue', r)) = count + 1
        BY <1>5, <1>6, <1>7, <2>2 DEF Moves
      <3>4. "enqueue_review" \in UpToReview
        BY DEF UpToReview
      <3>5. QED
        BY <1>1, <1>2, <1>3, <1>7, <3>1, <3>2, <3>3, <3>4
    <2>3. QED
      BY <2>1, <2>2
  <1>8. CASE /\ UNCHANGED <<state, next>>
             /\ queue' = queue /\ crashes' \in {crashes, crashes + 1}
    <2>1. Cardinality(RowsOf(queue', r)) = count
      BY <1>5, <1>8
    <2>2. next'[r] = next[r]
      BY <1>8
    <2>3. crashes' = crashes \/ crashes' = crashes + 1
      BY <1>8
    <2>4. QED
      BY <1>1, <1>2, <1>3, <2>1, <2>2, <2>3
  <1>9. CASE /\ UNCHANGED <<state, next, generations>> /\ crashes' = crashes
             /\ \E id \in Nat, ok \in BOOLEAN, sql \in Sql :
                    queue' = Decide(queue, id, ok, sql)
    <2>1. Cardinality(RowsOf(queue', r)) = count
      BY <1>1, <1>9, DecideCounts DEF count
    <2>2. QED
      BY <1>3, <1>9, <2>1
  <1>10. CASE /\ UNCHANGED <<state, next, generations>> /\ crashes' = crashes + 1
              /\ \E q \in Runs : queue' = Enqueue(queue, q, state[q].sql_attempts)
    <2>1. Cardinality(RowsOf(queue', r)) \in {count, count + 1}
      BY <1>2, <1>6, <1>10
    <2>2. QED
      BY <1>1, <1>2, <1>3, <1>10, <2>1
  <1>11. QED
    BY <1>7, <1>8, <1>9, <1>10, StepMoves

\* However often a run is resumed and by whom, its row is inserted once; each
\* crash of the process accounts for at most one row more.
THEOREM RowsPerTraceAreBounded == Spec => []OneRowPerTrace
  <1> DEFINE Counts == \A r \in Runs : RowCountOK(r)
  <1>1. Init => Counts
    <2>1. SUFFICES ASSUME Init, NEW r \in Runs PROVE RowCountOK(r)
      OBVIOUS
    <2>2. RowsOf(queue, r) = {}
      BY <2>1 DEF Init, RowsOf
    <2>3. Cardinality(RowsOf(queue, r)) = 0 /\ crashes = 0
      BY <2>1, <2>2, FS_EmptySet DEF Init
    <2>4. QED
      BY <2>3 DEF RowCountOK
  <1>2. TypeOK /\ TypeOK' /\ Counts /\ [Next]_vars => Counts'
    BY RowCountStep
  <1>3. TypeOK /\ Counts => OneRowPerTrace
    <2>1. SUFFICES ASSUME TypeOK, Counts, NEW r \in Runs
                   PROVE  Cardinality(RowsOf(queue, r)) <= 1 + crashes
      BY DEF OneRowPerTrace, RowsOf
    <2>2. Cardinality(RowsOf(queue, r)) \in Nat /\ crashes \in Nat
      BY <2>1, RowsOfIsFinite DEF TypeOK
    <2>3. RowCountOK(r)
      BY <2>1
    <2>4. QED
      BY <2>2, <2>3 DEF RowCountOK
  <1> HIDE DEF Counts
  <1>4. QED
    BY TypeCorrect, <1>1, <1>2, <1>3, PTL DEF Spec

---------------------------------------------------------------------------
(* What the chat shows of a run.                                           *)

\* Run r has settled on status st: it has ended, or it is paused with the
\* error of its enqueue_review, which await_decision can only repeat.
Settled(r, st) ==
    /\ state[r].status = st
    /\ \/ next[r] = "END"
       \/ next[r] = "await_decision" /\ state[r].review_id = 0 /\ st = "error"

\* A status the chat holds or shows is settled, unless it is "escalated".
MessageOK(r) ==
    \A st \in {streamed[r], shown[r]} :
        st \notin {"none", "escalated"} => Settled(r, st)

MessagesOK == \A r \in Runs : MessageOK(r)

\* A settled run stays settled.
LEMMA SettledStays ==
  ASSUME TypeOK, [Next]_vars, NEW r \in Runs, NEW st, Settled(r, st)
  PROVE  Settled(r, st)'
  <1>1. CASE next[r] = "END"
    <2>1. next'[r] = "END" /\ state'[r] = state[r]
      BY <1>1, EndedStays
    <2>2. QED
      BY <2>1 DEF Settled
  <1>2. CASE UNCHANGED <<state, next>>
    BY <1>2 DEF Settled
  <1>3. ASSUME next[r] # "END", NEW q \in Runs, NEW n \in Nodes, NEW t \in AgentState,
               Moves(q, n, t), Carries(n, state[q], t)
        PROVE  Settled(r, st)'
    <2>1. CASE q # r
      BY <1>3, <2>1, MoveIsLocal DEF Settled
    <2>2. CASE q = r
      <3>1. /\ n = "await_decision" /\ state[r].review_id = 0 /\ st = "error"
            /\ state'[r] = t /\ next'[r] = NextNode(n, t)
        BY <1>3, <2>2, MoveIsLocal DEF Settled
      <3>2. t.status = "error"
        BY <1>3, <2>2, <3>1 DEF Carries
      <3>3. NextNode(n, t) = "END"
        BY <3>1, <3>2 DEF NextNode, RouteAfterDecision
      <3>4. QED
        BY <3>1, <3>2, <3>3 DEF Settled
    <2>3. QED
      BY <2>1, <2>2
  <1>4. QED
    BY <1>1, <1>2, <1>3, StepMoves

\* What the caller is handed in this step: the state of a run that has ended
\* or paused.
Handed(r, st) ==
    st = state'[r].status /\ next'[r] \in {"END", "await_decision"}

\* The chat takes over a status that is handed to it, keeps or drops the one
\* it has, or appends the one it holds.
LEMMA ChatStep ==
  ASSUME TypeOK, [Next]_vars, NEW r \in Runs
  PROVE  /\ streamed'[r] \in {streamed[r], "none"} \/ Handed(r, streamed'[r])
         /\ \/ shown'[r] \in {shown[r], streamed[r], "none"}
            \/ Handed(r, shown'[r])
  <1> USE DEF graphVars, callVars, chatVars, uiVars, reviewVars
  <1>a. ASSUME NEW q \in Runs, NEW c, NEW s, Deliver(q, c, s),
               q = r => /\ s = state'[r]
                        /\ next'[r] \in {"END", "await_decision"}
        PROVE  /\ streamed'[r] = streamed[r] \/ Handed(r, streamed'[r])
               /\ shown'[r] = shown[r] \/ Handed(r, shown'[r])
    BY <1>a DEF Deliver, Handed, TypeOK
  <1>1. ASSUME NEW q \in Runs, NodeStep(q)
        PROVE  /\ streamed'[r] = streamed[r] \/ Handed(r, streamed'[r])
               /\ shown'[r] = shown[r] \/ Handed(r, shown'[r])
    <2>1. CASE Raise(q)
      BY <2>1 DEF Raise
    <2>2. ASSUME NEW n \in Nodes, NEW t \in AgentState, Moves(q, n, t)
          PROVE  /\ streamed'[r] = streamed[r] \/ Handed(r, streamed'[r])
                 /\ shown'[r] = shown[r] \/ Handed(r, shown'[r])
      <3>1. state'[q] = t /\ next'[q] = NextNode(n, t) /\ Superstep(q, n, t)
        BY <2>2, MoveIsLocal DEF Moves
      <3>2. \/ UNCHANGED chatVars
            \/ /\ Deliver(q, caller[q], t)
               /\ NextNode(n, t) \in {"END", "await_decision"}
        BY <3>1 DEF Superstep, Raise
      <3>3. QED
        BY <3>1, <3>2, <1>a
    <2>3. QED
      BY <1>1, <2>1, <2>2, NodeStepMoves
  <1>2. ASSUME NEW q \in Runs, NEW c, Resume(q, c)
        PROVE  /\ streamed'[r] = streamed[r] \/ Handed(r, streamed'[r])
               /\ shown'[r] = shown[r] \/ Handed(r, shown'[r])
    BY <1>2, <1>a DEF Resume
  <1>3. ASSUME NEW q \in Runs,
               AppendMessage(q) \/ RerunDuringTurn(q) \/ NewChat(q) \/ ProcessDies
        PROVE  /\ streamed'[r] \in {streamed[r], "none"}
               /\ shown'[r] \in {shown[r], streamed[r], "none"}
    BY <1>3 DEF AppendMessage, RerunDuringTurn, NewChat, ProcessDies, TypeOK
  <1>4. CASE UNCHANGED chatVars
    BY <1>4
  <1>5. CASE ~ (\E q \in Runs : NodeStep(q)) /\ ~ UNCHANGED chatVars
    BY <1>2, <1>3, <1>5
       DEF Next, RunQuery, RunNewQuery, Start, ResumeReview, WidgetClick,
           WidgetDecide, WidgetResume, CrashAfterEnqueue, CrashAfterGenerate,
           Crash, CliApprove, CliReject, vars
  <1>6. QED
    BY <1>1, <1>4, <1>5

\* A state that is handed over and does not say "escalated" is settled.
LEMMA HandedIsSettled ==
  ASSUME ReviewsOK', NEW r \in Runs, NEW st, Handed(r, st), st # "escalated"
  PROVE  Settled(r, st)'
  BY DEF ReviewsOK, ReviewOK, Handed, Settled

LEMMA MessagesStep ==
  ASSUME TypeOK, ReviewsOK', MessagesOK, [Next]_vars
  PROVE  MessagesOK'
  <1> SUFFICES ASSUME NEW r \in Runs, NEW st \in {streamed'[r], shown'[r]},
                      st \notin {"none", "escalated"}
               PROVE  Settled(r, st)'
    BY DEF MessagesOK, MessageOK
  <1>1. CASE st \in {streamed[r], shown[r]}
    BY <1>1, SettledStays DEF MessagesOK, MessageOK
  <1>2. CASE Handed(r, st)
    BY <1>2, HandedIsSettled
  <1>3. QED
    BY <1>1, <1>2, ChatStep

\* However often a run is resumed and its row decided again, by whomever and
\* at whatever point of the turn, only an "escalated" message can differ from
\* the run's status.
THEOREM MessagesAreOutcomes == Spec => []MessageIsOutcome
  <1>1. Init => MessagesOK
    BY DEF Init, MessagesOK, MessageOK
  <1>2. TypeOK /\ ReviewsOK' /\ MessagesOK /\ [Next]_vars => MessagesOK'
    BY MessagesStep
  <1>3. MessagesOK => MessageIsOutcome
    BY DEF MessagesOK, MessageOK, Settled, MessageIsOutcome
  <1>4. QED
    BY TypeCorrect, ReviewInvariance, <1>1, <1>2, <1>3, PTL DEF Spec

---------------------------------------------------------------------------
(* The safety half of InvocationsReturn.                                   *)

\* A running invocation has a node ahead of it and supersteps left.
LiveOK(r) ==
    phase[r] \in {"idle", "running"} =>
        next[r] \in Nodes /\ steps[r] \in 0 .. RecursionLimit

NeverStuck == \A r \in Runs : phase[r] = "running" =>
                  next[r] \in Nodes /\ steps[r] <= RecursionLimit

\* A step of an invocation ends it or brings it nearer to the limit; nobody
\* else's step takes that back.
AdvancesOf(r) ==
    phase[r] = "running" /\ phase'[r] = "running" =>
        /\ steps'[r] >= steps[r] /\ steps'[r] <= RecursionLimit
        /\ NodeStep(r) => steps'[r] = steps[r] + 1

InvocationsAdvance == [][ \A r \in Runs : AdvancesOf(r) ]_vars

LEMMA SuperstepAdvances ==
  ASSUME TypeOK, NEW r \in Runs, NEW n \in Nodes, NEW t, Moves(r, n, t)
  PROVE  phase'[r] = "running" =>
             /\ steps[r] < RecursionLimit /\ steps'[r] = steps[r] + 1
             /\ next'[r] \in Nodes
  <1>1. /\ Superstep(r, n, t) /\ phase[r] = "running" /\ steps[r] < RecursionLimit
        /\ next'[r] = NextNode(n, t)
    BY MoveIsLocal DEF Moves, Running
  <1>2. SUFFICES ASSUME phase'[r] = "running"
                 PROVE  steps'[r] = steps[r] + 1 /\ next'[r] \in Nodes
    BY <1>1
  <1>3. NextNode(n, t) \notin {"raise", "END"}
    BY <1>1, <1>2 DEF Superstep, Raise, Deliver, TypeOK
  <1>4. steps'[r] = steps[r] + 1
    BY <1>1, <1>3 DEF Superstep, TypeOK
  <1>5. QED
    BY <1>1, <1>3, <1>4, NextNodeType

LEMMA AdvanceStep ==
  ASSUME TypeOK, TypeOK', [Next]_vars, NEW r \in Runs, LiveOK(r)
  PROVE  LiveOK(r)' /\ AdvancesOf(r)
  <1> USE DEF graphVars, callVars, chatVars, uiVars, reviewVars
  <1>0. /\ steps[r] \in Nat /\ steps'[r] \in Nat /\ RecursionLimit \in Nat
        /\ next'[r] \in Nodes \cup {"END"}
    BY LimitAssumption DEF TypeOK
  <1>a. ASSUME steps'[r] = steps[r], next'[r] = next[r], ~ NodeStep(r),
               phase'[r] \in {"idle", "running"} => phase[r] \in {"idle", "running"}
        PROVE  LiveOK(r)' /\ AdvancesOf(r)
    BY <1>0, <1>a DEF LiveOK, AdvancesOf
  <1>1. CASE NodeStep(r)
    <2>1. CASE Raise(r)
      <3>1. phase'[r] = "raised"
        BY <2>1 DEF Raise, TypeOK
      <3>2. QED
        BY <3>1 DEF LiveOK, AdvancesOf
    <2>2. ASSUME NEW n \in Nodes, NEW t \in AgentState, Moves(r, n, t)
          PROVE  LiveOK(r)' /\ AdvancesOf(r)
      <3>1. phase'[r] # "idle"
        <4>1. phase[r] = "running" /\ phase \in [Runs -> Phases]
          BY <2>2 DEF Moves, Running, TypeOK
        <4>2. \/ phase' = [phase EXCEPT ![r] = "raised"]
              \/ phase' = [phase EXCEPT ![r] = "returned"]
              \/ phase' = phase
          BY <2>2 DEF Moves, Superstep, Raise, Deliver
        <4>3. QED
          BY <4>1, <4>2
      <3>2. phase'[r] = "running" =>
                /\ steps[r] < RecursionLimit /\ steps'[r] = steps[r] + 1
                /\ next'[r] \in Nodes
        BY <2>2, SuperstepAdvances
      <3>3. QED
        BY <1>0, <3>1, <3>2 DEF LiveOK, AdvancesOf
    <2>3. QED
      BY <1>1, <2>1, <2>2, NodeStepMoves
  <1>2. ASSUME NEW q \in Runs, q # r, NodeStep(q), ~ NodeStep(r)
        PROVE  LiveOK(r)' /\ AdvancesOf(r)
    <2>1. CASE OutOfSteps(q)
      <3>1. phase'[r] = phase[r] /\ UNCHANGED <<steps, next>>
        BY <1>2, <2>1 DEF OutOfSteps, Raise, TypeOK
      <3>2. QED
        BY <1>2, <3>1, <1>a
    <2>2. CASE ~ OutOfSteps(q)
      <3>1. PICK n \in Nodes, s \in AgentState : SuperstepOf(q, n, s)
        BY <1>2, <2>2, NodeStepIsSuperstep
      <3>2. phase'[r] = phase[r]
        BY <1>2, <3>1 DEF SuperstepOf, Superstep, Raise, Deliver, TypeOK
      <3>3. next'[r] = next[r] /\ steps'[r] = steps[r]
        BY <1>2, <3>1 DEF SuperstepOf, Superstep, TypeOK
      <3>4. QED
        BY <1>2, <3>2, <3>3, <1>a
    <2>3. QED
      BY <2>1, <2>2
  <1>3. ASSUME NEW q \in Runs, NEW c, Start(q, c), ~ NodeStep(r)
        PROVE  LiveOK(r)' /\ AdvancesOf(r)
    <2>1. /\ UNCHANGED <<steps, next>>
          /\ phase'[r] = phase[r] \/ phase[r] = "idle"
      BY <1>3 DEF Start, TypeOK
    <2>2. QED
      BY <1>3, <2>1, <1>a
  <1>4. ASSUME NEW q \in Runs, NEW c, Resume(q, c), ~ NodeStep(r)
        PROVE  LiveOK(r)' /\ AdvancesOf(r)
    <2>1. CASE q # r
      <3>1. phase'[r] = phase[r] /\ steps'[r] = steps[r] /\ next' = next
        BY <1>4, <2>1 DEF Resume, Deliver, TypeOK
      <3>2. QED
        BY <1>4, <3>1, <1>a
    <2>2. CASE q = r
      <3>1. phase[r] # "running" /\ phase'[r] \in {"returned", "running"}
        BY <1>4, <2>2 DEF Resume, Deliver, TypeOK
      <3>2. phase'[r] = "running" => next'[r] \in Nodes /\ steps'[r] = 0
        BY <1>0, <1>4, <2>2 DEF Resume, Deliver, TypeOK
      <3>3. QED
        BY <1>0, <3>1, <3>2 DEF LiveOK, AdvancesOf
    <2>3. QED
      BY <2>1, <2>2
  <1>5. ASSUME NEW q \in Runs, RerunDuringTurn(q), ~ NodeStep(r)
        PROVE  LiveOK(r)' /\ AdvancesOf(r)
    <2>1. UNCHANGED <<steps, next>> /\ phase'[r] \in {phase[r], "dropped"}
      BY <1>5 DEF RerunDuringTurn, TypeOK
    <2>2. QED
      BY <1>5, <2>1, <1>a
  <1>6. ASSUME ProcessDies, ~ NodeStep(r) PROVE LiveOK(r)' /\ AdvancesOf(r)
    <2>1. UNCHANGED <<steps, next>> /\ phase'[r] \in {phase[r], "dropped", "lost"}
      BY <1>6 DEF ProcessDies, TypeOK
    <2>2. QED
      BY <1>6, <2>1, <1>a
  <1>7. CASE UNCHANGED <<steps, next, phase>> /\ ~ NodeStep(r)
    BY <1>7, <1>a
  <1>8. CASE ~ (\E q \in Runs : NodeStep(q)) /\ ~ UNCHANGED <<steps, next, phase>>
    BY <1>3, <1>4, <1>5, <1>6, <1>8
       DEF Next, RunQuery, RunNewQuery, ResumeReview, WidgetClick, WidgetDecide,
           WidgetResume, AppendMessage, NewChat, CrashAfterEnqueue,
           CrashAfterGenerate, Crash, CliApprove, CliReject, vars
  <1>9. QED
    BY <1>1, <1>2, <1>7, <1>8

\* A running invocation always has a node to take and at most RecursionLimit
\* supersteps to go, each node step ends it or uses one up, and nobody gives
\* one back: all of InvocationsReturn but that the steps are taken.
THEOREM InvocationsProgress == Spec => []NeverStuck /\ InvocationsAdvance
  <1> DEFINE Lives == \A r \in Runs : LiveOK(r)
  <1>1. Init => Lives
    BY LimitAssumption DEF Init, LiveOK, Nodes
  <1>2. TypeOK /\ TypeOK' /\ Lives /\ [Next]_vars => Lives'
    BY AdvanceStep
  <1>3. TypeOK /\ TypeOK' /\ Lives /\ [Next]_vars => [ \A r \in Runs : AdvancesOf(r) ]_vars
    BY AdvanceStep
  <1>4. Lives => NeverStuck
    BY LimitAssumption DEF LiveOK, NeverStuck
  <1> HIDE DEF Lives
  <1>5. QED
    BY TypeCorrect, <1>1, <1>2, <1>3, <1>4, PTL DEF Spec, InvocationsAdvance

=============================================================================
