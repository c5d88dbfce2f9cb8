----------------------------- MODULE NodeCalls -----------------------------
(***************************************************************************)
(* One run of the graph seen from inside its nodes: resilient_node around  *)
(* traced_node around the node function.  A call is up to three attempts   *)
(* and one more on the fallback provider; an attempt goes through the      *)
(* node's operations one by one, changes the dict it was given in place,   *)
(* and may raise at each operation that calls something.                   *)
(*                                                                         *)
(* LangGraph hands each node a dict of the checkpointed channels (draft)   *)
(* and writes the dict that comes back to the next checkpoint (state,      *)
(* provider).  The pause before await_decision is QueryGraph's subject.    *)
(***************************************************************************)
EXTENDS AgentNodes

CONSTANTS
    Providers, NoProvider, \* values of _force_provider
    Chosen,         \* what the caller puts in _force_provider
    Fallback,       \* FALLBACK_PROVIDER
    CriticEnabled,  \* AGENTIC_CRITIC_ENABLED
    Decisions,      \* bound: the review row as await_decision may find it
    MaxFailures     \* bound on operations that raise by themselves

ASSUME ProviderAssumption ==
    Fallback \in Providers /\ Chosen \in Providers \cup {NoProvider}
ASSUME CriticAssumption == CriticEnabled \in BOOLEAN
ASSUME DecisionsAssumption ==
    Decisions \subseteq [status : {"pending", "approved", "rejected"},
                         decision_sql : Sql]
ASSUME FailuresAssumption == MaxFailures \in Nat

VARIABLES
    state, provider, node, \* the checkpoint, and the node to call next
    attempt,  \* 0: no call; 1 to MaxAttempts; Recovery
    done,     \* operations of the attempt that are done
    draft,    \* the dict the node was called with, as it is now
    local,    \* what the attempt's operations have returned
    rows,     \* review rows this run has inserted
    spans     \* agent_step lines of the latest call with status "error"

VARIABLES
    failures,  \* history: operations that raised by themselves
    recovered, \* history: a node has used up its three attempts
    givenUp,   \* history: a node has failed for good
    asked      \* history: the values of provider= that models were built with

checkpointVars == <<state, provider, node>>
callVars       == <<attempt, done, draft, local>>
historyVars    == <<failures, recovered, givenUp, asked>>
vars == <<checkpointVars, callVars, rows, spans, historyVars>>

MaxAttempts == 3

Recovery == MaxAttempts + 1

\* Bound: error lines of one call that are told apart.
MaxSpans == Recovery + 1

Draft == [agent : AgentState, provider : Providers \cup {NoProvider}]

Pending == [status |-> "pending", decision_sql |-> NoSql]

NoLocal == [stmt |-> EmptyStmt, row |-> Pending, flag |-> FALSE]

Init ==
    /\ state = InitialState
    /\ provider = Chosen
    /\ node = "input_guard"
    /\ attempt = 0 /\ done = 0
    /\ draft = [agent |-> InitialState, provider |-> Chosen]
    /\ local = NoLocal
    /\ rows = 0 /\ spans = 0
    /\ failures = 0 /\ asked = {}
    /\ recovered = FALSE /\ givenUp = FALSE

---------------------------------------------------------------------------
(* The node functions as sequences of operations.                          *)

\* Mutant: the attempt is recorded before the row limit is applied.
AppendFirst == <<"read_schema", "check_sql", "append_attempt",
                 "apply_row_limit">>

ValidatorBody == <<"read_schema", "check_sql", "apply_row_limit",
                   "append_attempt">>

\* Mutant: the row is read back before its id goes on the state.
EnqueueAndReadBack == <<"enqueue", "get", "write_review">>

EnqueueBody == <<"enqueue", "write_review">>

\* critic returns at once when it is disabled or the run is no success.
Body(n, agent) ==
    CASE n = "input_guard"        -> <<"check_rate_limit", "check_input",
                                       "mask_query", "write_masked">>
      [] n = "schema_retriever"   -> <<"read_schema">>
      [] n = "sql_generator"      -> <<"model", "write_sql">>
      [] n = "sql_validator"      -> ValidatorBody
      [] n = "enqueue_review"     -> EnqueueBody
      [] n = "await_decision"     -> <<"get", "write_decision">>
      [] n = "sql_executor"       -> <<"execute", "write_rows">>
      [] n = "response_formatter" -> <<"mask_rows", "model", "check_output",
                                       "write_answer">>
      [] n = "critic"             ->
             IF CriticEnabled /\ agent.status = "success"
             THEN <<"model", "write_feedback">> ELSE <<>>

Operations == Body(node, draft.agent)

Calls == {"check_rate_limit", "check_input", "mask_query", "read_schema",
          "model", "check_sql", "apply_row_limit", "enqueue", "get",
          "execute", "mask_rows", "check_output"}

Write(op, agent) ==
    CASE op = "write_masked"    -> AcceptInput(agent)
      [] op = "write_sql"       -> SqlGenerator(agent, local.stmt)
      [] op = "apply_row_limit" ->
             IF CheckSql(agent.final_sql)
             THEN [agent EXCEPT !.final_sql = ApplyRowLimit(@)] ELSE agent
      [] op = "append_attempt"  ->
             [agent EXCEPT !.sql_attempts =
                 Append(@, [sql |-> agent.final_sql,
                            valid |-> CheckSql(agent.final_sql)])]
      [] op = "write_review"    -> EnqueueReview(agent, rows)
      [] op = "write_decision"  -> AwaitDecision(agent, local.row)
      [] op = "write_rows"      -> SqlExecutor(agent)
      [] op = "write_answer"    -> ResponseFormatter(agent, local.flag)
      [] op = "write_feedback"  -> IF local.flag THEN Criticise(agent) ELSE agent
      [] OTHER                  -> agent

\* Some inputs make an operation raise each time it is tried.
MustRaise(op) ==
    \/ op = "check_sql" /\ draft.agent.final_sql.stmt \notin Parses
    \/ op = "get" /\ draft.agent.review_id = 0
    \/ op = "execute" /\ draft.agent.final_sql.stmt = EmptyStmt

\* What an operation that returns leaves in local variables.
Returned(op) ==
    CASE op = "model" /\ node = "sql_generator" ->
             {[local EXCEPT !.stmt = stmt] : stmt \in Stmts}
      [] op = "model" /\ node = "critic" ->
             {[local EXCEPT !.flag = fails] : fails \in BOOLEAN}
      [] op = "get"          -> {[local EXCEPT !.row = row] : row \in Decisions}
      [] op = "check_output" -> {[local EXCEPT !.flag = leak] : leak \in BOOLEAN}
      [] OTHER               -> {local}

---------------------------------------------------------------------------
(* The wrapper.                                                            *)

BeginCall ==
    /\ attempt = 0 /\ node # "END"
    /\ attempt' = 1
    /\ spans' = 0
    /\ UNCHANGED <<checkpointVars, done, draft, local, rows, historyVars>>

CurrentOperation == Operations[done + 1]

InOperation == attempt > 0 /\ done < Len(Operations)

Operate ==
    /\ InOperation
    /\ LET op == CurrentOperation IN
       /\ ~ MustRaise(op)
       /\ local' \in Returned(op)
       /\ draft' = [draft EXCEPT !.agent = Write(op, @)]
       /\ rows' = IF op = "enqueue" THEN rows + 1 ELSE rows
       /\ asked' = IF op = "model" THEN asked \cup {draft.provider} ELSE asked
    /\ done' = done + 1
    /\ UNCHANGED <<checkpointVars, attempt, spans, failures, recovered, givenUp>>

\* input_guard returns early, over the limit or blocked.
RefuseQuestion ==
    /\ InOperation
    /\ CurrentOperation \in {"check_rate_limit", "check_input"}
    /\ draft' = [draft EXCEPT !.agent = RefuseInput(@)]
    /\ done' = Len(Operations)
    /\ UNCHANGED <<checkpointVars, attempt, local, rows, spans, historyVars>>

\* The superstep ends with the dict that came back, unless a router raises.
EndCall(agent) ==
    LET to == NextNode(node, agent) IN
    /\ IF to = "raise"
       THEN UNCHANGED checkpointVars
       ELSE /\ state' = agent
            /\ provider' = draft.provider
            /\ node' = to
    /\ attempt' = 0 /\ done' = 0 /\ local' = NoLocal
    /\ draft' = [agent |-> state', provider |-> provider']

\* traced_node logs the status of the dict, whichever node put it there.
Return ==
    /\ attempt > 0 /\ done = Len(Operations)
    /\ EndCall(draft.agent)
    /\ spans' = IF draft.agent.status = "error" THEN spans + 1 ELSE spans
    /\ UNCHANGED <<rows, historyVars>>

\* Mutants: the recovery is counted as one of the attempts that are retried;
\* the fallback provider is used from the second attempt on.
RetryRecovery ==
    /\ attempt' = attempt + 1
    /\ done' = 0 /\ local' = NoLocal
    /\ recovered' = (recovered \/ attempt = MaxAttempts)
    /\ draft' = IF attempt = MaxAttempts
                THEN [draft EXCEPT !.provider = Fallback] ELSE draft
    /\ UNCHANGED <<checkpointVars, givenUp>>

RetryOnFallback ==
    /\ attempt < Recovery
    /\ attempt' = attempt + 1
    /\ done' = 0 /\ local' = NoLocal
    /\ recovered' = (recovered \/ attempt = MaxAttempts)
    /\ draft' = [draft EXCEPT !.provider = Fallback]
    /\ UNCHANGED <<checkpointVars, givenUp>>

\* The same dict, with whatever the attempt has written to it.
Retry ==
    /\ attempt < Recovery
    /\ attempt' = attempt + 1
    /\ done' = 0 /\ local' = NoLocal
    /\ recovered' = (recovered \/ attempt = MaxAttempts)
    /\ draft' = IF attempt = MaxAttempts
                THEN [draft EXCEPT !.provider = Fallback] ELSE draft
    /\ UNCHANGED <<checkpointVars, givenUp>>

GiveUp ==
    /\ attempt = Recovery
    /\ EndCall(FailPermanently(draft.agent, node))
    /\ givenUp' = TRUE
    /\ UNCHANGED recovered

\* Mutant: only the outcome of the whole call is logged.
LogRaise == spans' = IF attempt = Recovery THEN spans + 1 ELSE spans

\* traced_node is inside resilient_node: it logs each attempt that raises.
LogAttempt == spans' = IF spans < MaxSpans THEN spans + 1 ELSE spans

RaiseInOperation ==
    /\ InOperation
    /\ LET op == CurrentOperation IN
       /\ op \in Calls
       /\ \/ MustRaise(op) /\ UNCHANGED failures
          \/ ~ MustRaise(op) /\ failures < MaxFailures /\ failures' = failures + 1
       /\ asked' = IF op = "model" THEN asked \cup {draft.provider} ELSE asked
    /\ LogAttempt
    /\ Retry \/ GiveUp
    /\ UNCHANGED rows

Step == Operate \/ RefuseQuestion \/ RaiseInOperation \/ Return

Next == BeginCall \/ Step

Spec == Init /\ [][Next]_vars

---------------------------------------------------------------------------
(* Properties.                                                             *)

\* Every variable stays in its domain; there is no fifth attempt.
TypeOK ==
    /\ state \in AgentState /\ provider \in Providers \cup {NoProvider}
    /\ node \in Nodes \cup {"END"}
    /\ attempt \in 0 .. Recovery
    /\ done \in Nat
    /\ draft \in Draft
    /\ rows \in Nat /\ spans \in 0 .. MaxSpans /\ failures \in Nat
    /\ recovered \in BOOLEAN /\ givenUp \in BOOLEAN
    /\ asked \subseteq Providers \cup {NoProvider}

Atomic == INSTANCE AtomicNodes

\* Retries are invisible to the graph (graph.py:17-18): whatever attempts
\* raise half way on the dict they share, a checkpoint is followed by one
\* whole result of the node or by its own state with the error on it.
CallsAreAtomic == Atomic!Spec

\* The review row a retried enqueue_review has inserted is the one whose id
\* the run carries; an attempt that raises leaves no row behind.
NoOrphanRows == attempt = 0 => rows = state.review_id

\* Models are built for the provider the session chose (streamlit_app.py:197)
\* until some node of the run has used up its three attempts, and then for
\* that one or the fallback.
ChosenModelFirst ==
    asked \subseteq {Chosen} \cup (IF recovered THEN {Fallback} ELSE {})

\* "retries are re-traced per attempt" (tracing.py:59): each raised attempt
\* leaves an error line, and a node that returns leaves one only in a run in
\* which an earlier node failed for good.
ErrorLinesAreFailures ==
    /\ [][ attempt > 0 /\ attempt' > 0 => spans' = attempt' - 1 ]_vars
    /\ [][ Return => spans' = attempt - 1 \/ givenUp ]_vars
============================================================================
