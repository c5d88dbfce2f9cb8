---------------------------- MODULE QueryGraph ----------------------------
(***************************************************************************)
(* The compiled graph of graph.py with its callers: run_query and          *)
(* resume_review, the Streamlit chat turn and review widget, and the       *)
(* review CLI.  One run is one LangGraph thread (thread_id = trace_id).    *)
(*                                                                         *)
(* A step is one superstep of the graph: a node runs on the state of the   *)
(* last checkpoint, its result and the node to run next become the next    *)
(* checkpoint.  Between two supersteps anything else may happen: another   *)
(* run's step, a reviewer's decision, a rerun of the Streamlit script, a   *)
(* crash of the process.                                                   *)
(***************************************************************************)
EXTENDS ReviewQueue, FiniteSets

CONSTANTS
    RecursionLimit,  \* LangGraph's bound on the supersteps of one invoke
    CriticEnabled,   \* AGENTIC_CRITIC_ENABLED
    Durable,         \* Postgres checkpointer (TRUE) or MemorySaver (FALSE)
    InterruptMarker, \* stream() ends a pause with an {"__interrupt__": ()} update
    Corrections,     \* bound: the statements a reviewer types in
    FailingNodes,    \* bound: the nodes that may fail on any input
    MaxCrashes,      \* bound on process crashes
    MaxActivity      \* bound on the activity_log rows counted per run

ASSUME LimitAssumption == RecursionLimit \in Nat
ASSUME SwitchAssumption ==
    {CriticEnabled, Durable, InterruptMarker} \subseteq BOOLEAN
ASSUME BoundAssumption ==
    /\ Corrections \subseteq Stmts /\ FailingNodes \subseteq Nodes
    /\ MaxCrashes \in Nat /\ MaxActivity \in Nat

VARIABLES
    state,     \* the checkpointed AgentState of each run
    next,      \* the node the checkpoint names next, or "END"
    phase,     \* where the latest invocation of the run stands
    caller,    \* who made that invocation
    steps,     \* supersteps it has taken
    queue,     \* the review_queue table
    streamed,  \* status the chat script holds between stream and append
    shown,     \* status held by the run's chat message, "none" if no message
    widget,    \* the review widget: idle, clicked or decided
    activity,  \* activity_log rows of the run
    crashes    \* crashes so far

VARIABLES
    generations, \* history: how often sql_generator ran, up to Overrun
    approvals    \* history: every [id, sql] a reviewer ever approved

graphVars  == <<state, next, steps>>
callVars   == <<phase, caller>>
chatVars   == <<streamed, shown>>
uiVars     == <<chatVars, widget>>
reviewVars == <<queue, approvals>>
vars == <<graphVars, generations, callVars, uiVars, reviewVars, activity,
          crashes>>

(***************************************************************************)
(* "raised": the invocation ended in an exception; "dropped": its process  *)
(* or script run went away under it; "lost": so did the checkpoint.        *)
(***************************************************************************)
Phases == {"idle", "running", "returned", "raised", "dropped", "lost"}

Callers == {"none", "run_query", "run_new_query", "resume_review", "widget"}

Init ==
    /\ state = [r \in Runs |-> InitialState]
    /\ next = [r \in Runs |-> "input_guard"]
    /\ phase = [r \in Runs |-> "idle"]
    /\ caller = [r \in Runs |-> "none"]
    /\ steps = [r \in Runs |-> 0]
    /\ queue = <<>>
    /\ streamed = [r \in Runs |-> "none"]
    /\ shown = [r \in Runs |-> "none"]
    /\ widget = [r \in Runs |-> "idle"]
    /\ activity = [r \in Runs |-> 0]
    /\ crashes = 0
    /\ generations = [r \in Runs |-> 0]
    /\ approvals = {}

---------------------------------------------------------------------------
(* Invocations.                                                            *)

\* A thread is started once: its id is a fresh uuid4.
Start(r, c) ==
    /\ phase[r] = "idle"
    /\ phase' = [phase EXCEPT ![r] = "running"]
    /\ caller' = [caller EXCEPT ![r] = c]
    /\ UNCHANGED <<graphVars, generations, uiVars, reviewVars, activity, crashes>>

RunQuery(r)    == Start(r, "run_query")
RunNewQuery(r) == Start(r, "run_new_query")

\* _log_activity is best effort: it may leave no row.
LogActivity(r) ==
    activity' \in {activity,
                   [activity EXCEPT ![r] = IF @ < MaxActivity THEN @ + 1 ELSE @]}

(***************************************************************************)
(* invoke or stream returns state s: run_query and resume_review log it,   *)
(* the widget puts it in the run's message, the chat turn keeps it for the *)
(* message it is going to append.                                          *)
(***************************************************************************)
Deliver(r, c, s) ==
    /\ phase' = [phase EXCEPT ![r] = "returned"]
    /\ IF c \in {"run_query", "resume_review", "widget"}
       THEN LogActivity(r)
       ELSE UNCHANGED activity
    /\ streamed' = IF c = "run_new_query"
                   THEN [streamed EXCEPT ![r] = s.status]
                   ELSE streamed
    /\ shown' = IF c = "widget" THEN [shown EXCEPT ![r] = s.status] ELSE shown

Raise(r) ==
    /\ phase' = [phase EXCEPT ![r] = "raised"]
    /\ UNCHANGED <<chatVars, activity>>

\* The node to run is n, and the recursion limit leaves room for it.
Running(r, n) ==
    phase[r] = "running" /\ next[r] = n /\ steps[r] < RecursionLimit

\* Mutant: supersteps are not counted.
SuperstepUncounted(r, n, s) ==
    LET to == NextNode(n, s) IN
    IF to = "raise"
    THEN Raise(r) /\ UNCHANGED <<state, next, steps>>
    ELSE /\ state' = [state EXCEPT ![r] = s]
         /\ next' = [next EXCEPT ![r] = to]
         /\ steps' = steps
         /\ IF to \in {"await_decision", "END"}
            THEN Deliver(r, caller[r], s)
            ELSE UNCHANGED <<phase, chatVars, activity>>

(***************************************************************************)
(* Node n of run r has returned s.  If the router raises, the superstep    *)
(* writes nothing.  Before await_decision the graph is interrupted and the *)
(* caller gets the paused state; the stream loop of run_new_query reads    *)
(* node_state.get of every update, which the interrupt's () has not.       *)
(***************************************************************************)
Superstep(r, n, s) ==
    LET to == NextNode(n, s) IN
    IF to = "raise"
    THEN Raise(r) /\ UNCHANGED <<state, next, steps>>
    ELSE /\ state' = [state EXCEPT ![r] = s]
         /\ next' = [next EXCEPT ![r] = to]
         /\ steps' = [steps EXCEPT ![r] = @ + 1]
         /\ IF to = "await_decision" /\ caller[r] = "run_new_query"
                                     /\ InterruptMarker
            THEN Raise(r)
            ELSE IF to \in {"await_decision", "END"}
            THEN Deliver(r, caller[r], s)
            ELSE UNCHANGED <<phase, chatVars, activity>>

NodeFrame == UNCHANGED <<caller, widget, crashes>>

---------------------------------------------------------------------------
(* One action per node.                                                    *)

InputGuard(r) ==
    /\ Running(r, "input_guard")
    /\ \E s \in {RefuseInput(state[r]), AcceptInput(state[r])} :
           Superstep(r, "input_guard", s)
    /\ UNCHANGED <<generations, reviewVars>> /\ NodeFrame

\* schema_context is data no route looks at.
SchemaRetriever(r) ==
    /\ Running(r, "schema_retriever")
    /\ Superstep(r, "schema_retriever", state[r])
    /\ UNCHANGED <<generations, reviewVars>> /\ NodeFrame

\* One generation more than the cap allows is all the history tells apart.
Overrun == MaxRegenerationAttempts + MaxCrashes + 2

CountGeneration(r) ==
    generations' = [generations EXCEPT
                       ![r] = IF @ < Overrun THEN @ + 1 ELSE @]

GenerateSql(r) ==
    /\ Running(r, "sql_generator")
    /\ \E stmt \in Stmts :
           Superstep(r, "sql_generator", SqlGenerator(state[r], stmt))
    /\ CountGeneration(r)
    /\ UNCHANGED reviewVars /\ NodeFrame

ValidateSql(r) ==
    /\ Running(r, "sql_validator")
    /\ state[r].final_sql.stmt \in Parses
    /\ Superstep(r, "sql_validator", SqlValidator(state[r]))
    /\ UNCHANGED <<generations, reviewVars>> /\ NodeFrame

EnqueueForReview(r) ==
    /\ Running(r, "enqueue_review")
    /\ queue' = Enqueue(queue, r, state[r].sql_attempts)
    /\ Superstep(r, "enqueue_review", EnqueueReview(state[r], Len(queue')))
    /\ UNCHANGED <<generations, approvals>> /\ NodeFrame

\* state["human_review"] raises when enqueue_review failed permanently.
ReadDecision(r) ==
    /\ Running(r, "await_decision")
    /\ state[r].review_id \in DOMAIN queue
    /\ Superstep(r, "await_decision",
                 AwaitDecision(state[r], queue[state[r].review_id]))
    /\ UNCHANGED <<generations, reviewVars>> /\ NodeFrame

\* The empty statement has no cursor.description and raises.
ExecuteSql(r) ==
    /\ Running(r, "sql_executor")
    /\ state[r].final_sql.stmt # EmptyStmt
    /\ Superstep(r, "sql_executor", SqlExecutor(state[r]))
    /\ UNCHANGED <<generations, reviewVars>> /\ NodeFrame

FormatResponse(r) ==
    /\ Running(r, "response_formatter")
    /\ \E leak \in BOOLEAN :
           Superstep(r, "response_formatter", ResponseFormatter(state[r], leak))
    /\ UNCHANGED <<generations, reviewVars>> /\ NodeFrame

Judges(s) == CriticEnabled /\ s.status = "success"

\* Disabled, not successful, passed or unreadable verdict: nothing changes.
Critic(r) ==
    /\ Running(r, "critic")
    /\ \/ Superstep(r, "critic", state[r])
       \/ /\ Judges(state[r])
          /\ Superstep(r, "critic", Criticise(state[r]))
    /\ UNCHANGED <<generations, reviewVars>> /\ NodeFrame

\* Every node reaches a database, a service or a model, a critic that
\* judges nothing excepted; some inputs make a node fail each time.
CanFail(n, s) == n \in FailingNodes /\ (n = "critic" => Judges(s))

MustFail(n, s) ==
    \/ n = "sql_validator" /\ s.final_sql.stmt \notin Parses
    \/ n = "await_decision" /\ s.review_id \notin DOMAIN queue
    \/ n = "sql_executor" /\ s.final_sql.stmt = EmptyStmt

NodeFails(r) ==
    /\ \E n \in Nodes :
           /\ Running(r, n)
           /\ CanFail(n, state[r]) \/ MustFail(n, state[r])
           /\ Superstep(r, n, FailPermanently(state[r], n))
    /\ IF next[r] = "sql_generator" THEN CountGeneration(r)
                                    ELSE UNCHANGED generations
    /\ UNCHANGED reviewVars /\ NodeFrame

\* GraphRecursionError; the checkpoints written so far stay.
OutOfSteps(r) ==
    /\ phase[r] = "running"
    /\ steps[r] >= RecursionLimit
    /\ Raise(r)
    /\ UNCHANGED <<graphVars, generations, reviewVars>> /\ NodeFrame

NodeStep(r) ==
    \/ InputGuard(r)       \/ SchemaRetriever(r) \/ GenerateSql(r)
    \/ ValidateSql(r)      \/ EnqueueForReview(r) \/ ReadDecision(r)
    \/ ExecuteSql(r)       \/ FormatResponse(r)  \/ Critic(r)
    \/ NodeFails(r)        \/ OutOfSteps(r)

---------------------------------------------------------------------------
(* Resuming and reviewing.                                                 *)

\* Mutant: resuming an escalated run that has ended puts it back before
\* await_decision.
ResumeReopens(r, c) ==
    /\ phase[r] \in {"returned", "raised", "dropped"}
    /\ caller' = [caller EXCEPT ![r] = c]
    /\ phase' = [phase EXCEPT ![r] = "running"]
    /\ steps' = [steps EXCEPT ![r] = 0]
    /\ next' = [next EXCEPT ![r] = IF @ = "END" THEN "await_decision" ELSE @]
    /\ UNCHANGED <<state, generations, reviewVars, crashes, chatVars, activity>>

(***************************************************************************)
(* invoke(None, config): goes on at the checkpoint's next node, past the   *)
(* interrupt; with nothing left to run it returns the checkpointed state.  *)
(***************************************************************************)
Resume(r, c) ==
    /\ phase[r] \in {"returned", "raised", "dropped"}
    /\ caller' = [caller EXCEPT ![r] = c]
    /\ IF next[r] = "END"
       THEN Deliver(r, c, state[r]) /\ UNCHANGED steps
       ELSE /\ phase' = [phase EXCEPT ![r] = "running"]
            /\ steps' = [steps EXCEPT ![r] = 0]
            /\ UNCHANGED <<chatVars, activity>>
    /\ UNCHANGED <<state, next, generations, reviewVars, crashes>>

ResumeReview(r) == Resume(r, "resume_review") /\ UNCHANGED widget

\* The rerun after a click finds the row still pending.
WidgetClick(r) ==
    /\ widget[r] = "idle"
    /\ shown[r] = "escalated"
    /\ IsPending(queue, state[r].review_id)
    /\ widget' = [widget EXCEPT ![r] = "clicked"]
    /\ UNCHANGED <<graphVars, generations, callVars, chatVars, reviewVars,
                   activity, crashes>>

DecideRow(id, approved, sql) ==
    /\ queue' = Decide(queue, id, approved, sql)
    /\ approvals' = IF approved THEN approvals \cup {[id |-> id, sql |-> sql]}
                                ELSE approvals

\* The text area starts with the last failed attempt.
WidgetDecide(r) ==
    /\ widget[r] = "clicked"
    /\ \E id \in {state[r].review_id} \cap DOMAIN queue :
           \/ \E sql \in {Raw(stmt) : stmt \in Corrections}
                            \cup {LatestFailedSql(queue[id])} :
                  DecideRow(id, TRUE, sql)
           \/ DecideRow(id, FALSE, NoSql)
    /\ widget' = [widget EXCEPT ![r] = "decided"]
    /\ UNCHANGED <<graphVars, generations, callVars, chatVars, activity, crashes>>

\* Mutant: the widget decides like the CLI and does not resume the run.
WidgetForgets(r) ==
    /\ widget[r] = "decided"
    /\ widget' = [widget EXCEPT ![r] = "idle"]
    /\ UNCHANGED <<graphVars, generations, callVars, chatVars, reviewVars,
                   activity, crashes>>

WidgetResume(r) ==
    /\ widget[r] = "decided"
    /\ Resume(r, "widget")
    /\ widget' = [widget EXCEPT ![r] = "idle"]

\* cmd_approve: --sql, or the last failed attempt when it is absent or "".
CliApprove(id) ==
    /\ id \in DOMAIN queue
    /\ \E sql \in {Raw(stmt) : stmt \in Corrections \ {EmptyStmt}}
                     \cup {LatestFailedSql(queue[id])} :
           DecideRow(id, TRUE, sql)
    /\ UNCHANGED <<graphVars, generations, callVars, uiVars, activity, crashes>>

CliReject(id) ==
    /\ id \in DOMAIN queue
    /\ DecideRow(id, FALSE, NoSql)
    /\ UNCHANGED <<graphVars, generations, callVars, uiVars, activity, crashes>>

---------------------------------------------------------------------------
(* The Streamlit session and the process under the runs.                   *)

\* The turn's script run goes on from the end of the stream to the append.
AppendMessage(r) ==
    /\ streamed[r] # "none"
    /\ shown' = [shown EXCEPT ![r] = streamed[r]]
    /\ streamed' = [streamed EXCEPT ![r] = "none"]
    /\ UNCHANGED <<graphVars, generations, callVars, widget, reviewVars,
                   activity, crashes>>

(***************************************************************************)
(* Any click while the turn runs ends its script run in a st call: in the  *)
(* stream, or in the replay of the answer, before the message is appended. *)
(***************************************************************************)
RerunDuringTurn(r) ==
    /\ \/ /\ phase[r] = "running" /\ caller[r] = "run_new_query"
          /\ phase' = [phase EXCEPT ![r] = "dropped"]
          /\ UNCHANGED streamed
       \/ /\ streamed[r] # "none"
          /\ streamed' = [streamed EXCEPT ![r] = "none"]
          /\ UNCHANGED phase
    /\ UNCHANGED <<graphVars, generations, caller, shown, widget, reviewVars,
                   activity, crashes>>

\* "New chat" and "Log out" empty the messages, between two script runs.
NewChat(r) ==
    /\ shown[r] # "none" /\ widget[r] = "idle"
    /\ ~ (phase[r] = "running" /\ caller[r] = "widget")
    /\ shown' = [shown EXCEPT ![r] = "none"]
    /\ UNCHANGED <<graphVars, generations, callVars, streamed, widget,
                   reviewVars, activity, crashes>>

\* The process dies: its sessions with it, and a MemorySaver's checkpoints.
ProcessDies ==
    /\ crashes < MaxCrashes
    /\ crashes' = crashes + 1
    /\ phase' = [r \in Runs |->
                    CASE phase[r] = "idle" -> "idle"
                      [] phase[r] # "idle" /\ ~Durable -> "lost"
                      [] phase[r] = "running" /\ Durable -> "dropped"
                      [] OTHER -> phase[r]]
    /\ streamed' = [r \in Runs |-> "none"]
    /\ shown' = [r \in Runs |-> "none"]
    /\ widget' = [r \in Runs |-> "idle"]
    /\ UNCHANGED <<graphVars, caller, activity, approvals>>

Crash == ProcessDies /\ UNCHANGED <<generations, queue>>

\* Between the INSERT's commit and the checkpoint of its superstep.
CrashAfterEnqueue(r) ==
    /\ Running(r, "enqueue_review")
    /\ queue' = Enqueue(queue, r, state[r].sql_attempts)
    /\ ProcessDies /\ UNCHANGED generations

\* Between the model's reply and the checkpoint: the reply is lost, the call
\* was made.
CrashAfterGenerate(r) ==
    /\ Running(r, "sql_generator")
    /\ CountGeneration(r)
    /\ ProcessDies /\ UNCHANGED queue

Next ==
    \/ \E r \in Runs :
           \/ RunQuery(r)     \/ RunNewQuery(r)  \/ NodeStep(r)
           \/ ResumeReview(r) \/ WidgetClick(r)  \/ WidgetDecide(r)
           \/ WidgetResume(r) \/ AppendMessage(r) \/ RerunDuringTurn(r)
           \/ NewChat(r)      \/ CrashAfterEnqueue(r)
           \/ CrashAfterGenerate(r)
    \/ \E id \in DOMAIN queue : CliApprove(id) \/ CliReject(id)
    \/ Crash

Spec == Init /\ [][Next]_vars

(***************************************************************************)
(* The nodes that call a model: the embedding model of semantic retrieval, *)
(* the chat models of the others.  model_factory gives their clients no    *)
(* timeout, so such a call may never return.                               *)
(***************************************************************************)
ModelNodes ==
    {"schema_retriever", "sql_generator", "response_formatter", "critic"}

AwaitsModel(r) ==
    \E n \in ModelNodes : Running(r, n) /\ (n = "critic" => Judges(state[r]))

(***************************************************************************)
(* An invocation that has begun keeps taking the supersteps that call no   *)
(* model, and the script run of a click goes on through decide and         *)
(* resume_review.  Nobody is obliged to click, to use the CLI or to call   *)
(* resume_review, and no model is obliged to answer.                       *)
(***************************************************************************)
Fairness ==
    \A r \in Runs : /\ WF_vars(NodeStep(r) /\ ~AwaitsModel(r))
                    /\ WF_vars(WidgetDecide(r))
                    /\ WF_vars(WidgetResume(r))

FairSpec == Spec /\ Fairness

---------------------------------------------------------------------------
(* Properties.                                                             *)

\* Every variable stays in its domain, whatever mixture of node results,
\* permanent failures, decisions and crashes a run has been through.
TypeOK ==
    /\ state \in [Runs -> AgentState]
    /\ next \in [Runs -> Nodes \cup {"END"}]
    /\ phase \in [Runs -> Phases]
    /\ caller \in [Runs -> Callers]
    /\ steps \in [Runs -> Nat]
    /\ queue \in Seq(ReviewRow)
    /\ streamed \in [Runs -> Statuses]
    /\ shown \in [Runs -> Statuses]
    /\ widget \in [Runs -> {"idle", "clicked", "decided"}]
    /\ activity \in [Runs -> Nat]
    /\ crashes \in Nat
    /\ generations \in [Runs -> Nat]
    /\ approvals \subseteq [id : Nat, sql : Sql]

\* The regeneration cap of route_after_validation bounds the attempts on the
\* state: at most the first one and MaxRegenerationAttempts more, and none
\* follows an attempt that passed.
AttemptsCapped ==
    \A r \in Runs :
        LET attempts == state[r].sql_attempts IN
        /\ Len(attempts) <= MaxRegenerationAttempts + 1
        /\ \A i \in 1 .. Len(attempts) - 1 : ~ attempts[i].valid

\* What sql_executor ran is either the last attempt, passed by the validator
\* and limited, or the text a reviewer approved for the row of this run.
ExecutedIsVetted ==
    \A r \in Runs :
        LET s == state[r] IN
        s.execution_result # NoSql =>
            \/ /\ s.sql_attempts # <<>> /\ LastAttempt(s).valid
               /\ s.execution_result = LastAttempt(s).sql
               /\ s.execution_result.limited
               /\ s.execution_result.stmt \in Passes
            \/ /\ [id |-> s.review_id, sql |-> s.execution_result] \in approvals
               /\ s.decision = "approved"

\* "success" is reported only for a masked question whose validated SQL ran
\* and whose answer was written from its rows, with no node having failed
\* permanently on the way: response_formatter keeps any earlier status.
SuccessIsEarned ==
    \A r \in Runs :
        LET s == state[r] IN
        s.status = "success" =>
            /\ s.masked
            /\ s.sql_attempts # <<>> /\ LastAttempt(s).valid
            /\ s.execution_result = LastAttempt(s).sql
            /\ s.final_answer = "from_rows"
            /\ s.error_detail = "none"

\* A run whose review was rejected returns no rows and no answer made from
\* them, even when the row is decided a second time or resumed again.
RejectedRunsNothing ==
    \A r \in Runs :
        state[r].decision = "rejected" =>
            /\ next[r] = "END"
            /\ state[r].execution_result = NoSql
            /\ state[r].final_answer = "refusal"

\* An escalated run has its own row in the queue, holding every attempt it
\* made, all failed, as many as the cap allows (test_graph_e2e.py:75-82).
EscalatedHasItsRow ==
    \A r \in Runs :
        LET s == state[r] IN
        s.status = "escalated" =>
            /\ s.review_id \in DOMAIN queue
            /\ queue[s.review_id].trace = r
            /\ queue[s.review_id].sql_attempts = s.sql_attempts
            /\ Len(s.sql_attempts) = MaxRegenerationAttempts + 1
            /\ ~ LastAttempt(s).valid

\* A run asks for review once: only a crash after the INSERT committed and
\* before its checkpoint can leave a second row for the same trace.
OneRowPerTrace ==
    \A r \in Runs :
        Cardinality({id \in DOMAIN queue : queue[id].trace = r}) <= 1 + crashes

\* Rows are never lost or reopened and their evidence never changes: a
\* decision only sets status and decision_sql.
QueueKeepsEvidence ==
    [][ /\ Len(queue') >= Len(queue)
        /\ \A id \in DOMAIN queue :
              /\ queue'[id].trace = queue[id].trace
              /\ queue'[id].sql_attempts = queue[id].sql_attempts
              /\ queue[id].status # "pending" => queue'[id].status # "pending"
      ]_vars

\* Regenerating is capped for a run whose nodes work: sql_generator runs once
\* and MAX_REGENERATION_ATTEMPTS times more, and once more for each crash that
\* lost its reply.  Only a validator that fails on a later statement goes
\* round uncounted, and the run keeps an error of it.
RegenerationsCapped ==
    \A r \in Runs :
        generations[r] > MaxRegenerationAttempts + 1 + crashes
            => state[r].error_detail # "none"

\* A run that has reached END keeps its outcome: resuming it again, deciding
\* its row again or crashing changes neither its state nor its next node.
EndedRunsKeepTheirOutcome ==
    [][ \A r \in Runs :
           next[r] = "END" => next'[r] = "END" /\ state'[r] = state[r] ]_vars

\* An invocation that never comes back is waiting for a model: the routes, or
\* at worst the recursion limit, end every other one.
InvocationsReturn ==
    \A r \in Runs : []<>(phase[r] # "running") \/ <>[]AwaitsModel(r)

\* "Approve & Run" and "Reject" take effect: a run that is still paused when
\* the widget has decided its row reads a decision or records an error, unless
\* the process dies.
WidgetDecisionTakesEffect ==
    \A r \in Runs :
        (widget[r] = "decided" /\ next[r] = "await_decision")
            ~> \/ state[r].decision # "none" \/ state[r].status = "error"
               \/ crashes > 0

\* What the chat shows of a run is never out of date: whatever is decided,
\* resumed or re-decided after the turn, only an "escalated" message can stand
\* for a run that has gone on, and its widget looks at the row again.
MessageIsOutcome ==
    \A r \in Runs :
        shown[r] \notin {"none", "escalated"} => shown[r] = state[r].status

\* A run that pauses can be reviewed, or says that it cannot: it carries its
\* own row with the attempts on its state, or the error that kept
\* enqueue_review from writing one.
PausedRunsAreReviewable ==
    \A r \in Runs :
        LET s == state[r] IN
        next[r] = "await_decision" =>
            \/ /\ s.review_id \in DOMAIN queue
               /\ queue[s.review_id].trace = r
               /\ queue[s.review_id].sql_attempts = s.sql_attempts
            \/ /\ s.review_id = 0
               /\ s.status = "error" /\ s.error_detail # "none"

\* An invocation leaves with an exception in three situations only: no
\* attempt was recorded when the validator failed (route_after_validation
\* indexes an empty list), the recursion limit, or the stream's interrupt.
\* No other failure of a node gets past resilient_node (README.md:320).
RaisesAreExplained ==
    \A r \in Runs :
        phase[r] = "raised" =>
            \/ next[r] = "sql_validator" /\ state[r].sql_attempts = <<>>
            \/ steps[r] >= RecursionLimit
            \/ InterruptMarker /\ next[r] = "await_decision"

---------------------------------------------------------------------------
(* What the repository says of the code and the code does not do: each the *)
(* property of a run that finds it violated.                               *)

\* An escalated chat turn ends with the review widget on it: when the stream
\* of run_new_query ends on an escalated run, the turn holds "escalated" for
\* the message it is going to append (README.md:330).
EscalatedTurnIsShown ==
    [][ \A r \in Runs :
           /\ phase[r] = "running" /\ caller[r] = "run_new_query"
           /\ phase'[r] \in {"returned", "raised"}
           /\ state'[r].status = "escalated"
           => streamed'[r] = "escalated" ]_vars

\* A run resumed while its review is still pending "ends as escalated again
\* and can be resumed later the same way" (human_review_agent.py:16-17): an
\* escalated run still has await_decision ahead of it.
EscalatedIsResumable ==
    \A r \in Runs :
        state[r].status = "escalated" => next[r] = "await_decision"

===========================================================================
