---------------------------- MODULE AtomicNodes ----------------------------
(***************************************************************************)
(* What graph.py takes a node call to be: from the checkpointed state to   *)
(* the node's result in one step, or to that state with an error on it.    *)
(* NodeCalls, where a call is retried and changes its dict in place, is    *)
(* shown to implement this specification.                                  *)
(***************************************************************************)
EXTENDS AgentNodes

VARIABLES
    state, \* the AgentState of the run's last checkpoint
    node   \* the node it names next, or "END"

Init == state = InitialState /\ node = "input_guard"

Verdict == {"pending", "approved", "rejected"}

\* t is what node n may return for state s.
Outcome(n, s, t) ==
    CASE n = "input_guard"        -> t \in {RefuseInput(s), AcceptInput(s)}
      [] n = "schema_retriever"   -> t = s
      [] n = "sql_generator"      -> t = SqlGenerator(s, t.final_sql.stmt)
      [] n = "sql_validator"      -> t = SqlValidator(s)
      [] n = "enqueue_review"     -> t = EnqueueReview(s, t.review_id)
      [] n = "await_decision"     ->
             \E v \in Verdict :
                 t = AwaitDecision(s, [status |-> v, decision_sql |-> t.final_sql])
      [] n = "sql_executor"       -> t = SqlExecutor(s)
      [] n = "response_formatter" ->
             \E leak \in BOOLEAN : t = ResponseFormatter(s, leak)
      [] n = "critic"             -> t \in {s, Criticise(s)}

\* A router that raises keeps the superstep from being written.
NodeCall(n) ==
    /\ node = n
    /\ Outcome(n, state, state') \/ state' = FailPermanently(state, n)
    /\ node' = NextNode(n, state')
    /\ node' # "raise"

Next == \E n \in Nodes : NodeCall(n)

Spec == Init /\ [][Next]_<<state, node>>
============================================================================
