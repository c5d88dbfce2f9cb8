# Verification of the multi-agent NL-to-SQL system

TLA+ models of the system in `src/`, the TLC configurations that check them on
small instances, and TLAPS proofs of the results that should hold for every
value of the constants. A module names the code it stands for; `PROJECT.json`
maps every definition to its source lines.

## 1. The system

A user asks a question in a Streamlit chat. A LangGraph graph of agents turns
it into SQL, validates it, runs it read-only against SQLite (`app.db`) and
words an answer. SQL that stays invalid after a capped number of regenerations
goes to a human reviewer, and the graph pauses until the review is decided.
Two further tabs run SQL and imports directly, under table-level ownership.

| Component | State | Operations | Talks to |
|---|---|---|---|
| Query graph (`graph.py`, `state.py`) | `AgentState` per thread, in the checkpointer (Postgres or MemorySaver) | `run_query`, `resume_review`, the three routers, interrupt before `await_decision` | nodes (call), activity history (best-effort write) |
| Agent nodes (`agents/*`) | none of their own; they change the `AgentState` in place | nine node functions | model, cache, vault, `app.db`, review queue |
| Review queue (`human_review/queue.py`) | table `review_queue` | `enqueue`, `get`, `list_pending`, `decide` | written by the graph, the widget and the CLI |
| Review CLI (`human_review/cli.py`) | none | `list`, `show`, `approve`, `reject` | review queue only |
| Streamlit app (`streamlit_app.py`) | `session_state`: user, messages, summary | chat turn (streams the graph), review widget, New chat, Log out, SQL Editor, Import | graph, queue, admin helpers |
| Resilience (`resilience.py`) | writes `_force_provider`, `status`, `error_detail` of the state | 3 attempts, one on the fallback provider, then a structured error | wraps every node |
| Authorization and ownership (`auth.py`, `db/admin.py`) | tables `app_user`, `table_ownership`, and `sqlite_master` itself | `visible_tables`, `can_access_table`, `record_table_owner`, `execute_script`, `execute_write`, `import_csv` | SQL Editor and Import tabs; schema retriever and validator |
| SQL guardrails (`middleware/guardrails.py`) | none | `check_input`, `check_sql`, `apply_row_limit`, `check_output` | nodes |
| PII protection (`middleware/pii.py`) | vault: trace id -> token -> original, in the process | `mask_text`, `unmask_text`, `contains_pii` | `input_guard`, `response_formatter` |
| Rate limit (`middleware/rate_limit.py`) | Redis counter per user and minute, sticky `_unavailable` | `check_rate_limit` | `input_guard` |
| LLM cache (`middleware/cache.py`) | Redis entries with a TTL, sticky `_unavailable` | `get`, `set` | `sql_generator`, `response_formatter` |
| Conversation memory (`memory.py`) | the running summary | `summarize_if_needed` | chat tab |
| Schema catalogue, model factory, tracing, trace viewer, history, `init_db`, infra | configuration, logs, Postgres rows | look-ups, spans, inserts, set-up | - |

### What is hard

* *Interleaving.* Streamlit runs each session in a thread of one process, the
  CLI is another process, and everything meets in two databases without a lock
  around a whole operation. Between two supersteps of one run come other runs,
  decisions, reruns of the script and crashes.
* *Failure.* A node that fails for good returns the state with
  `status: "error"`, and the graph goes on along the node's ordinary edge. So
  routers and later nodes see states the failing node never finished.
* *Ordering.* Deciding a row and resuming its run are two steps by two parties
  that nothing ties together: a row may be decided twice, a run resumed before
  the decision, after it, or when it has ended.
* *Restarts.* The review row is committed before the checkpoint of the node
  that inserted it; ownership of a table is recorded after the table was
  committed.
* *Bounds.* The regeneration cap, the recursion limit of LangGraph, the row
  limit, the rate limit.

`PROJECT.json` lists each hazard at its line with the properties that answer
it.

### What makes each component correct

* Graph and nodes: a bounded number of attempts; nothing runs that was neither
  validated nor approved; success only for an answer made from rows; a
  rejection is final; invocations come back unless a model never answers; a
  widget's decision reaches its run; a chat message says what its run says.
* Queue: one row per escalation, its evidence unchanged, no row reopened.
* Ownership: seeded tables stay public; whoever is recorded as an owner had a
  part in the table; a new table gets an owner unless its helper fails; no
  statement gets round the access check but in the ways the code leaves open.
* PII: an answer shows values of its own question and rows only; tokens come
  back as the values they stood for; what the generator and the formatter send
  to a model has no unmasked structured value.
* Rate limit and cache: the limit holds per user and window; a completion is
  used for its own model and prompt only; an outage stops nothing.
* Resilience: a retried node looks atomic to the graph; no retry leaves a
  second review row; the fallback provider is used no earlier than needed.
* Memory: the summary is made from this chat's older messages, all of them.
* Schema retrieval and guardrails: no table recorded as another user's reaches
  a prompt or runs unapproved; rows are capped; the shared index takes no table
  from the asker.

## 2. Modules

```
AgentNodes -> ReviewQueue -> QueryGraph -> MCQueryGraph          (TLC)
          |-> AtomicNodes
          |        ^ implements
          \-> NodeCalls -> MCNodeCalls                            (TLC)
TableOwnership -> MCTableOwnership                               (TLC)
          \-> GuardedQuery -> MCGuardedQuery                      (TLC)
Valkey -> MCValkey                                               (TLC)
PiiFlow -> MCPiiFlow                                             (TLC)

AgentNodes -> AgentNodesProofs                                   (TLAPS)
QueryGraph, AgentNodesProofs -> QueryGraphProofs -> InvocationProofs
NodeCalls, AgentNodesProofs -> NodeCallsProofs
TableOwnership -> TableOwnershipProofs
GuardedQuery, TableOwnershipProofs -> GuardedQueryProofs
Valkey -> ValkeyProofs
PiiFlow -> PiiFlowProofs
```

**AgentNodes** gives each node function as an operator on `AgentState`, and the
routers. A statement is a member of `Stmts`; the model keeps what the pipeline
tells apart: whether sqlglot processes it at all (`Parses`), whether
`check_sql` accepts it (`Passes`), and whether `apply_row_limit` has rewritten
it. Prompts, rows and wording are left out; an answer is one of `Answers`, by
what it was made from. `FailPermanently` is the state `resilient_node` returns.

**ReviewQueue** is the table `review_queue` as a sequence (ids are
AUTOINCREMENT, nothing deletes) and its accessors.

**QueryGraph** is the compiled graph with its callers. One step is one
superstep: the node runs on the checkpointed state, its result and the next
node become the next checkpoint. `state` and `next` are the checkpoint, `phase`
and `caller` the invocation under way. The chat has three variables: `streamed`
is what a turn's script holds between the end of the stream and the append of
its message, `shown` the message, `widget` its review widget. `queue` and
`activity` are the tables. The actions are the nine nodes, a node failing for
good, the recursion limit, the two ways to start a run, resuming, widget, CLI,
the append of the message (`AppendMessage`), a rerun that ends the turn's script
while it streams or while it replays the answer (`RerunDuringTurn`), New chat,
and the three crashes: anywhere, between the INSERT of `enqueue` and the
checkpoint, between the model's reply to `sql_generator` and the checkpoint.
`generations` and `approvals` are history. LangGraph itself is external and
modelled from its use: the state is fresh per node, a router that raises aborts
its superstep, `interrupt_before` pauses after the checkpoint, `invoke(None)`
continues past the interrupt and returns the last state when nothing is left.
`InterruptMarker` says whether the `updates` stream carries the
`{"__interrupt__": ()}` entry of the LangGraph version in `uv.lock`.

**AtomicNodes** is the abstract specification of one run under `resilient_node`:
from the checkpointed state to one whole result of the node the checkpoint
names, or to that state with an error on it. `CallsAreAtomic` says that
`NodeCalls`, whose attempts share a dict and raise half way, implements it.

**NodeCalls** opens a node up: `resilient_node` around `traced_node` around the
node function. A call is up to three attempts and one on the fallback provider;
an attempt is a sequence of operations on one dict (`draft`), each of which may
raise and leave what the ones before it wrote. `spans` counts the error lines
of the call. One run, no pause: that is `QueryGraph`'s subject.

**Valkey** has the two clients of the server: `check_rate_limit`, as
`input_guard` calls and retries it, and the LLM cache around one model call.
Counter, entries and outages are the server's, the two `_unavailable` flags the
process's. An increment whose reply is lost may be sent again (`Resend`).

**PiiFlow** follows values from a question and its rows through `mask_text`, the
vault, the prompts, the cache shared by all runs and `unmask_text` into the
answer, and from the chat into the running summary. A text is the sequence of
its values and tokens. Paused runs come back with or without the vault of their
process. The script of a chat may be stopped at each of its calls.

**TableOwnership** models the helpers of `db/admin.py` over `auth.py`. A helper
is a sequence of transactions of one session: check each statement, snapshot
the table names, run the statements one by one (SQLite DDL commits each), list
the tables again, record them one by one. Sessions interleave at every one of
these steps and the process may die between any two. A CSV import is the script
pandas runs (`if_exists` append: create if missing; replace: drop, then create),
checked once against its table.

A statement is a kind, the name it writes, and whether sqlglot parses it.
Names and tables are different things here, because the code compares names
exactly (auth.py:123, 147-153, 169; the keys of `table_ownership`) and SQLite
ignores their case: `TableOf` gives the table SQLite finds by a name, `exists`
has the names sqlite_master keeps. `CheckAccess` looks up the owner of the name
as it is written, `RunStatement` reaches the table. A single statement that does
not parse, and any in which sqlglot finds no table, is not checked (`IsExempt`);
a script that does not parse raises before anything happens.
`EditOwnership` is DML on `table_ownership`, which a superuser may run, and
which the check does not stop under another case of the name; `Edits` bounds
what it leaves. `creator`, `dropped`, `vetted`, `edited`, `present` and
`abandoned` are history: who made the table as it is, the names dropped, found
public by the checks of the helper, edited, the users with a script running
when a table of the name was made, and the names whose helper failed or died
before recording them.

**GuardedQuery** composes reading with `TableOwnership`: a question of the
pipeline, or a SELECT typed in the SQL Editor, reads names and then owners of
the tables, twice, and runs its statement later, while an editor's helpers go
on. Retrieval ranks the schema lexically or through the Qdrant collection all
users share (`Upsert`, `QueryIndex`). A statement is the name of the table it
reads and the kind of its LIMIT. `check_sql` lowers names on both sides
(`Known`), so here a name in any case stands for each visible table it fits.

A commented "Mutant" operator just above a definition is that definition with a
plausible bug; `PROJECT.json` says which property refutes it. No specification
uses them.

## 3. Runs

| Run | Checks | Shows |
|---|---|---|
| `graph_one` | `TypeOK`, `AttemptsCapped`, `ExecutedIsVetted`, `SuccessIsEarned`, `RejectedRunsNothing`, `RaisesAreExplained`, `RegenerationsCapped`, `MessageIsOutcome`, `PausedRunsAreReviewable`, `EndedRunsKeepTheirOutcome`, `InvocationsReturn`, `WidgetDecisionTakesEffect` | one question, the shipped cap of 2 regenerations, any node failing for good, a row decided repeatedly, resumes at any time, the turn's script ended at any call, one crash of any kind; the last two under fairness |
| `graph_two` | `EscalatedHasItsRow`, `OneRowPerTrace`, `QueueKeepsEvidence` | two questions escalating into one queue, one crash, also between INSERT and checkpoint |
| `table_shared` | `TypeOK`, `SeedTablesStayPublic`, `OwnersWerePresent`, `NewTablesGetOwners`, `ForeignTablesUntouched` | two editors and a viewer; names in two cases, a statement that does not parse, DML on `table_ownership`, a half-failing script, a CSV replace; one crash |
| `node_calls` | `TypeOK`, `CallsAreAtomic`, `NoOrphanRows`, `ChosenModelFirst`, `ErrorLinesAreFailures` | one run operation by operation, with failures enough for two nodes to fail for good |
| `valkey` | `TypeOK`, `AtMostLimit`, `RefusalsAreOwn`, `TextsAreOwn`, `QuestionsEnd` | three questions of two users, an outage with or without loss of data, a lost reply, retries, a restart |
| `pii_flow` | `TypeOK`, `AnswersAreOwn`, `RowTokensRehydrate`, `LeftoversOnlyAfterRestart`, `NodesSeeNoValues`, `SummaryIsOldTurns` | two turns of one chat, one paused and resumed, the script stopped anywhere, one restart |
| `guarded_query` | `RecordedTablesStayPrivate`, `RowsAreCapped`, `RankedContextIsFull` | a question or a typed SELECT beside an editor who creates and drops a table, under its name in two cases, both rankings, one crash |

Five further runs each refute one statement of the repository about itself:

| Run | The statement | What the code does |
|---|---|---|
| `graph_pending` | a pending run "can be resumed later the same way" (human_review_agent.py:16-17) | resuming it runs on to END |
| `graph_stream` | the widget "on an escalated chat turn" (README.md:330) | the stream loop raises on the interrupt entry |
| `table_race` | a table is "owned by whichever user created it" (auth.py:10-11) | not if two sessions create at once |
| `pii_models` | PII is masked "before it ever reaches an LLM" (README.md:70) | the prompt of the chat summary is made from raw questions and rehydrated answers |
| `pii_rebind` | "Masking is reversible tokenization" (pii.py:7) | the rows are numbered from 1 again and take the tokens of the question |

Smaller disagreements, visible in the models, have no run of their own:

* `_check_access` "blocks references to tables the user doesn't own/can't see"
  (admin.py:43-45). `ForeignTablesUntouched` lists what it does not block: a
  name in another case than the recorded one, which SQLite finds all the same;
  a statement sqlglot cannot parse, whose error the code expects "execution" to
  surface (admin.py:51), while SQLite may well run it; a table that was public
  when it was checked and has been recorded since.
* A new table is "visible only to that user" (auth.py:10-11) and is private
  "until a superuser or you shares them" (streamlit_app.py:433). Sharing means
  DML on `table_ownership` (README.md:85-87). No helper removes a row when its
  table is dropped: the first recorded user of a name keeps it, which
  `OwnersWerePresent` allows. A table made again under another case of its name
  has no row, and is public until it is recorded.
* The critic, where `AGENTIC_CRITIC_ENABLED` switches it on, gets the raw rows and the
  rehydrated answer in its prompt (critic.py:50-54), against the same sentence
  as `pii_models`, which checks the summary and has the critic off.
* An approved run ends with status `"reviewed"`, which state.py:30 does not list
  (`AwaitDecision`, `ResponseFormatter`).
* A reviewer's SQL runs without the row limit that sql_executor.py:4-5 takes for
  granted (second case of `ExecutedIsVetted`).
* README.md:320 promises a structured error instead of a crash;
  `RaisesAreExplained` names the three ways an exception of the graph gets out.
* The loop is "capped by MAX_REGENERATION_ATTEMPTS" (graph.py:15-16). When the
  validator fails for good on a later statement, the router reads the attempt
  before and regenerates uncounted; on the first statement its `[-1]` raises.
  `RegenerationsCapped` says that this needs such a failure.
* "one row per completed run" (postgres_schema.sql:12-13): `LogActivity` writes
  one per invocation of `run_query` and `resume_review`.
* The queue, the CLI and the widget "close the human-in-the-loop" (queue.py:3-4):
  the CLI resumes nothing, and the widget is shown for pending rows only, so a
  run decided by the CLI waits for somebody to call `resume_review`.
* "Every table newly created through these helpers is recorded" (admin.py:8-10):
  not if a later statement of the same script fails.
* The vault is "discarded once the request completes" (pii.py:85-86): nothing
  calls `clear`. `Deliver` of `PiiFlow` leaves it alone, and a paused run needs
  it (`LeftoversOnlyAfterRestart`).
* config/pii_policy.yaml:2 calls `hash` one-way; the code makes reversible
  tokens of both actions (`Put`).
* guardrails.py:92 caps the row limit, except for a number `int()` does not read
  (second disjunct of `RowsAreCapped`).

### Bounds

* `Stmts`: one statement of each class the code tells apart (empty, accepted,
  refused, untokenizable). Nothing in the graph compares statements further.
* `MaxRegenerationAttempts`: 2 in `graph_one` and `node_calls`, the shipped
  policy value; 0 or 1 elsewhere, where the loop is not the subject.
* `RecursionLimit`: the longest ordinary path, `2 * (cap + 1) + 5`, plus one
  spin of the uncounted loop, so that both exits are seen.
* `Corrections`: what reviewers type; empty or the one accepted statement.
* `FailingNodes`: all nodes in `graph_one`; in `graph_two` only
  `enqueue_review`, the one whose failure touches the queue.
* `MaxCrashes`, `MaxRestarts`, `MaxOutages`: 1. A second finds the same states:
  nothing but the tables, the checkpoints, the server and the history survives
  a first.
* `MaxActivity`, `Overrun`, `MaxSpans`: caps of counters whose properties ask
  about one too many.
* Runs: two threads meet only in the queue, so two suffice for its properties;
  `graph_two` uses symmetry of the runs and checks no liveness.
* Tables: one seeded, `app_user` and `table_ownership`; names in two cases for
  the latter and for one free table. Sessions: two editors that write the same
  names and a viewer. Scripts have at most two statements: enough for one to
  commit and the next to fail. `Requests` has one call of each sort: a DROP in
  capitals, one that does not parse, a look at a system table, DML on
  `table_ownership`, a script and a CSV replace. `Edits`: the row of the free
  name is deleted. No request drops or makes `table_ownership`: without it every
  helper only raises. In `table_race` each editor makes a table of her own.
* `InterruptMarker` is FALSE in `graph_one`, `graph_two` and `graph_pending`,
  and TRUE, as LangGraph is in `uv.lock`, in `graph_stream`. With it an
  escalated chat turn ends in an exception and its widget never comes up, so
  `MessageIsOutcome`, `WidgetDecisionTakesEffect` and the widget's part of the
  others would have nothing to say. The theorems hold for both values.
* `NodeCalls`: `MaxFailures` 9 lets two nodes use up their four attempts, and
  one attempt more; the fallback differs from the chosen provider.
* `Valkey`: `Limit` 1 with two questions of one user and one of another; two
  windows; one question whose masking raises (`Fragile`), up to four times. The
  questions share a prompt, two of three also a model.
* `PiiFlow`: two structured and two named values, at most two in a text, so that
  both numberings meet; a row that repeats another turn's value; `KeepLast` 1,
  so that the second turn folds. The critic is off: all it adds is its prompt,
  which `ModelsSeeNoValues` is about.
* `GuardedQuery`: one question, as questions meet only in the index, which may
  start with another user's tables (`Indexed`); `TopK` 2 of 3 tables; one LIMIT
  of each kind, `TableRows` 3 above `MaxRowLimit` 2.

All cfgs but those of the ownership runs set `CHECK_DEADLOCK FALSE`: questions
are asked once and a program with no question left stops.

### Fairness

`graph_one` checks `FairSpec`. Weak fairness of `NodeStep(r) /\ ~AwaitsModel(r)`
per run: a thread inside `invoke` keeps executing, and what the other nodes call
comes back. These are SQLite, with its lock timeout and, in
`_execute_readonly`, a deadline (sql_executor.py:27-33), and Redis, with socket
timeouts of 0.5 s (rate_limit.py:26, cache.py:29). That the checkpointer answers
is an assumption: its Postgres connection has a timeout for connecting only
(graph.py:78). The nodes that call a
model get none: model_factory.py:46-58 builds the chat clients, and 83-97 the
embedding client, without a timeout, and resilience.py bounds no attempt, so
such a call may hang for ever. `InvocationsReturn` therefore says that an
invocation comes back *or* waits for a model from some point on (`AwaitsModel`):
nothing else, neither a route nor a failure, keeps it. `schema_retriever` is
among the model nodes, as semantic ranking embeds the question.

Weak fairness of `WidgetDecide` and `WidgetResume`: after a click the script of
that session runs through `decide` and `resume_review` in one go. A resumed run
reads its decision in `await_decision`, which calls no model. Nobody is obliged
to click, to use the CLI, to call `resume_review`, or to ask. Starting is not
fair, and crashes are not. Safety properties do not depend on it.

`Valkey` states weak fairness of `Step(q)` but in the model call, the same
argument for one question. The server has to do nothing: `QuestionsEnd` says
that a question gets past the limiter and past storing its completion even if
the server never comes back, and what it waits for then is only the model. The
other specifications state no fairness and check safety only.

## 4. Proofs

The eight proof modules are checked by tlapm to the last leaf. Every property
of a passing run is a theorem there, for all values of the constants, except
the three liveness properties. The proofs assume only the named ASSUMEs of the
modules:

* statement classes are nested and the empty statement is refused; caps, limits
  and bounds are naturals; switches are Booleans; each question has its asker,
  model and prompt;
* users have roles, `NoOwner` is no user, requests are well formed scripts that
  do not drop or make the ownership table, and the seeded and system tables are
  different tables;
* the fallback provider is a provider, review rows have the table's columns;
* in `PiiFlow`, a value is structured or named and never a token (no pattern of
  pii.py matches `<<PII_EMAIL_1>>`), turns are not the labels of a script's
  steps, and `MaxTokens` bounds the items of a text, so that there is a token
  for each.

None of them bounds the number of runs, sessions, questions, turns, tables,
statements or providers. Crash, failure and restart counts are capped by
constants of any value.

**AgentNodesProofs** has lemmas about the node functions and routers alone:
their types, where they can lead, what they leave alone. `QueryGraphProofs` and
`NodeCallsProofs` cite them.

**QueryGraphProofs** proves `Spec => []` of `TypeOK`, `AttemptsCapped`,
`ExecutedIsVetted`, `SuccessIsEarned` and `RejectedRunsNothing`. None of the
last four is inductive. A valid attempt must be the last one *and* the run must
have left the validator's loop; what is about to execute must already be
vetted, while it is only in `final_sql`; a decision on the state must have come
from a row, with its text in `approvals`. So the invariant `IInv` says of each
run what holds at the node it stands before (`AttemptsOK`, `ExecutionOK`,
`DecisionOK`, `OutcomeOK`) and of the queue that every approved row's text was
approved by somebody (`QueueOK`). Its step is proved for one superstep of any
node (`SuperstepKeeps`) with one lemma per node, and for the steps that leave
the states alone.

**InvocationProofs** proves the properties that relate a run to its invocations,
its review rows and its chat message.

* `EndedRunsKeepTheirOutcome` and `RaisesAreExplained` follow from the type
  invariant and one fact, that a node step is a superstep of the node the
  checkpoint names (`NodeStepIsSuperstep`).
* `StepMoves` summarises every step for what follows: one run moves by one
  superstep (`Moves`) whose result changes only the fields of its node
  (`Carries`), or no run moves and the queue gets at most one decision or one
  row lost by a crash. `QueueKeepsEvidence` is immediate from it.
* `RegenerationsCapped`: generations are counted against attempts at each node
  (`CountOK`), as long as no node has failed for good.
* `EscalatedHasItsRow`: before the review a run carries no id and, at
  `enqueue_review`, has used up its attempts (`Exhausted`); afterwards its id
  names its row (`ReviewOK`).
* `OneRowPerTrace`: the rows of a run number at most the crashes so far, plus
  one once it is past `enqueue_review` (`RowCountOK`); no route leads back.
* `PausedRunsAreReviewable` is another consequence of `ReviewOK`.
* `MessageIsOutcome`: a status that a message or a turn's script holds, other than
  "escalated", belongs to a run that has ended or is paused without a review row
  (`Settled`), and neither changes it again (`SettledStays`): the one by
  `EndedStays`, the other because `await_decision` can only fail.
* `InvocationsProgress` is the safety half of `InvocationsReturn`, and no run
  checks it: a running invocation always has a node to take and at most
  `RecursionLimit` supersteps left, each node step ends the invocation or uses
  one up, and no other step gives one back. What remains for TLC is that a fair
  thread takes these steps.

**TableOwnershipProofs** proves `Spec => []` of `TypeOK`,
`SeedTablesStayPublic`, `OwnersWerePresent` and `NewTablesGetOwners`, and the
action property `ForeignTablesUntouched`. The statement a helper runs was
checked several transactions earlier, in states that are gone: `PositionOK`
keeps, for every statement already passed, why it passed (`Vetted`), in terms of
the name as it is written. It survives the other sessions because an owner, once
there, is changed by DML on `table_ownership` only (`OwnersStay`), which `edited`
records. `SeedsOK` ties a seeded table to the snapshots: as long as nobody
dropped it, it exists, is in every snapshot in use and on no list of new tables.
`PresentOK` says that a helper which lists new names was running when they
appeared: what is not in its snapshot was made since. `TracesOK` says that every
name of a snapshot is still there or was dropped, and that a table is a seeded
one or has been created by somebody. With it `NewTablesGetOwners` is inductive: a
table that is new now is in no snapshot, so the helper that made it owes it.

**NodeCallsProofs** proves `TypeOK`, `NoOrphanRows`, `ChosenModelFirst` and
`ErrorLinesAreFailures`, and that `NodeCalls` implements `AtomicNodes`
(`CallsAreAtomic`). The refinement maps `state` and `node` to themselves and
everything else to nothing. Four attempts share one dict, so the proof needs
that an attempt which raises has not yet written to it: `CallOK` gives the
dict after each operation of the attempt, unchanged up to the node's
`FirstWrite`, and every operation that can raise comes before that one.
`RowsOK` allows one uncarried row inside one attempt only (the INSERT is
its first operation and nothing after it raises), `ProvidersOK` and `SpansOK`
follow providers and error lines.

**ValkeyProofs** proves `TypeOK`, `TextsAreOwn`, `AtMostLimit` and
`RefusalsAreOwn`. `TextsAreOwn` needs that each entry is the completion of its
own key. `AtMostLimit` bounds the admitted questions of a window by its counter
*and* by the limit (`WindowOK`): an INCR that answers at most `Limit` then
leaves room for the question it admits.
`RefusalsAreOwn` bounds the counter from above by the user's own questions and
repeated requests (`AccountOK`). Questions may be infinitely many; the counted
sets stay finite.

**GuardedQueryProofs** works on `QuerySpec`, whose steps are steps of
`TableOwnership` or leave the tables alone (`HelpersStep`), so the whole
invariant above holds of it (`HelpersRun`). `RecordedTablesStayPrivate` adds
that a name private to somebody else when a question started is in none of
the sets the question has collected (`BarredOK`): between its two readings a
table may be dropped, made again and recorded, but its name never changes hands
unless its row is edited. The statement may write the name in another case: then
a visible name fits it (`KnownIsReadable`), which must have been created since
(`UnreadableIsRespelled`).
`RowsAreCapped` needs that a validated statement carries the LIMIT
`ApplyRowLimit` gave it (`LimitOK`), `RankedContextIsFull` that an asker's
tables are in the collection from its upsert on (`IndexOK`).

**PiiFlowProofs** proves all six invariants of the run. First the operators:
tokens of two positions differ (`TokenInjective`), what `Mask` leaves and what
it replaces (`MaskFacts`), what `Put` and `Unmask` do to a vault and a text
(`PutFacts`, `UnmaskFacts`). The invariant then says of each turn that all it
keeps is its own (`OwnOK`), that the tokens of its question are in the vault
while it needs them, unless a restart came between (`KeptOK`), that from prompt
to answer nothing else writes its vault entry (`PromptOK`, `DraftOK`), and what
unmasking made of it (`AnswerOK`). The cache is the only thing turns share:
`CacheOK` says an entry holds items of its prompt and tokens, no value of
anybody else. `ChatOK` says that an interrupted fold leaves a summary that is
merely older. That a step of one turn disturbs no other turn is proved once.

Only model-checked: `InvocationsReturn`, `WidgetDecisionTakesEffect` and
`QuestionsEnd`. They are liveness under fairness, which needs ENABLED and is
outside the prover's reach. The inductive invariants above also hold in TLC on the
instances of the runs.

## 5. Not modelled, and abstractions to know

* A checkpointer that raises. With Postgres, writing a checkpoint may fail in
  the middle of an invocation, which is one more way for an exception to leave
  it (`RaisesAreExplained` is about the graph's own). Its effect on the
  checkpoint is that of a crash between two supersteps, which is modelled.
* Two invocations of one thread never overlap: a resume waits until the run is
  not running. Asynchronous checkpoint writing is not modelled.
* Every run of `QueryGraph` is in a session of its own; a trace id is used once,
  though a caller may pass an old one (graph.py:175).
* A stream that the user leaves is cut between supersteps. A crash inside a
  superstep is modelled for the two nodes where it leaves a trace, the generator
  (counted by `generations`) and `enqueue_review`; the others write nothing but
  the state.
* `Durable = FALSE` (MemorySaver) is in the model; no run asks about it.
* Ownership: the check of one statement is one step. A statement has one table;
  one that names several is refused when any of them is, and the model has those
  tables one at a time. `ALTER TABLE ... RENAME`, views, the tables a CREATE ...
  AS SELECT reads (CREATE is exempt from the check) and DML on `app_user` are
  left out. Requests neither drop nor make `table_ownership`. Between a CREATE
  and its recording the table is public to every reader;
  `RecordedTablesStayPrivate` is about tables recorded when the question is
  asked.
* `GuardedQuery` reads table names and owners; columns and the wording of the
  schema text are left out. Scores of both rankings are left open, and the
  loss of the collection's data is not modelled.
* `Valkey`: reading the clock and incrementing is one step, and an expiry never
  removes a counter of the window in use.
* `PiiFlow`: one structured entity and one named one; `hash` is treated like
  `mask`, as in the code; the action `drop`, which the policy does not
  configure, and the patterns themselves are left out. Runs that are not paused
  are abandoned at a restart. Statements with tokens in them are run by SQLite
  with the token as a literal, which the choice of rows covers.
* `ensure_default_users`, passwords and login; the queries of history, exporters
  of tracing, the trace viewer; building model clients; `init_db`,
  configuration and infrastructure. They keep no state another part reads
  between two of its steps, `ensure_default_users` excepted (plan).

## 6. Plan

Done: `AgentNodes`, `ReviewQueue`, `QueryGraph`, `NodeCalls`, `TableOwnership`,
`GuardedQuery`, `Valkey` and `PiiFlow`, with proofs of every safety and action
property their passing runs check and of the refinement of `AtomicNodes`.

Left, in order of weight:

1. The safety halves of `WidgetDecisionTakesEffect` and `QuestionsEnd`, as
   `InvocationsProgress` is of `InvocationsReturn`.
2. `ALTER TABLE ... RENAME` and statements on several tables.
3. A run of the graph on the MemorySaver; a thread started twice with one trace
   id.
4. `ensure_default_users` of two first sessions.
