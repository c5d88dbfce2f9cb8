---------------------------- MODULE ReviewQueue ----------------------------
(***************************************************************************)
(* The review_queue table of app.db and its accessors in                   *)
(* human_review/queue.py.  The table is a sequence: review_id is           *)
(* AUTOINCREMENT and no code deletes a row, so a row's id is its position. *)
(***************************************************************************)
EXTENDS AgentNodes

CONSTANT Runs \* the trace_ids

ReviewRow ==
    [trace : Runs, sql_attempts : Seq(Attempt),
     status : {"pending", "approved", "rejected"}, decision_sql : Sql]

Enqueue(queue, trace, attempts) ==
    Append(queue, [trace |-> trace, sql_attempts |-> attempts,
                   status |-> "pending", decision_sql |-> NoSql])

\* Mutant: a rejected row goes back to the reviewers.
DecideReopening(queue, id, approved, sql) ==
    [queue EXCEPT ![id].status = IF approved THEN "approved" ELSE "pending",
                  ![id].decision_sql = sql]

\* The UPDATE has no condition on the row's current status.
Decide(queue, id, approved, sql) ==
    [queue EXCEPT ![id].status = IF approved THEN "approved" ELSE "rejected",
                  ![id].decision_sql = sql]

\* The reviewer's default: the SQL of the last attempt.
LatestFailedSql(row) ==
    IF row.sql_attempts = <<>> THEN NoSql
    ELSE row.sql_attempts[Len(row.sql_attempts)].sql

IsPending(queue, id) ==
    id \in DOMAIN queue /\ queue[id].status = "pending"
============================================================================
