---------------------------- MODULE MCNodeCalls ----------------------------
(* A small instance of NodeCalls: one statement of each class.             *)
EXTENDS NodeCalls

CONSTANTS empty, good, bad, garbled

AllStmts  == {empty, good, bad, garbled}
AllParse  == {empty, good, bad}
OnlyGood  == {good}

AllDecisions ==
    {Pending, [status |-> "approved", decision_sql |-> Raw(good)],
     [status |-> "rejected", decision_sql |-> NoSql]}
============================================================================
