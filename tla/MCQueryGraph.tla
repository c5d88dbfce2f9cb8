--------------------------- MODULE MCQueryGraph ---------------------------
(***************************************************************************)
(* Small instances of QueryGraph: one statement of each class sqlglot and  *)
(* check_sql tell apart, one or two runs.                                  *)
(***************************************************************************)
EXTENDS QueryGraph, TLC

CONSTANTS empty, good, bad, garbled

AllStmts     == {empty, good, bad, garbled}
CleanStmts   == {empty, good, bad}
AllParse     == {empty, good, bad}
OnlyGood     == {good}

RunSymmetry == Permutations(Runs)
============================================================================
