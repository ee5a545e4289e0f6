-------------------------- MODULE MCEvaluationRun --------------------------
(* Two runs of the same inputs and one of others, over two test tasks. *)
EXTENDS EvaluationRun

TwoTasks == <<"c1", "c2">>
SameAndOther == [r \in Runs |-> IF r = "other" THEN "new" ELSE "old"]

============================================================================
