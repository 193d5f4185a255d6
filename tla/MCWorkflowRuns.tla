---------------------------- MODULE MCWorkflowRuns ----------------------------
(* Instances of WorkflowRuns: a workflow that waits for changes of the       *)
(* ticket, with two actions, and one that waits for it to be overdue.        *)
EXTENDS WorkflowRuns, TLC

MCWorkflows == {1, 2}
MCTrigger == [w \in MCWorkflows |-> IF w = 2 THEN "elapsed" ELSE "event"]
MCActionCount == [w \in MCWorkflows |-> IF w = 1 THEN 2 ELSE 1]
Symmetry == Permutations(Workers)
===============================================================================
