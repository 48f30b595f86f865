-------------------------- MODULE MCWorkflowQueue --------------------------
(* Instances of WorkflowQueue for TLC. *)
EXTENDS WorkflowQueue, TLC

CONSTANTS j1, j2, w1, w2, index, generate

JobsAndWorkers == Permutations({j1, j2}) \cup Permutations({w1, w2})
=============================================================================
