----------------------------- MODULE MCTestRuns -----------------------------
(* Instances of TestRuns for TLC. *)
EXTENDS TestRuns, TLC

CONSTANTS c1, c2, w1, w2, p1

CasesAndRunners == Permutations({c1, c2}) \cup Permutations({w1, w2})
=============================================================================
