------------------------------ MODULE MCTests ------------------------------
(* Instances of the modules from requirements to test runs for TLC, and of
   WorkflowQueue with lanes.  They share no variable; a behaviour of the
   run is one of a single module, as in MCDocuments. *)
EXTENDS TestRuns, RunVerdict, RequirementReview, TestCatalog, WorkflowQueue, TLC

CONSTANTS m1, m2, n1, n2, g1, g2, q1, q2   \* the modules take their sets from the same values

\* Two statements of one requirement that contradict each other, one of them
\* with an open question.
TwoStatements ==
    {[id |-> "A", text |-> "one", unclear |-> FALSE], [id |-> "A", text |-> "two", unclear |-> TRUE]}

OneSnapshot == [q \in Requirement |-> 1]

Interchangeable == Permutations({m1, m2}) \cup Permutations({n1, n2})

-----------------------------------------------------------------------------
VARIABLE part   \* the module whose behaviours are taken

TestsInit ==
    /\ part \in {"runs", "verdict", "review", "catalog", "lanes"}
    /\ RunsInit /\ ReviewInit /\ CatalogInit /\ Init
    /\ \/ part = "verdict" /\ VerdictInit
       \/ part # "verdict" /\ judged = [verdict |-> "none"]

RunsPart ==
    /\ part = "runs"
    /\ RunsNext
    /\ UNCHANGED <<part, judged, reviewVars, catalogVars, vars>>
VerdictPart ==
    /\ part = "verdict"
    /\ VerdictNext
    /\ UNCHANGED <<part, runsVars, reviewVars, catalogVars, vars>>
ReviewPart ==
    /\ part = "review"
    /\ ReviewNext
    /\ UNCHANGED <<part, runsVars, judged, catalogVars, vars>>
CatalogPart ==
    /\ part = "catalog"
    /\ CatalogNext
    /\ UNCHANGED <<part, runsVars, judged, reviewVars, vars>>
LanesPart ==
    /\ part = "lanes"
    /\ Next
    /\ UNCHANGED <<part, runsVars, judged, reviewVars, catalogVars>>

TestsNext == RunsPart \/ VerdictPart \/ ReviewPart \/ CatalogPart \/ LanesPart
TestsSpec == TestsInit /\ [][TestsNext]_<<part, runsVars, judged, reviewVars, catalogVars, vars>>

-----------------------------------------------------------------------------
\* Rows, references and counters of all tables keep to their types.
TestsTypeOK == RunsTypeOK /\ ReviewTypeOK /\ CatalogTypeOK
=============================================================================
