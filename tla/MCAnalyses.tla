----------------------------- MODULE MCAnalyses -----------------------------
(* Instances of the modules about one analysis, from the event that starts it
   to the source it looks at and the knowledge it is given, and of the decisions
   about generated test cases, for TLC.  They share no variable; a behaviour of the run is
   one of a single module, as in MCDocuments. *)
EXTENDS MCAnalysisPipeline, AnalysisScope, KnowledgeIndex, TestProposals, ChangeImpact, TLC

CONSTANTS d1, d2, f1, f2, t1, t2, t3   \* the modules take their sets from the same values

-----------------------------------------------------------------------------
(* The scope. *)

UseCase == <<"UC", "B08">>
SubCase == <<"UC", "B08", "1">>
Function == <<"FR", "2">>
Mentions == {UseCase, Function}

\* The second event is one that starts no analysis.
OpenAndClose == [e \in {"e1", "e2"} |-> IF e = "e1" THEN "opened" ELSE "closed"]
Links == [c \in {"refined", "both", "untraced"} |->
            CASE c = "refined" -> {SubCase} [] c = "both" -> {UseCase, Function} [] c = "untraced" -> {}]
TwoReleases == <<{"refined", "both", "untraced"}, {"refined", "untraced"}>>

-----------------------------------------------------------------------------
(* The index and the proposals. *)

\* The two indexers are of processes with different embedding models.
OtherModel == [w \in {d1, d2} |-> IF w = d1 THEN "one" ELSE "two"]

\* The first two texts differ in the package clause only.
OneBody == [t \in {t1, t2, t3} |-> IF t = t3 THEN "another body" ELSE "the body"]

OneCase == <<[text |-> "t", links |-> {"q"}]>>
OneSnapshot == [q \in {"q", "o"} |-> 1]

\* The second requirement revises the first, which the one case is linked to.
Newer == {<<"o", "q">>}

Interchangeable == Permutations({f1, f2}) \cup Permutations({t1, t2})

-----------------------------------------------------------------------------
(* The change. *)

D(f, p, r, n, k) == [file |-> f, pkg |-> p, recv |-> r, name |-> n, kind |-> k]
\* A function and a method of one name, the method's type, the interface that it
\* implements, and a test of another package.
SmallRepository ==
    <<D("a", "p", "", "Load", "function"), D("a", "p", "Store", "Load", "method"), D("a", "p", "", "Store", "struct"),
      D("c", "p", "", "Reader", "interface"), D("b", "q", "", "TestUse", "test")>>
Loads == [d \in {4} |-> "Load"]

-----------------------------------------------------------------------------
proposing == <<catalogVars, proposalVars>>

VARIABLE part   \* the module whose behaviours are taken

\* All files begin alike, with one of the two texts of one body.
AnalysesInit ==
    /\ part \in {"pipeline", "scope", "index", "proposals", "impact"}
    /\ Init /\ ScopeInit /\ IndexInit /\ ProposalsInit /\ ImpactInit
    /\ \A f, g \in File : branch[f] = branch[g] /\ branch[f] # t3

PipelinePart ==
    /\ part = "pipeline"
    /\ Next
    /\ UNCHANGED <<part, scopeVars, indexVars, proposing, impactVars>>
ScopePart ==
    /\ part = "scope"
    /\ ScopeNext
    /\ UNCHANGED <<part, vars, indexVars, proposing, impactVars>>
IndexPart ==
    /\ part = "index"
    /\ IndexNext
    /\ UNCHANGED <<part, vars, scopeVars, proposing, impactVars>>
ProposalsPart ==
    /\ part = "proposals"
    /\ ProposalsNext
    /\ UNCHANGED <<part, vars, scopeVars, indexVars, impactVars>>
ImpactPart ==
    /\ part = "impact"
    /\ ImpactNext
    /\ UNCHANGED <<part, vars, scopeVars, indexVars, proposing>>

AnalysesNext == PipelinePart \/ ScopePart \/ IndexPart \/ ProposalsPart \/ ImpactPart
AnalysesSpec == AnalysesInit /\ [][AnalysesNext]_<<part, vars, scopeVars, indexVars, proposing, impactVars>>
=============================================================================
