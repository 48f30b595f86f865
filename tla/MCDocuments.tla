---------------------------- MODULE MCDocuments ----------------------------
(* Instances of the modules about what a test is generated from, for TLC: those
   of one document set.  They share no variable; a behaviour of the run is one of
   a single module, the others stay where they start, so that the states of the
   run are the states of each module and no product of them. *)
EXTENDS DocumentPurge, AIBudget, SourceIntents, ParseQueue, ExtractionQueue, TLC

CONSTANTS m1, m2, n1, n2   \* the modules take their sets from the same values

-----------------------------------------------------------------------------
(* The budget. *)

Of(t, m) == [d \in Kind |-> IF d = "tokens" THEN t ELSE m]

\* A request that is large in tokens and one that is large in cost.
TwoEstimates == {Of(2, 1), Of(1, 2)}

\* Nothing (a lost request), and more than any call reserves; a response without
\* its usage is settled as less.
TwoBills == {Nothing, Of(3, 3)}

\* Room for one large request or two small ones.
ThreeEach == Of(3, 3)

\* Fewer tokens at the same cost, and more of both.
TwoLimits == {Of(2, 0), Of(4, 5)}

Interchangeable == Permutations({m1, m2}) \cup Permutations({n1, n2})

-----------------------------------------------------------------------------
(* The sources. *)

Uploaded(p, a) == [doc |-> CHOOSE d \in Document : TRUE, parse |-> p, approval |-> a]
Continued(command, revision, reached) ==
    [command |-> command, revision |-> revision, excluded |-> {}, status |-> reached, index |-> 0, extract |-> 0]
FirstRevision == [revision |-> 1, excluded |-> {}]

\* The instance has a document with room for a second version.
ASSUME SecondUploadAssumption == Document # {} /\ VersionBound >= 2

\* A state that SourceIntents reaches with three commands: a second version has
\* just been uploaded while the first one, approved and indexed on request, is
\* still being extracted.  The commands are counted from here.
SecondUpload ==
    /\ version = <<Uploaded("PARSED", "APPROVED"), Uploaded("UPLOADED", "DRAFT")>>
    /\ archived = FALSE
    /\ index = [status |-> "READY", generation |-> 1, snapshot |-> FirstRevision]
    /\ generation = <<[status |-> "READY", snapshot |-> FirstRevision, versions |-> {1}]>>
    /\ intent = <<Continued("INDEX", 1, "SUPERSEDED"), Continued("APPROVE", 1, "SUPERSEDED"),
                   Continued("INDEX", 2, "WAITING_PARSE")>>
    /\ sourceJob = << >>
    /\ extracting = <<[generation |-> 1, status |-> "PENDING"]>>
    /\ builder = [b \in Builder |-> NoBuild]
    /\ failing = 0 /\ commands = 0

-----------------------------------------------------------------------------
VARIABLE part   \* the module whose behaviours are taken

DocumentsInit ==
    /\ part \in {"purge", "budget", "intents", "parse", "extraction"}
    /\ Init /\ BudgetInit /\ ParseInit /\ ExtractionInit
    /\ IntentsInit \/ (part = "intents" /\ SecondUpload)

PurgePart ==
    /\ part = "purge"
    /\ Next
    /\ UNCHANGED <<part, budgetVars, intentVars, parseVars, extractionVars>>
BudgetPart ==
    /\ part = "budget"
    /\ BudgetNext
    /\ UNCHANGED <<part, vars, intentVars, parseVars, extractionVars>>
IntentsPart ==
    /\ part = "intents"
    /\ IntentsNext
    /\ UNCHANGED <<part, vars, budgetVars, parseVars, extractionVars>>
ParsePart ==
    /\ part = "parse"
    /\ ParseNext
    /\ UNCHANGED <<part, vars, budgetVars, intentVars, extractionVars>>
ExtractionPart ==
    /\ part = "extraction"
    /\ ExtractionNext
    /\ UNCHANGED <<part, vars, budgetVars, intentVars, parseVars>>

DocumentsNext == PurgePart \/ BudgetPart \/ IntentsPart \/ ParsePart \/ ExtractionPart
DocumentsSpec ==
    DocumentsInit /\ [][DocumentsNext]_<<part, vars, budgetVars, intentVars, parseVars, extractionVars>>

-----------------------------------------------------------------------------
\* Statuses, references and counters of every table keep to their types, the
\* sums of the budget's ledger among them.
DocumentsTypeOK == TypeOK /\ BudgetTypeOK /\ SourcesTypeOK

\* Both queues give a row's outcome the way TaskLifecycle promises: by its turn
\* in force only, whichever claims expired, died or came late.
QueuesImplementTasks == ParseTask!TaskSpec /\ ExtractionTask!TaskSpec
=============================================================================
