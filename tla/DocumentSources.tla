-------------------------- MODULE DocumentSources --------------------------
(***************************************************************************)
(* The sources of one document set and the search index built from them:     *)
(* versions and their reviews, source snapshots, index generations           *)
(* (document.PostgresRepository, IndexRepository, IndexService).             *)
(*                                                                           *)
(* A snapshot is determined by the source revision, whose latest versions it *)
(* lists, and by the versions excluded, so it is that pair; the embedding    *)
(* model does not change.  Generations and versions are numbered as they are *)
(* created.  A parse is the outcome that ParseQueue promises.                *)
(* SourceIntents adds the jobs and the commands that call these operations.  *)
(***************************************************************************)
EXTENDS Integers, FiniteSets, Sequences

CONSTANTS
    Document,      \* documents of the set
    VersionBound   \* bound: versions uploaded

ASSUME VersionAssumption == VersionBound \in Nat

VARIABLES
    version,       \* document_versions: document, parse and approval status
    archived,      \* document_sets.status
    index,         \* document_index_status of the set
    generation     \* document_index_generations; versions: its chunk membership

sourceVars == <<version, archived, index, generation>>

NoSnapshot == [revision |-> 0, excluded |-> {}]

SourcesInit ==
    /\ version = << >>
    /\ archived = FALSE
    /\ index = [status |-> "NOT_INDEXED", generation |-> 0, snapshot |-> NoSnapshot]
    /\ generation = << >>

-----------------------------------------------------------------------------
(* Versions.                                                               *)

\* The trigger on document_versions counts every insert.
SourceRevision == Len(version)

Latest == {v \in DOMAIN version :
             \A u \in DOMAIN version : version[u].doc = version[v].doc => u <= v}

\* CreateVersion; the intent it stores is in SourceIntents.
AddVersion(d) ==
    /\ ~archived
    /\ SourceRevision < VersionBound
    /\ version' = Append(version, [doc |-> d, parse |-> "UPLOADED", approval |-> "DRAFT"])

ParseEnds(v, outcome) ==
    /\ version[v].parse = "UPLOADED"
    /\ version' = [version EXCEPT ![v].parse = outcome]

\* requiredBy: approved requirements cite the version, which keeps its approval.
ReviewVersion(v, decision, requiredBy) ==
    /\ decision = "APPROVED" => version[v].parse = "PARSED"
    /\ version[v].approval = "APPROVED" /\ decision = "REJECTED" => ~requiredBy
    /\ version' = [version EXCEPT ![v].approval = decision]

-----------------------------------------------------------------------------
(* Snapshots.                                                              *)

\* CreateSourceSnapshot and BuildIndexSnapshot refuse the same: an excluded
\* version that is not a latest one, an included one that is not parsed, and
\* nothing to include.
Indexable(excluded) ==
    /\ excluded \subseteq Latest
    /\ Latest \ excluded # {}
    /\ \A v \in Latest \ excluded : version[v].parse = "PARSED"

CreateSourceSnapshot(excluded) == [revision |-> SourceRevision, excluded |-> excluded]

\* The versions of a snapshot that is not of the newest revision.
SourcesOf(rows, s) ==
    LET old == 1..s.revision
    IN  {v \in old : v \notin s.excluded /\ \A u \in old : rows[u].doc = rows[v].doc => u <= v}
Sources(s) == SourcesOf(version, s)

-----------------------------------------------------------------------------
(* Generations.                                                            *)

Current == index.status \in {"READY", "INDEXING"}
Unchanged(s) == Current /\ index.snapshot = s

Superseded_Kept == generation
Superseded == IF index.status = "INDEXING"
              THEN [generation EXCEPT ![index.generation].status = "SUPERSEDED"]
              ELSE generation

\* Begin of a snapshot that the index neither has nor is being built from.
BeginGeneration(s) ==
    /\ ~Unchanged(s)
    /\ index' = [status |-> "INDEXING", generation |-> Len(generation) + 1, snapshot |-> s]
    /\ generation' = Append(Superseded, [status |-> "INDEXING", snapshot |-> s, versions |-> {}])

\* Complete stores the chunks of any build, and makes only what is still
\* INDEXING ready.
StatusOf_Any(g) == index.status = "INDEXING"
StatusOf(g) == index.status = "INDEXING" /\ index.generation = g
CompleteGeneration(g) ==
    /\ generation' = [generation EXCEPT
          ![g].versions = Sources(generation[g].snapshot),
          ![g].status = IF @ = "INDEXING" THEN "READY" ELSE @]
    /\ index' = IF StatusOf(g) THEN [index EXCEPT !.status = "READY"] ELSE index

FailGeneration(g) ==
    /\ generation' = [generation EXCEPT ![g].status = IF @ = "INDEXING" THEN "FAILED" ELSE @]
    /\ index' = IF StatusOf(g) THEN [index EXCEPT !.status = "FAILED"] ELSE index

\* enrichStatus: what a reader of the index is told.
Fresh == index.snapshot.revision = SourceRevision /\ index.generation # 0
ExtractionReady ==
    /\ index.status = "READY"
    /\ Fresh
    /\ \A v \in Sources(index.snapshot) : version[v].approval = "APPROVED"

-----------------------------------------------------------------------------
\* The status row and the generation it names agree, every older generation
\* has ended, and a READY one holds the chunks of exactly the sources of its
\* snapshot, whichever builds overlapped, died or came late.
IndexIsComplete ==
    /\ index.generation = Len(generation)
    /\ index.generation # 0 =>
          /\ generation[index.generation].status = index.status
          /\ generation[index.generation].snapshot = index.snapshot
    /\ \A g \in DOMAIN generation :
          /\ generation[g].status = "INDEXING" => g = index.generation
          /\ generation[g].status = "READY" =>
                /\ generation[g].versions = Sources(generation[g].snapshot)
                /\ \A v \in generation[g].versions : version[v].parse = "PARSED"
=============================================================================
