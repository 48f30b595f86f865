--------------------------- MODULE SourceIntents ---------------------------
(***************************************************************************)
(* The guided workflow of one document set: the continuations stored for     *)
(* uploads and source reviews (workflow/source_intents.go), the INDEX and    *)
(* EXTRACT jobs they enqueue (workflow.Service, Repository), the workers     *)
(* that build the index, and the extraction rows that EXTRACT jobs delegate  *)
(* to.                                                                       *)
(*                                                                           *)
(* A job is what WorkflowQueue checks it to be: claimed again when its lease *)
(* has expired, ended only by its latest claim.  An extraction row is what   *)
(* ExtractionQueue checks it to be.  The transaction of advanceSource is one *)
(* action except where it fails a continuation: every other status it writes *)
(* is unfinished or final whatever commits before it, and a later pass reads *)
(* again.  Left out: roles, the budget check, Cancel, and the comparison of  *)
(* content hashes, which an unchangeable version always passes.              *)
(***************************************************************************)
EXTENDS DocumentSources

CONSTANTS
    Builder,            \* goroutines that build the index, for a job or a request
    NoBuilder,          \* the holder of a job that no claim is in force for
    MaxIndexAttempts,   \* max_attempts of a job
    SourceJobBound,     \* bound: jobs stored
    CommandBound        \* bound: commands of users besides uploads

ASSUME IndexAttemptsAssumption == MaxIndexAttempts \in Nat \ {0} /\ NoBuilder \notin Builder
ASSUME IntentBoundsAssumption ==
    {SourceJobBound, CommandBound} \subseteq Nat

VARIABLES
    intent,        \* document_source_intents
    sourceJob,     \* document_workflow_jobs of the set
    extracting,    \* requirement_extraction_jobs of the set
    builder,       \* what each worker holds
    failing,       \* the intent an open transaction is about to fail, or 0
    commands       \* commands of users besides uploads, so far

intentVars == <<sourceVars, intent, sourceJob, extracting, builder, failing, commands>>

SourceCommands == {"INDEX", "APPROVE", "EXTRACT", "APPROVE_AND_EXTRACT"}
Unfinished == {"WAITING_PARSE", "INDEXING", "EXTRACTING"}
ActiveJob == {"QUEUED", "RUNNING"}
NoBuild == [phase |-> "idle", job |-> 0, snapshot |-> NoSnapshot, generation |-> 0]

IntentsInit ==
    /\ SourcesInit
    /\ intent = << >>
    /\ sourceJob = << >>
    /\ extracting = << >>
    /\ builder = [b \in Builder |-> NoBuild]
    /\ failing = 0
    /\ commands = 0

\* advanceSource holds the row of the set FOR SHARE: what locks or updates that
\* row waits for its transaction.
SetUnlocked == failing = 0

-----------------------------------------------------------------------------
(* Commands of users.                                                      *)

Stored(command, excluded) ==
    [command |-> command, revision |-> SourceRevision', excluded |-> excluded,
     status |-> "WAITING_PARSE", index |-> 0, extract |-> 0]

\* The continuation is stored with the version.
UploadSource(d) ==
    /\ SetUnlocked
    /\ AddVersion(d)
    /\ intent' = Append(intent, Stored("INDEX", {}))
    /\ UNCHANGED <<archived, index, generation, sourceJob, extracting, builder, failing, commands>>

\* Approvals, the check of them and the continuation commit together.
SourceCommand(command, selected, excluded) ==
    /\ SetUnlocked
    /\ ~archived
    /\ command \in {"APPROVE", "APPROVE_AND_EXTRACT"} <=> selected # {}
    /\ excluded \subseteq Latest /\ selected \subseteq Latest \ excluded
    /\ Latest \ excluded # {}
    /\ \A v \in selected : version[v].parse = "PARSED"
    /\ command \in {"EXTRACT", "APPROVE_AND_EXTRACT"} =>
          \A v \in Latest \ excluded :
             version[v].parse = "PARSED" /\ (v \in selected \/ version[v].approval = "APPROVED")
    /\ version' = [v \in DOMAIN version |->
                     IF v \in selected THEN [version[v] EXCEPT !.approval = "APPROVED"]
                     ELSE version[v]]
    /\ intent' = Append(intent, Stored(command, excluded))
    /\ UNCHANGED <<archived, index, generation, sourceJob, extracting, builder, failing>>

ReviewSource(v, decision, requiredBy) ==
    /\ ReviewVersion(v, decision, requiredBy)
    /\ UNCHANGED <<archived, index, generation, intent, sourceJob, extracting, builder,
                   failing>>

ArchiveSources ==
    /\ SetUnlocked
    /\ ~archived
    /\ archived' = TRUE
    /\ UNCHANGED <<version, index, generation, intent, sourceJob, extracting, builder,
                   failing>>

-----------------------------------------------------------------------------
(* Enqueue.  The key of a job is the intent it was enqueued for, 0 for a job *)
(* that a user enqueued with a key of its own.                               *)

ActiveOf(operation) ==
    {j \in DOMAIN sourceJob :
       sourceJob[j].operation = operation /\ sourceJob[j].status \in ActiveJob}
KeyedJob(operation, key) ==
    {j \in DOMAIN sourceJob :
       sourceJob[j].operation = operation /\ sourceJob[j].key = key /\ key # 0}
RoomForJob == Len(sourceJob) < SourceJobBound

NewJob(operation, key, input, row) ==
    [operation |-> operation, key |-> key, input |-> input, row |-> row,
     status |-> "QUEUED", attempt |-> 0, holder |-> NoBuilder, generation |-> 0]

\* indexInputSnapshot: the latest versions with their statuses.
IndexInput(excluded) ==
    [snapshot |-> CreateSourceSnapshot(excluded),
     seen |-> [v \in Latest |-> <<version[v].parse, version[v].approval>>]]

\* What enqueue answers: the job of the key, a new job, or the job that is
\* active with the same input; 0 is ErrOperationActive.
Enqueued(operation, key, input) ==
    IF KeyedJob(operation, key) # {} THEN KeyedJob(operation, key)
    ELSE IF ActiveOf(operation) = {} THEN {Len(sourceJob) + 1}
    ELSE {IF sourceJob[a].input = input THEN a ELSE 0 : a \in ActiveOf(operation)}

AddJob(j, new) == sourceJob' = IF j > Len(sourceJob) THEN Append(sourceJob, new) ELSE sourceJob

\* Enqueue INDEX, answered with job j.
EnqueueIndex(key, excluded, j) ==
    /\ RoomForJob \/ KeyedJob("INDEX", key) # {}
    /\ ~archived
    /\ Indexable(excluded)
    /\ j \in Enqueued("INDEX", key, IndexInput(excluded))
    /\ AddJob(j, NewJob("INDEX", key, IndexInput(excluded), 0))
    /\ UNCHANGED extracting

\* EnqueueExtraction answers with the row of the set that is active, whatever
\* its generation, or with a new one.
ActiveRow == {x \in DOMAIN extracting : extracting[x].status \in {"PENDING", "RUNNING"}}
RowOf == IF ActiveRow # {} THEN CHOOSE x \in ActiveRow : TRUE ELSE Len(extracting) + 1
EnqueueExtraction ==
    extracting' = IF ActiveRow # {} THEN extracting
                  ELSE Append(extracting, [generation |-> index.generation, status |-> "PENDING"])

\* Enqueue EXTRACT: without a job of the key, RequestExtraction comes first,
\* and stays when the job is refused.
EnqueueExtract(key, j) ==
    /\ RoomForJob \/ KeyedJob("EXTRACT", key) # {}
    /\ j \in Enqueued("EXTRACT", key, index.generation)
    /\ IF KeyedJob("EXTRACT", key) # {} THEN UNCHANGED <<sourceJob, extracting>>
       ELSE /\ ExtractionReady
            /\ EnqueueExtraction
            /\ AddJob(j, NewJob("EXTRACT", key, index.generation, RowOf))

EnqueueDirectly ==
    /\ \E j \in 0..SourceJobBound : EnqueueIndex(0, {}, j) \/ EnqueueExtract(0, j)
    /\ UNCHANGED <<sourceVars, intent, builder, failing>>

\* POST .../requirements/extract makes a row that no job delegates to.
RequestExtraction ==
    /\ ExtractionReady
    /\ EnqueueExtraction
    /\ UNCHANGED <<sourceVars, intent, sourceJob, builder, failing>>

\* Retry takes the row the job delegates to and the continuations that failed
\* with the job along.
RetryJob(j) ==
    LET row == sourceJob[j].row
    IN  /\ sourceJob[j].status = "FAILED"
        /\ ActiveOf(sourceJob[j].operation) = {}
        /\ row # 0 => ActiveRow \subseteq {row}
        /\ sourceJob' = [sourceJob EXCEPT ![j].status = "QUEUED", ![j].attempt = 0]
        /\ extracting' = [x \in DOMAIN extracting |->
              IF x = row THEN [extracting[x] EXCEPT !.status = "PENDING"] ELSE extracting[x]]
        /\ intent' = [i \in DOMAIN intent |->
              IF intent[i].status = "FAILED" /\ j \in {intent[i].index, intent[i].extract}
                 /\ intent[i].revision = SourceRevision
              THEN [intent[i] EXCEPT
                      !.status = IF intent[i].extract = j THEN "EXTRACTING" ELSE "INDEXING"]
              ELSE intent[i]]
        /\ UNCHANGED <<sourceVars, builder, failing>>

-----------------------------------------------------------------------------
(* A worker and its INDEX job.  attempt counts since the last Retry; holder  *)
(* is the latest claim of the job, which its revision stands for.            *)

HoldsJob(b) ==
    LET j == builder[b].job
    IN  j # 0 /\ sourceJob[j].status = "RUNNING" /\ sourceJob[j].holder = b
ScopeOf(b) == sourceJob[builder[b].job].input.snapshot.excluded
Goes(b, phase) == builder' = [builder EXCEPT ![b].phase = phase]
JobEnds(j, status) == sourceJob' = [sourceJob EXCEPT ![j].status = status, ![j].holder = NoBuilder]

\* The claim, and ValidateInputSnapshot, which fails the job for good.
ClaimIndex(b, j) ==
    /\ builder[b].phase = "idle"
    /\ sourceJob[j].operation = "INDEX" /\ sourceJob[j].status \in ActiveJob
    /\ sourceJob[j].attempt < MaxIndexAttempts
    /\ LET excluded == sourceJob[j].input.snapshot.excluded
       IN  IF ~archived /\ Indexable(excluded) /\ IndexInput(excluded) = sourceJob[j].input
           THEN /\ sourceJob' = [sourceJob EXCEPT ![j].status = "RUNNING", ![j].attempt = @ + 1,
                                                  ![j].holder = b]
                /\ builder' = [builder EXCEPT ![b] = [NoBuild EXCEPT !.phase = "valid", !.job = j]]
           ELSE JobEnds(j, "FAILED") /\ UNCHANGED builder
    /\ UNCHANGED <<sourceVars, intent, extracting, failing, commands>>

\* The lease of the last attempt expired.
ExhaustIndex(j) ==
    /\ sourceJob[j].operation = "INDEX" /\ sourceJob[j].status = "RUNNING"
    /\ sourceJob[j].attempt = MaxIndexAttempts
    /\ JobEnds(j, "FAILED")
    /\ UNCHANGED <<sourceVars, intent, extracting, builder, failing, commands>>

\* CreateSourceSnapshot, of the sources as they are now.
PinSources(b) ==
    /\ builder[b].phase = "valid"
    /\ SetUnlocked
    /\ builder' = IF Indexable(ScopeOf(b))
                  THEN [builder EXCEPT ![b].phase = "pinned",
                                       ![b].snapshot = CreateSourceSnapshot(ScopeOf(b))]
                  ELSE [builder EXCEPT ![b].phase = IF ScopeOf(b) \subseteq Latest
                                                    THEN "refused" ELSE "failed"]
    /\ UNCHANGED <<sourceVars, intent, sourceJob, extracting, failing, commands>>

\* POST .../index builds in the request, without a job.
RequestIndex(b, excluded) ==
    /\ builder[b].phase = "idle"
    /\ SetUnlocked
    /\ Indexable(excluded)
    /\ builder' = [builder EXCEPT ![b] =
          [NoBuild EXCEPT !.phase = "pinned", !.snapshot = CreateSourceSnapshot(excluded)]]
    /\ UNCHANGED <<sourceVars, intent, sourceJob, extracting, failing>>

\* There is nothing to do when the index has, or is being built from, the same
\* snapshot.
Begin(b) ==
    LET s == builder[b].snapshot
    IN  /\ builder[b].phase = "pinned"
        /\ \/ Unchanged(s) /\ Goes(b, "stored") /\ UNCHANGED sourceVars
           \/ /\ BeginGeneration(s)
              /\ builder' = [builder EXCEPT ![b].phase = "building",
                                            ![b].generation = Len(generation) + 1]
              /\ UNCHANGED <<version, archived>>
        /\ UNCHANGED <<intent, sourceJob, extracting, failing, commands>>

Build(b) ==
    /\ builder[b].phase = "building"
    /\ \/ CompleteGeneration(builder[b].generation) /\ Goes(b, "stored")
       \/ FailGeneration(builder[b].generation) /\ Goes(b, "failed")
    /\ UNCHANGED <<version, archived, intent, sourceJob, extracting, failing, commands>>

\* The result of the build is the status of the index as it then is, which
\* another build may have superseded this one in.
Answered(b) == index.generation
ReadStatus(b) ==
    /\ builder[b].phase = "stored"
    /\ builder' = [builder EXCEPT ![b].phase = "built", ![b].generation = Answered(b)]
    /\ UNCHANGED <<sourceVars, intent, sourceJob, extracting, failing, commands>>

PublishIndex(b) ==
    /\ builder[b].phase = "built"
    /\ sourceJob' = IF HoldsJob(b)
                    THEN [sourceJob EXCEPT ![builder[b].job] =
                            [@ EXCEPT !.status = "SUCCEEDED", !.holder = NoBuilder,
                                      !.generation = builder[b].generation]]
                    ELSE sourceJob
    /\ builder' = [builder EXCEPT ![b] = NoBuild]
    /\ UNCHANGED <<sourceVars, intent, extracting, failing, commands>>

\* Only errors of the work itself are retried; refused sources are not.
FailIndex(b) ==
    LET j == builder[b].job
    IN  /\ builder[b].phase \in {"failed", "refused"}
        /\ IF HoldsJob(b)
           THEN JobEnds(j, IF builder[b].phase = "failed" /\ sourceJob[j].attempt < MaxIndexAttempts
                        THEN "QUEUED" ELSE "FAILED")
           ELSE UNCHANGED sourceJob
        /\ builder' = [builder EXCEPT ![b] = NoBuild]
        /\ UNCHANGED <<sourceVars, intent, extracting, failing, commands>>

BuilderDies(b) ==
    /\ builder[b].phase # "idle"
    /\ builder' = [builder EXCEPT ![b] = NoBuild]
    /\ UNCHANGED <<sourceVars, intent, sourceJob, extracting, failing, commands>>

-----------------------------------------------------------------------------
(* The row an EXTRACT job delegates to, and the job that follows it on reads. *)

ExtractionEnds(x, outcome) ==
    /\ extracting[x].status = "PENDING"
    /\ extracting' = [extracting EXCEPT ![x].status = outcome]
    /\ UNCHANGED <<sourceVars, intent, sourceJob, builder, failing, commands>>

Follows == [PENDING |-> "QUEUED", COMPLETED |-> "SUCCEEDED", FAILED |-> "FAILED"]
RowStatus(j) == Follows[extracting[sourceJob[j].row].status]
Reconciled(j) == [sourceJob EXCEPT ![j].status = RowStatus(j)]

ReadJob(j) ==
    /\ sourceJob[j].operation = "EXTRACT"
    /\ sourceJob' = Reconciled(j)
    /\ UNCHANGED <<sourceVars, intent, extracting, builder, failing, commands>>

-----------------------------------------------------------------------------
(* advanceSource: one transaction locks the intent and the set, reads, may   *)
(* enqueue a job in a transaction of its own, and writes the intent.         *)

Advances(i) == SetUnlocked /\ intent[i].status \in Unfinished
Becomes(i, status) == intent' = [intent EXCEPT ![i].status = status]

Outdated_Never(i) == FALSE
Outdated(i) == intent[i].revision # SourceRevision /\ intent[i].status # "EXTRACTING"
Proceeds(i) == Advances(i) /\ ~Outdated(i) /\ ~archived

AdvanceStops(i) ==
    /\ Advances(i)
    /\ Outdated(i) \/ archived
    /\ Becomes(i, IF Outdated(i) THEN "SUPERSEDED" ELSE "FAILED")
    /\ UNCHANGED <<sourceVars, sourceJob, extracting, builder, failing, commands>>

AwaitParse(i) ==
    /\ Proceeds(i)
    /\ intent[i].index = 0
    /\ ~Indexable(intent[i].excluded)
    /\ Becomes(i, IF \E v \in Latest : version[v].parse = "UPLOADED" THEN "WAITING_PARSE"
                  ELSE "FAILED")
    /\ UNCHANGED <<sourceVars, sourceJob, extracting, builder, failing, commands>>

\* The job is stored first: when the process dies before the intent is
\* written, the next pass finds the job by its key.  An active job of another
\* input is waited for.
StartIndex(i) ==
    /\ Proceeds(i)
    /\ intent[i].index = 0
    /\ \E j \in 0..SourceJobBound :
          /\ EnqueueIndex(i, intent[i].excluded, j)
          /\ \/ /\ j # 0
                /\ intent' = [intent EXCEPT ![i].status = "INDEXING", ![i].index = j]
             \/ UNCHANGED intent
    /\ UNCHANGED <<sourceVars, builder, failing, commands>>

Extracts(i) == intent[i].command \in {"EXTRACT", "APPROVE_AND_EXTRACT"}
Followed(i) == IF intent[i].extract # 0 THEN intent[i].extract ELSE intent[i].index

FollowIndex(i) ==
    LET status == sourceJob[intent[i].index].status
    IN  /\ Proceeds(i)
        /\ intent[i].index # 0 /\ intent[i].extract = 0
        /\ \/ status \in ActiveJob /\ Becomes(i, "INDEXING")
           \/ status = "SUCCEEDED" /\ ~Extracts(i) /\ Becomes(i, "SUCCEEDED")
        /\ UNCHANGED <<sourceVars, sourceJob, extracting, builder, failing, commands>>

\* The generation that was built must still be the index's; the row of the
\* index stays locked until the extraction is enqueued.
CurrentFor(i) == index.generation = sourceJob[intent[i].index].generation
StartExtraction(i) ==
    /\ Proceeds(i)
    /\ intent[i].index # 0 /\ intent[i].extract = 0
    /\ sourceJob[intent[i].index].status = "SUCCEEDED" /\ Extracts(i)
    /\ \/ /\ ~CurrentFor(i)
          /\ Becomes(i, "SUPERSEDED")
          /\ UNCHANGED <<sourceJob, extracting>>
       \/ /\ CurrentFor(i) /\ ~ExtractionReady /\ KeyedJob("EXTRACT", i) = {}
          /\ Becomes(i, "FAILED")
          /\ UNCHANGED <<sourceJob, extracting>>
       \/ /\ CurrentFor(i)
          /\ \E j \in 0..SourceJobBound :
                /\ EnqueueExtract(i, j)
                /\ \/ /\ j # 0
                      /\ intent' = [intent EXCEPT ![i].status = "EXTRACTING", ![i].extract = j]
                   \/ UNCHANGED intent
    /\ UNCHANGED <<sourceVars, builder, failing, commands>>

FollowExtraction(i) ==
    LET j == intent[i].extract
    IN  /\ Proceeds(i)
        /\ j # 0
        /\ RowStatus(j) # "FAILED"
        /\ sourceJob' = Reconciled(j)
        /\ Becomes(i, IF RowStatus(j) = "SUCCEEDED" THEN "SUCCEEDED" ELSE "EXTRACTING")
        /\ UNCHANGED <<sourceVars, extracting, builder, failing, commands>>

\* The job has failed; a Retry can commit before the intent fails with it.
ReadFailure(i) ==
    LET j == Followed(i)
    IN  /\ Proceeds(i)
        /\ j # 0
        /\ IF intent[i].extract # 0
           THEN RowStatus(j) = "FAILED" /\ sourceJob' = Reconciled(j)
           ELSE sourceJob[j].status = "FAILED" /\ UNCHANGED sourceJob
        /\ failing' = i
        /\ UNCHANGED <<sourceVars, intent, extracting, builder, commands>>

FailIntent ==
    /\ failing # 0
    /\ Becomes(failing, "FAILED") \/ UNCHANGED intent
    /\ failing' = 0
    /\ UNCHANGED <<sourceVars, sourceJob, extracting, builder, commands>>

-----------------------------------------------------------------------------
SourceParsed(v, outcome) ==
    /\ ParseEnds(v, outcome)
    /\ UNCHANGED <<archived, index, generation, intent, sourceJob, extracting, builder,
                   failing, commands>>

SourceUser ==
    \/ \E d \in Document : UploadSource(d)
    \/ \E j \in DOMAIN sourceJob : ReadJob(j)
    \/ /\ commands < CommandBound
       /\ commands' = commands + 1
       /\ \/ \E c \in SourceCommands, s, x \in SUBSET Latest : SourceCommand(c, s, x)
          \/ ArchiveSources \/ EnqueueDirectly \/ RequestExtraction
          \/ \E v \in DOMAIN version, r \in BOOLEAN : ReviewSource(v, "REJECTED", r)
          \/ \E j \in DOMAIN sourceJob : RetryJob(j)
          \/ \E b \in Builder, x \in SUBSET Latest : RequestIndex(b, x)
IndexWorker(b) ==
    \/ \E j \in DOMAIN sourceJob : ClaimIndex(b, j)
    \/ PinSources(b) \/ Begin(b) \/ Build(b) \/ ReadStatus(b)
    \/ PublishIndex(b) \/ FailIndex(b) \/ BuilderDies(b)
Advancing ==
    \/ \E i \in DOMAIN intent : \/ AdvanceStops(i) \/ AwaitParse(i) \/ StartIndex(i)
                                \/ FollowIndex(i) \/ StartExtraction(i) \/ FollowExtraction(i)
                                \/ ReadFailure(i)
    \/ FailIntent

IntentsNext ==
    \/ SourceUser \/ Advancing
    \/ \E b \in Builder : IndexWorker(b)
    \/ \E j \in DOMAIN sourceJob : ExhaustIndex(j)
    \/ \E v \in DOMAIN version, o \in {"PARSED", "FAILED"} : SourceParsed(v, o)
    \/ \E x \in DOMAIN extracting, o \in {"COMPLETED", "FAILED"} : ExtractionEnds(x, o)

IntentsSpec == IntentsInit /\ [][IntentsNext]_intentVars

-----------------------------------------------------------------------------
SnapshotType == [revision : 0..VersionBound, excluded : SUBSET (1..VersionBound)]

\* The statuses of the tables, and every reference names a row that is there.
SourcesTypeOK ==
    /\ \A v \in DOMAIN version :
          version[v] \in [doc : Document, parse : {"UPLOADED", "PARSED", "FAILED"},
                         approval : {"DRAFT", "APPROVED", "REJECTED"}]
    /\ archived \in BOOLEAN
    /\ index \in [status : {"NOT_INDEXED", "INDEXING", "READY", "FAILED"},
                 generation : 0..Len(generation), snapshot : SnapshotType]
    /\ \A g \in DOMAIN generation :
          generation[g] \in [status : {"INDEXING", "READY", "FAILED", "SUPERSEDED"},
                            snapshot : SnapshotType, versions : SUBSET DOMAIN version]
    /\ \A i \in DOMAIN intent :
          intent[i] \in [command : SourceCommands, revision : 1..SourceRevision,
                        excluded : SUBSET DOMAIN version,
                        status : Unfinished \cup {"SUCCEEDED", "FAILED", "SUPERSEDED"},
                        index : 0..Len(sourceJob), extract : 0..Len(sourceJob)]
    /\ \A j \in DOMAIN sourceJob :
          /\ sourceJob[j].status \in ActiveJob \cup {"SUCCEEDED", "FAILED"}
          /\ sourceJob[j].attempt \in 0..MaxIndexAttempts
          /\ sourceJob[j].holder \in Builder \cup {NoBuilder}
          /\ sourceJob[j].generation \in 0..Len(generation)
          /\ sourceJob[j].operation = "EXTRACT" => sourceJob[j].row \in DOMAIN extracting
    /\ \A x \in DOMAIN extracting :
          extracting[x] \in [generation : DOMAIN generation, status : DOMAIN Follows]
    /\ \A b \in Builder :
          builder[b].phase # "idle" => /\ builder[b].job \in 0..Len(sourceJob)
                                       /\ builder[b].generation \in 0..Len(generation)
    /\ failing \in 0..Len(intent)
    /\ commands \in 0..CommandBound

\* The revision of the index that the job of a continuation reports, and of
\* the one that the extraction it follows reads.
BuiltFor(i) == generation[sourceJob[intent[i].index].generation].snapshot.revision
ExtractedFor(i) ==
    LET row == sourceJob[intent[i].extract].row
    IN  generation[extracting[row].generation].snapshot.revision

\* Sources uploaded after a command never slip into what it started: the index
\* its job reports is not of a later revision when it succeeds, and no
\* extraction starts in its name unless that index is of its own revision, nor
\* reads an index of a later one.  What is read may be an earlier index, when
\* the extraction is answered with a row that was active already.
KeepsItsRevision ==
    \A i \in DOMAIN intent :
        /\ intent[i].status = "SUCCEEDED" => BuiltFor(i) <= intent[i].revision
        /\ intent[i].extract # 0 => BuiltFor(i) = intent[i].revision
                                 /\ ExtractedFor(i) <= intent[i].revision

\* An index job that succeeded leaves an index that can be searched, or a
\* build of it that is still going on.
SucceededIsIndexed ==
    \A j \in DOMAIN sourceJob :
        sourceJob[j].operation = "INDEX" /\ sourceJob[j].status = "SUCCEEDED" =>
        \/ generation[sourceJob[j].generation].status # "INDEXING"
        \/ \E b \in Builder : /\ builder[b].phase = "building"
                              /\ builder[b].generation = sourceJob[j].generation

\* Retry of a job takes its failed continuations along: none of them stays
\* failed while the job it waits for runs again.
RetryContinues ==
    \A i \in DOMAIN intent :
        /\ intent[i].status = "FAILED" /\ intent[i].revision = SourceRevision
        /\ intent[i].index # 0 /\ intent[i].extract = 0 /\ ~archived
        => sourceJob[intent[i].index].status \notin ActiveJob
=============================================================================
