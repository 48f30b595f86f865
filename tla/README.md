# Verification of the AI test assistant

TLA+ specifications of the backend (`src/backend`), TLC runs that check them on
small instances, and TLAPS proofs that hold for every instance.

The backend is a set of Go processes over one PostgreSQL database: an HTTP API
whose requests insert and change rows, and worker processes whose goroutines
claim rows, work outside any transaction (a Git host, a language model, a
sandbox), and save. There are no messages and no shared memory between them:
**rows, leases and fences are the whole protocol.** That is where the hard
behaviour is, and what the modules describe.

| module | models | run | proofs |
| --- | --- | --- | --- |
| `WorkflowQueue` | the queue of document workflow jobs, its workers, the units of a generation job | `queue_units`, `tests` | `WorkflowQueue_proofs` |
| `AnalysisPipeline` | one analysis through six phase queues, repair loop and review | `pipeline_replicas`, `analyses` | `Analyses_proofs` |
| `AnalysisScope` | from a delivery to an analysis with a pinned test scope | `analyses` | `Analyses_proofs` |
| `ChangeImpact` | diff, changed symbols, both graphs, the bounded walk | `documents` | `ChangeImpact_proofs` |
| `KnowledgeIndex` | the code index of a project, and the contexts of calls | `analyses` | `Analyses_proofs` |
| `DocumentPurge` | one document set: upload, archive, pins, physical purge over database and disk | `documents` | `Documents_proofs` |
| `AIBudget` | the ledger that bounds what a document set spends on the model | `documents` | `Documents_proofs` |
| `ParseQueue`, `ExtractionQueue` | the queues of parses and of extractions | `documents` | `Documents_proofs` |
| `TaskLifecycle` | what these two promise of a row: their abstract specification | `documents` | `Documents_proofs` |
| `DocumentSources`, `SourceIntents` | versions, snapshots and index generations of a set; the jobs and continuations on top of them | `documents` | `SourceIntents_proofs` |
| `RequirementReview` | extraction, reconciliation, review and clarification of requirements | `tests` | `RequirementReview_proofs` |
| `TestCatalog` | families, revisions and releases of test cases | `tests` | `TestCatalog_proofs` |
| `TestProposals` | generation proposals, on top of `TestCatalog` | `analyses` | `Analyses_proofs` |
| `TestRuns` | a test run, its artifacts and the repairs of them | `tests` | `TestRuns_proofs` |
| `RunVerdict` | what one executed item is judged to be, which answers become a repair | `tests` | `TestRuns_proofs` |

`MC*.tla` instantiate the modules for TLC, `*.cfg` are the runs, `*_proofs.tla` hold
the theorems.

```
tlc -config WorkflowQueue_units.cfg MCWorkflowQueue.tla      # one run
tlapm WorkflowQueue_proofs.tla                               # one proof module
```

`PROJECT.json` lists the runs, the faulty variant that each property is shown to
catch, the source lines that each definition stands for, and the hazards.
A definition named `X_Something` in a module is such a variant of `X` (a dropped
guard, an off-by-one); no specification uses it.

## 1. The system

Paths are relative to `src/backend/internal`.

### Queues

| component | state | operations | what is hard | what makes it correct |
| --- | --- | --- | --- | --- |
| Document workflow queue (`workflow/repository.go`, `worker.go`, `generation_units.go`) | `document_workflow_jobs` (status, revision, attempt, lease, cancel request), `document_workflow_job_units`; in memory: the claim | enqueue, claim with a sweep of exhausted jobs, heartbeat, begin/save/fail a unit, complete, fail, cancel, retry | lost leases, takeover, retry that resets the attempt counter, cancel against publication, crash between checkpoints | one publisher per job; job and units agree; checkpoints final; one active job per lane; every job ends |
| Workflow enqueue (`workflow/service.go`) | idempotency keys, input snapshots | idempotent enqueue, join of an active operation | two equal requests at once; a key reused for other input | one job per key; the joined job has the same input |
| Source intents (`workflow/source_intents.go`) | continuations from approved sources to an index and an extraction job | submit, advance, restart | a crash between two advances; sources that change on the way | each intent is carried out once, on the sources it names |
| Analysis job queue (`job/*`) | `analysis_jobs` (status, attempt, lease, error) | enqueue from a webhook, claim, renew, retry, fail, hand off to the next phase | leases that nobody renews; attempt counters that restart at each phase | no stale worker takes the analysis back |
| Analysis phases (`analysis`, `analyzer`, `recommendation`, `generation`, `validation`, `repair`) | recommendations, versions of generated tests, validation runs | one processor and one save per phase | stale saves; validation and repair alternate | what a reviewer sees was validated; repairs follow failures |
| Requirement extraction (`requirement/worker.go`, `repository.go`) | `requirement_extraction_jobs`, requirements | enqueue, claim, progress, complete, retry; delegation to a workflow job | two rows (the extraction and the workflow job) for one operation | only the turn in force gives the outcome |
| Document parse queue (`document/worker.go`, `repository.go:497-593`) | `document_versions` (parse status, attempt, lease) | claim, renew, save blocks, retry or fail | late saves of an expired parse | blocks are those of one parse |
| Knowledge index (`knowledge/*`) | `project_indexes` (generation, status, lease), chunks | request, claim, save, retry, retrieve | a request while an older generation is indexed; a branch that moves | a ready index answers its request |
| Execution (`execution/*`) | runs, items, attempts | request, claim, save, retry, review a classification | attempt numbers given back; a late save | a verdict follows the printed texts, and is final |
| Automation and repair (`automation/*`) | artifacts, repair jobs | generate, review, request/claim/complete a repair | the artifact changes while its repair runs | what runs is what was approved |

All of these queues follow one pattern: `FOR UPDATE SKIP LOCKED` claims a row that
waits or whose lease ran out, gives it an attempt number and a lease, and every
later write of the worker is fenced by status and attempt number. They differ in
which columns the fence has (revision, generation), whether the counter restarts,
and whether the lease is renewed or ever read; these differences decide what can go
wrong.

### State without a worker of its own

| component | state | operations | what is hard | what makes it correct |
| --- | --- | --- | --- | --- |
| Document set lifecycle, upload, purge (`document/service.go`, `repository.go`, `storage.go`) | `document_sets`, versions, objects on disk, purge audit | upload, archive, restore, change retention, purge | two stores without a common transaction; half-finished purges; reads before the lock | a readable set has all its objects; a purged one leaves none; a begun purge can be finished |
| Scope and provenance (`scope`, `provenance`, `impact`) | project baselines, analysis snapshots, recorded contexts | select, snapshot, record | a job committed before its scope; repeated deliveries | a scope leaves out no case that the event names, and stands |
| Change analysis (`analyzer/*`) | none of its own; what it saves | parse the diff, build a graph, walk it | an order that follows Go maps; limits; a fallback that knows names only | what is selected depends on the change and the limits alone |
| AI budget (`aibudget/budget.go`) | budgets, reservations | reserve, finalize, release, uncertain | concurrent reservations, lost answers, expiry | the sum of holds and usage fits the budget; no hold ends before an answer |
| Review (`review/*`) | decisions on generated tests | decide | a late worker next to a reviewer | the verdict rests on passed newest tests |
| Index generations and source snapshots (`document/index_repository.go`, `source_snapshot_repository.go`) | generations, chunks, snapshots | begin, complete, fail, supersede, review a version | a source reviewed while it is indexed | the active generation is of the sources of its snapshot |
| Requirement review (`requirement/bulk_review.go`, `clarification.go`, `source_comparison.go`) | requirement revisions, conflicts, questions | review in bulk, clarify, reconcile | revisions that move between read and review; late extractions | reviews stand; the inventory never goes back |
| Test case families, proposals, releases (`testcase/*`) | heads, revisions, proposals, releases | create, revise, restore, archive, review exact, decide, publish | two editors of a head; a release during a revision | releases are what was previewed; no revision is lost |
| Projects, webhooks (`project`, `gitlab`, `github`) | projects, webhook ids | register, accept a delivery | redelivered webhooks | one analysis per event |

Components interact through rows only: an API request or a webhook inserts the row
that a queue claims; a phase hands the row to the next queue; a unit of a
generation job reserves budget before its model call and commits its proposals
together with its checkpoint; a project's baseline and an analysis snapshot pin a
document set by foreign keys; archive and purge take the row lock that uploads and
reservations take. Where a module needs what another promises, it states it in its
header: a job of `SourceIntents` is what `WorkflowQueue` checks a job to be, a parse
the outcome that `ParseQueue` promises, a release what `TestCatalog` publishes.

## 2. The modules and the code

Conventions. A transaction is one action, with every statement it makes: it takes
the lock of the row that decides (or is a single statement) and commits or rolls
back whole. Where a request spans several transactions or reads outside one, the
steps are separate actions and anything may happen in between. What happens to a
process (it is killed, shut down, too slow; the database does not answer) is an
action. Data is reduced to what decides the control flow.

### WorkflowQueue

`workflow/repository.go`, `worker.go`, `generation_units.go`, and the part of
`testcase/proposal_repository.go` that commits a unit.

- Rows: `lane` (document set and operation), `status`, `revision`, `attempt`,
  `lease` (`none`, `live`, `expired`), `cancel`, `completed`; `unitStatus` and
  `unitAttempt` per unit key, of which key 0 is the `operation` unit and `1..NUnits`
  are the requirements of a generation job.
- A worker goroutine: `pc` (`idle`, `process`, `unit`, `publish`, `fail`), `claim`
  (the numbers it read when it claimed), `next` (its place in the loop over the
  units), `error` (the class of error that Fail gets).
- Users: `Enqueue`, `Cancel`, `Retry`. Workers: `ClaimNext` (with the sweep of
  exhausted jobs, which is committed only with a successful claim, as in the code),
  `BeginUnit`, `SaveProposals`, `FailUnit`, `FinishProcess`, `CompleteGeneration`,
  `CompleteOperation`, `PublishFails`, `Fail`. Environment: `LeaseExpires`,
  `Heartbeat`, `StopProcess` (shutdown or failed renewal), `ProcessFails`, `Crash`.
- The four fences of the code are four definitions, because they differ:
  `HeartbeatFence` has the revision but not the lease, `RevisionFence` both,
  `UnitFence` (Complete of an operation without units) the attempt of the operation
  unit instead of the revision, `FailFence` accepts an older revision when a cancel
  is pending.

### AnalysisPipeline

`job/*`, the processor and the save of each phase, `review/repository.go`.

- The row: `status`, `attempt`, `lease`, `errored`. Every statement of the code names
  one analysis id, so analyses do not interact and the module follows one.
- Data: `recs`, `latest` (newest version of each test), `runs` (outcome per version),
  `reviews`. A generated test is a pair of recommendation and version; files,
  prompts, symbols and provenance rows are abstracted away.
- A worker: `pc`, `held` (attempt number of its claim), `seen` and `feedback` (what it
  read outside the saving transaction, and may be stale when it saves).
- `Serves` says which queue each goroutine polls; the runs use one process, or a
  second one for the queues the run asks about.
- Only four of the six queues renew their lease (`Renew`); the source and change
  queues do not.

### AnalysisScope, ChangeImpact, KnowledgeIndex

What surrounds an analysis.

- `AnalysisScope` takes a delivery apart as the code does: `Enqueue` commits the job,
  `ReadBaseline` and `SaveScope` read and pin its scope in further transactions,
  `DeliveryFails` cuts it off anywhere; the next delivery of the event then adds the
  scope. Baselines, the pipeline mode, releases and the set change in between.
- `ChangeImpact` is one analysis of one diff, step by step: `MapSymbols` runs the diff
  parser over any script of a few lines, `Materialize` fetches the source,
  `AnalyzeDirectory` chooses what the source contains and builds either graph,
  `SelectDirect` (one changed symbol at a time, in the order of `todo`), `Visit` and `Walk`
  are `selectImpact`. The order of a node's edges follows Go maps in the code and is a
  choice in the model. A call has a third component, its reading (`Readings`): what the
  builder of the graph makes of how it is written. The typed graph has a key for a
  declared function but none for a function literal, whose calls it drops; the graph of
  names looks a call up in one package, the caller's or the one it takes an import to
  mean, which is a guess from the last element of the path. Go's type checker is
  outside; that it may fail, or the source may not parse, is not.
- `KnowledgeIndex` has the fence of three columns (`IndexFenced`: generation, status,
  attempt), the fetch of single files from a branch that moves (`Push`, `since`), the
  reuse of vectors by fingerprint, and the calls that retrieve and later record. A text
  is the body of a chunk and the package clause above it (`BodyOf`): the fingerprint is the
  hash of the body, the vector is made from both, and a chunk keeps its vector when only
  the clause changes.

### DocumentPurge, AIBudget, ParseQueue, ExtractionQueue

- `DocumentPurge` (`document/service.go`, `repository.go`, `storage.go`,
  `scope/repository.go`). Rows: `status` (`GONE` is the deleted row), `aged` (the
  shortest retention has passed since the archive), `versions`, `bound`, `pinned`,
  `audit`. Disk: `files`. Requests: `upload`, `selecting`, `snapshotting`, `purging`,
  `plan` (the keys a purge has yet to delete). An upload saves its object first and
  inserts its version later; `Select` and `SnapshotForAnalysis` read the status in one
  statement and pin the set in a later one. Timing assumption: no request lasts as
  long as the shortest retention, 30 days (the guard of `RetentionPasses`). Nothing
  else in the code keeps a snapshot whose status was read before an archive from
  being inserted after the purge has begun.
- `AIBudget` (`aibudget/budget.go` and its callers, which follow one order). `Reserve`
  is taken apart into `LockSet`, `ReadSums`, `Insert` and `Refuse`: it holds the row
  lock of the set while statements that settle reservations, which take no such
  lock, run between its steps. One reservation covers a whole call of the provider, which
  `Dispatch` takes apart into its requests (`asked`, at most two for every configured
  model). `billed` is what all of them are charged, known to the provider alone; `usage` is
  what the answered one reports, if anything, and all that `Finalize` settles. `UpdateBudget` keeps an amount for which the
  request says 0, as the code does.
- `ParseQueue` and `ExtractionQueue` are one row each, with its claims, lease and fence.
  `TaskLifecycle` says what a queue promises of a row, whatever its columns are called:
  numbered turns, an outcome only by the turn in force, and one that stays. The
  instances `ParseTask` and `ExtractionTask` map the rows to it.

### DocumentSources, SourceIntents

`document/index_*.go`, `source_snapshot_repository.go`, `workflow/service.go`,
`source_intents.go`. Versions, snapshots (a revision and what was excluded), index
generations with their members; INDEX and EXTRACT jobs with their keys and joins;
continuations, advanced by any process that polls; builders that claim a job, take
a snapshot, `Begin`, build, and `Complete` or fail, or build for a request without a
job. The transaction of `advanceSource` is one action except where it fails a
continuation, because the locks it holds do not stop `Retry`: `failing` names the
intent that an open transaction is about to fail. A job and the row it delegates to
are inserted in two transactions and may differ in their generation (`RowOf`): a set that
has an active extraction answers with it whatever the index it reads. `BuiltFor` is the
revision of the index that a continuation waited for, `ExtractedFor` that of the one which
is extracted in its name.

### RequirementReview, TestCatalog, TestProposals

- `RequirementReview`: an extraction saves its rows chunk by chunk and outside its fence
  (`SaveProposal`, `MarkConflict`), reconciles inventories at its end
  (`ReconcileSources`) and may stop anywhere. Reviews name exact revisions; a batch item
  is sent again when its answer is lost (`Replayed`, `SentAgain`). Contradictions are two
  texts under one identifier.
- `TestCatalog`: a family is a chain of sealed revisions. An editor sends a request about
  the head it was shown, and repeats it; a publisher one about the selection and the
  coverage that its preview showed. Each operation is one transaction.
- `TestProposals` extends it with the jobs that generate: what a job covers and pins, how
  outputs are classified against the pinned heads, retirements, and decisions with their
  keys, while `CatalogMoves` lets editors and reviewers go on.

### TestRuns, RunVerdict

- `TestRuns` is one run (an analysis has one): its queue, the items by case and attempt,
  artifacts, repairs with their queue, and the reviewers' choices (`scope`). A worker
  claims, loads, executes and saves in separate steps. Neither queue takes over an
  expired lease, so leases are not kept; that is finding 5.
- `RunVerdict` has the rules themselves: `Classify` and `ExecuteOne` over all combinations
  of signals, `RepairOutcome` over all combinations of defects, declared texts, code and
  costs, and repairs of repairs. The code of a test is one of three (`Code`), among them one
  that checks nothing: the program compares its hash only, so the model lets it pass, too.

## 3. What the runs check

The state spaces of modules that share no variable are put side by side in one run:
`MCDocuments`, `MCAnalyses` and `MCTests` choose a `part` at the start, and only that
module moves. The states of such a run are the sum, not the product, of the states
of its modules, and each property speaks about one of them.

| run | instance | states | properties |
| --- | --- | --- | --- |
| `queue_units` | a generation or an index job, two units, two workers, two attempts, user commands up to revision 6, fair | 399,813 | `TypeOK`, `OnePublisher`, `JobUnitAgree`, `NoPoisonedJob`, `OutcomeMatchesUnits`, `CheckpointsAreFinal`, `CancelBlocksPublication`, and the liveness `JobsEndUnlessStranded` |
| `pipeline_replicas` | two validators and two repairers, two recommendations, one repair, fair | 126,438 | `TypeOK`, `VerdictMatchesReviews`, `EvidenceFrozen`, and the liveness `AnalysisSettles` |
| `analyses` | the pipeline with one validator and repairer and two workers in the phases without renewal, two repairs; two events with two deliveries, three cases, two releases; two indexers with different models, two files, three texts of which two differ in the package clause; one generation job, two commands, two requirements; five declarations, every diff of three lines, every source with two facts, every reading of a call, two limits | 1,402,000 | `ReviewableIsValidated`, `RepairsFollowFailures`, `NeverGoesBack`, `ScopesStand`, `KnowledgeIsCurrent`, `ImpactIsExact`, `ProposalsStand` |
| `documents` | two uploads, projects and purges, one analysis; two calls of two requests, two estimates, two bills, three budgets; two versions, two builders, two jobs, from the empty set and from a second upload; two parsers; two extractors | 1,717,000 | `FilesOutliveRows`, `PurgeLeavesNothing`, `PurgeCanFinish`, `AuditTellsThePurge`, `ChargesAreHeld`, `GrantsFitBudget`, `IndexIsComplete`, `KeepsItsRevision`, `QueuesImplementTasks`, `DocumentsTypeOK` |
| `tests` | one run of two cases, two execution workers, one repair worker, two attempts, one repair; every verdict; two contradicting statements, one extraction, a batch, two snapshots; two editors and two publishers over two families; two jobs over two lanes | 1,524,000 | `ClaimFindsItems`, `QueuedIsExecuted`, `RunsWhatWasApproved`, `VerdictsAreFinal`, `VerdictsFollowTexts`, `InventoryMovesOn`, `ReviewsStand`, `EditsBuildOnHead`, `PublishedAsPreviewed`, `OneActivePerLane`, `TestsTypeOK` |

(The larger numbers are rounded.) Some properties are conjunctions of named parts,
each with a comment of its own in its module: `ImpactIsExact` (`DirectIsExact`,
`SelectionIsExact`, `ResultIsExplained`, `CallersAreSelected`), `KnowledgeIsCurrent`
(`IndexAnswersRequest`, `ContextIsOfOneIndex`), `VerdictsFollowTexts`
(`ProductFailureIsRead`, `RepairsKeepDeclarations`), `ProposalsStand`
(`RevisesWhatWasPinned`, `DecidedOnce`), `DocumentsTypeOK` and `TestsTypeOK` (the types of
their modules).

Seven runs show a disagreement, one property each: section 4.

**Bounds.** `RevisionBound` stops user commands at a revision, so that a user cannot
retry for ever; 6 leaves room for two claims, a retry after a failure or a cancel, and
the claims of the retried job next to a worker of its first life. Two units are the
least that can end `PARTIAL_FAILED`. Two workers are enough for every property about
two claims of one job; a third claim is reached by a worker that is lost and claims
again. `MaxAttempts = 2` separates the first, the retried and the last attempt.
`AttemptBound` stops crashes and lost leases at an attempt number, because `ClaimNext` of
the analysis queue has no limit of its own; `ClaimBound` and `ExtractionClaims` do the
same for parses and extractions. Two recommendations distinguish "some test" from
"every test"; `MaxRepairs = 2` the first repair from the last. Two purges, two uploads,
two calls, two editors and two publishers are the pairs that race. `SourceJobBound = 2` is
an INDEX job and what follows or competes with it; `CommandBound = 1` leaves one command of
each kind that needs no other, so an EXTRACT comes only as the second half of
`APPROVE_AND_EXTRACT`; it counts from `SecondUpload` where the run starts there, a state that
three commands reach from the empty set: a first version is extracted and a second one is
uploaded, so that its continuation meets an active row of the earlier index. Three lines of diff have every order of two marks and a context
line; a source of two facts has every pair of edges, that is every path of length two,
which is the walk's depth. The proofs need none of these bounds.

**Fairness.** `FairSpec` of `WorkflowQueue` and `AnalysisPipeline`: `WF(Progress(w))` for every
worker, since its loop polls on a ticker and its processing runs under a timeout; and
`WF` of the expiry of leases, since time passes. `RunsFairSpec` of `TestRuns` has the same for
its workers. Nothing else is owed: no user, reviewer, crash, shutdown, heartbeat or error
is fair, and the renewal may save a lease for ever or never. The other modules state no
liveness: a purge that failed is requested again, an unsettled hold is reconciled, a
proposal is decided by a person. `CHECK_DEADLOCK FALSE` is set where everything may be
over: all jobs terminal, the analysis decided, the set gone, every call settled.

## 4. Disagreements between the code and what the repository says of it

1. *A canceled job can stay RUNNING for ever* (`queue_cancel_ends`). Only the worker
   that runs a job can bring it from a cancel request to CANCELED. When that worker is
   killed with attempts left, `ClaimNext` skips the job (cancel requested), the sweep
   skips it (attempts left) and `Retry` refuses it (RUNNING). Its lane stays blocked.
2. *The sweep of exhausted jobs is rolled back* (`queue_exhausted_ends`) with the claim
   that finds no candidate, so a job whose worker died in the last attempt stays
   RUNNING until some other job can be claimed.
3. *A shutdown ends a job as "canceled by user"* (`queue_canceled_by_user`): `Fail` maps
   every `context.Canceled` to CANCELED, also that of a SIGTERM or of a renewal that
   failed, and the job is not tried again although attempts are left.
4. *A validator of an earlier cycle passes the fence of a later one*
   (`pipeline_stale_validator`). `attempt_count` restarts at every hand-off and
   VALIDATING comes back after each repair, so with a second worker process a stale
   validation decides a cycle it does not belong to: the analysis waits for review
   with a newest test that has no run. `Decide` still refuses to accept such a test;
   `VerdictMatchesReviews` holds with any number of workers. `RepairsFollowFailures` is
   checked and proved under the same assumption of one worker per queue, for the same
   reason.
5. *A run whose worker dies stays claimed* (`runs_stranded`): neither the execution queue
   nor the repair queue takes over an expired lease, which both renew and nothing reads.
6. *An index job succeeds without an index* (`index_succeeds`): `Begin` takes an index that
   is INDEXING the same snapshot for work already under way, also when it is what the
   job's own dead worker left behind.
7. *A continuation stays failed while its job runs again* (`retry_continues`): a `Retry`
   between the read and the write of `advanceSource` finds nothing to reopen.

`PROJECT.json` quotes the lines. `JobsEndUnlessStranded` names findings 1 and 2
(`Stranded`) and shows that they are the only ways to lose a job.

Not disagreements, since no document denies them, but worth knowing:

- *Queues.* A retried extraction counts its attempts from the start, so that two claims can
  share a number; `TaskLifecycle` numbers turns the same way. An index job reports the
  status of the index as it is, which may be that of another's generation. An `Enqueue` that
  joins an active operation does not record its key (`workflow/repository.go:499`).
- *Runs.* A case taken in after the first attempt gets an item of attempt 1, which no later
  attempt loads. A case taken out of a queued attempt may leave it without items, which
  every claim gives back. Both are what "unless a reviewer took cases out or in" in
  `ClaimFindsItems` and `QueuedIsExecuted` stands for. With two repairs allowed, a case
  that is excluded may run again through an approved repair.
- *Requirements and test cases.* `MarkConflict` also marks superseded revisions. `ReviewExact`
  may approve any revision of a family, not its head only; `SaveGenerated` reuses a
  rejected or archived revision of the same content. A preview's hash is optional in the
  request (`release_repository.go:238`): `PublishUnseen` is such a request.
- *Knowledge.* `Retrieve` labels chunks with the generation of the row, which may be newer than
  the index they are of: `ContextIsOfOneIndex` says "not later than". Whether a chunk is
  unchanged is decided by its body (`knowledge/indexer.go:87,95`), while its vector is made
  from the package name, too (`indexer.go:120-123`): after a push of the package clause alone
  a READY index keeps the old vector. `IndexAnswersRequest` says "the same body".
- *Impact.* A static caller is missed if it calls from inside a function literal, which has no
  key in the typed graph (`analyzer/impact_engine.go:287-298`, `589-598`), or, in the fallback,
  through an import whose path does not end in the package's name, as `.../v2`
  (`impact_fallback.go:123`). `CallersAreSelected` speaks of the calls that the graph knows.
- *Extraction.* `EnqueueExtraction` answers with the active row of the set whatever its
  generation and scope (`requirement/repository.go:31-35`; `extraction_queue_integration_test.go:39-42`
  expects it), so a continuation can succeed on the extraction of an earlier index.
  `KeepsItsRevision` says: never of later sources than the command's.
- *Budget.* The hold of a call whose worker died is kept until somebody reconciles it, as
  `docs/deployment.md:24` intends. Of a call that sent several requests only the answered one
  is settled (`testcase/llm_generator.go:58-71`, `llm/gemini.go:145-174`), and a response that
  names no usage is settled with none: the ledger can stay below what was charged.
  `ChargesAreHeld` says how far it goes.
- *Verdicts.* `sameSemanticAssertions` compares the declared texts; a repaired test that declares
  them and checks nothing reaches the reviewer like any other
  (`automation/repository_integration_test.go:98-114` approves one). An environment that fails in
  phrases that `Classify` does not list, in a test that prints "expected" or "got", is reported as
  a failure of the product. `VerdictsFollowTexts` claims neither.

## 5. What is proved

All theorems are of the form `Spec => []Inv` or `Spec => [][A]_vars`, or say that each step of
a detailed specification is one of the abstract one; for every value of the constants
that meets the named assumptions in the modules: bounds and counts are naturals, generation
lanes are lanes, every worker serves a phase, at most three repairs of an analysis, which
`config.go` enforces, amounts are naturals and calls finitely many, releases are not
empty, a text has no chunk that is taken for none (`NoneAssumption`), the contents of an
earlier generation are contents (`ProposalsAssumption`), the instance has a document and room for two
versions (`SecondUploadAssumption`), a source file is a sequence of
declarations and the walk's limit is at least one, as `NewImpactEngine` insists
(`ImpactAssumption`). Hardly any of the invariants is
inductive; what each proof adds, and why:

**WorkflowQueue_proofs**: `TypeCorrect`, `Publication`, `Agreement`, `NoPoison`, `Lanes`,
`Outcomes`, `Checkpoints`, `Cancellation`. `IInv` adds to `TypeOK` and `JobUnitAgree`:

- `ClaimsOrdered`: the claim of a busy worker lies in the past of its job; two claims of
  one job differ in the revision *and* in the attempt of the operation unit; a claim
  of the last revision is a claim of the last unit attempt. This is what makes at most
  one fence pass: `Retry` resets the attempt counter that the fences compare, but
  neither the revision nor the unit's counter ever goes back.
- `UnitHeld`, `Fresh`, `CancelPending`: a worker in a unit names one; a row that was not
  inserted is empty; a job with a pending cancel request has no result.

Most actions do to claims what `Keeps` says; one lemma derives `ClaimsOrdered'` from it,
and the claim itself is the one action with an argument of its own. `Outcomes` and
`Lanes` have their own invariants on top of `IInv`; counts of units use the cardinality
theorems of the library.

**Analyses_proofs**, the pipeline: `TypeCorrect`, `Verdict`, `Evidence`, `Forward` for any number
of workers in every queue; `Validated` and `RepairHistory` under `OnePerQueue`, the
assumption without which finding 4 refutes them. The first group rests on one lemma
(`Steps`): every step either leaves status and data alone (`Still`), is one of the edges of
the status graph (`Edges`, `Moves`), or is a decision; what each save does to the data is
read off the edge. The second needs `SingleInv`: with one worker per queue a busy worker
is the one that the row names (`ClaimsCurrent`), so what it read is what the tables hold
(`ReadsCurrent`), and a row that waits for repair has a run for every newest test
(`RepairHasFeedback`).

What surrounds the pipeline: `Scopes`, from `ScopeInv`: what a delivery has read is a baseline of an
existing release, jobs name identifiers, and every scope that exists was narrowed by the
trace of its event (`ScopesNarrowed`); that a scope stands is a step property of it.
`Knowledge`, from `KnowledgeInv`: what a worker has read of the last request's generation
are contents since that request (`DraftsCurrent`: this is what the generation in the
fence is for), the chunks are those of one saved index, each with a vector of its own body
(`ChunksSaved`), and so is what a call holds before it records it (`ContextSaved`).
`Proposals`, from `ProposalsInv` on top of `CatalogInv` below: what a job pins (`JobsPinned`)
and what a proposal offers (`OffersPinned`) were heads when they were pinned, so a
decision that finds the head unmoved revises just that.

**Documents_proofs**, the purge: `TypeCorrect`, `Files`, `Clean`, `Finishable`, `Audit`. `IInv`
is `TypeOK` with `Pins` (once the retention has passed no request is left that read the set
while it was active), `Objects` (a stored key is never saved again, and all that is left
of a set in PURGING is on the list of every purge that still runs) and `Records` (the audit
follows the request).

The budget: `Charged`, from `RowFollowsCaller` (where a caller is determines what its row can
be, and the usage it holds is at most what its requests were charged), `BudgetTyped` and `Budgeted`. The last needs `SumsHold`: while a call has the set's lock,
what it read is at least the exposure of all rows, since the only statements that run
beside it settle or release, and no settlement exposes more than was held. The sums
are over any finite set of calls. Their laws (`SumExists`, `SumTyped`, `SumsCompare`,
`TotalAdds`) are by well-foundedness of strict inclusion on finite sets: a least set
that violates the law is a contradiction, which needs no induction theorem with an
operator as a parameter.

The queues: `ParseIsTask` and `ExtractionIsTask` prove the refinement: initial states map to
initial states of `TaskLifecycle`, and every step to one of its steps or to a stutter. Types
are all that parsing needs; for extraction, the delegating job is FAILED or CANCELED only
with its row.

**ChangeImpact_proofs**: `ImpactExact`, for every file, diff, graph, order of edges and limit.

- *The diff.* `MapSymbols` is exact because the ranges of the declarations tell the owner of
  a line (`SymbolsMapped`) and because the hunk parser numbers each line as its file does. The
  second is a fact about a parser that runs over the whole script; it is shown by the
  least place in the script where the two numbers would differ.
- *The walk.* The invariant `Impact` was checked as an invariant of a run before it was proved.
  `EntriesOK` says what an entry can be and that there are never more than the limit;
  `SoundOK`, that nothing is selected which the graph does not give. `QueueOK`: the queue
  holds nearer nodes before farther ones, at most one step apart. `ThoroughOK` holds under
  `Complete` (nothing was refused yet, or the limit is not reached at all): the edges of
  a node that was walked from are recorded (`AllWalked`), no node is nearer than its entry
  says (`Nearest`), and every changed symbol that is done is selected (`FoundOK`).
  From these, `Covered`: once nothing nearer waits in the queue, all that lies within `k`
  steps is selected; by the least `k` for which a node is missing. `RoomLeft` is why a walk
  that meets no limit never refuses a node. At the end the queue is empty, and `OverFacts`
  and `ResultExact` read the result off the graph; of a truncated walk
  `ResultExplained` needs `SoundOK` only, and `CallersFound` what `Complete` leaves.

**SourceIntents_proofs**: `Complete`, from `IndexInv` (`IndexTyped`; `BuildsShown`: what is
built, and what is about to be, is of sources that were all parsed; `IndexIsComplete`). `KeepsRevision` and
`SourcesTyped`, from `LinksInv`, the largest invariant of the project: what sources, jobs,
extraction rows, continuations and builders say of each other (`SourcesOK`, `JobsOK`,
`ExtractingOK`, `IntentsOK`, `BuildsOK`, `CountsOK`). Its core is in `IntentsOK` and `JobsOK`: a
continuation that has gone past its index waits for a job that succeeded for good, and a
job that was stored for a continuation names the index built for it. The row that such a
job follows may be older; it is never of later sources, because an extraction is enqueued
only while the active index is of the newest revision there is (`NewestIndex`, `RowFound`), and
the row stays (`RowKept`).
`RowsStay`
collects what every step leaves alone, so that each action's proof is about its own row.

**RequirementReview_proofs**: `Decisions`, from `ReviewInv` (`RequirementsTyped`; `ReviewsSealed`: a
reviewed row has a decision, and what revises it is unique; `CommandsTyped`).
`InventoryAdvances`, from `InventoryInv`: the current rows are of one snapshot, which was
indexed. A late worker's `ReconcileSources` is refused by `StillCurrent`, and this
invariant is why the refusal suffices: what it lets pass is of the newest indexed
snapshot, hence not older than what is current. `ReviewTyped`, from `TypedInv`.

**TestCatalog_proofs**: `CatalogTyped`, `Edits`, `Releases`, from `CatalogInv`: `RowsInv` (a
family is one chain of revisions that ends in its head, and the number of a revision is
the count of those up to it), `EditsInv` (what an editor created replaces what it was shown),
`ReleasesInv` (a release is of the publisher that its key names, and its coverage that of
the preview with the same hash), `CountsInv`.

**TestRuns_proofs**: `RunsTyped`, `ClaimsFindItems`, `WhatRunsIsApproved`, `VerdictsStayFinal`,
`QueuedItemsAreExecuted`, from `RunsInv`: `RunRowsTyped`, `WorkersTyped`, `ArtifactsBound` (an
item's artifact is an approved one of its case), `AttemptsCounted` (the run's attempt and
the items' numbers agree, although `RetryOrFail` gives a number back), `PicksStand` (a
worker that is late, or whose items were taken out, never saves what would pass over an
item) and
`ClaimFindsItems`. `VerdictsKeepToTexts` about `RunVerdict` is a case analysis over what an
execution meets; for repairs, that each keeps the bag of words of the one before, and that
equal bags have a matching permutation.

The runs `documents` and `tests` interleave modules that share no variable. `PartsAreBehaviours`
proves that a behaviour of the run `documents` is one of each module in it (that of the
continuations may start with `SecondUpload`, where `LinksInv` holds, too: `SecondUploadLinked`),
which carries the module theorems over: `DocumentsTyped` (the types of all of them at once),
`QueuesAreTasks` (both queues implement `TaskLifecycle` side by side) and, in TestRuns_proofs,
`TestsTyped`.

**Checked by TLC only.**

Liveness (`JobsEndUnlessStranded`, `AnalysisSettles`), which is out of the prover's reach,
and the findings, which are counterexamples. Every other property of the passing runs is
stated by a theorem.

## 6. What is not modelled, and why

In the modelled components:

- A commit whose answer is lost. The code treats it as a failed transaction; the models
  take a failed transaction as rolled back. For an upload this is a real gap (an object
  is deleted although its version was inserted), listed as a hazard.
- Lock order inside PostgreSQL. `Complete` locks the unit before the job, `Cancel` and
  `Retry` the job before the units; PostgreSQL aborts one of two deadlocked transactions,
  which the models have as a failed transaction.
- `next_attempt_at`: a retried row is claimable at once. Delays remove no behaviour that
  the properties are about.
- `failed_units`, a counter for display (with `completed_units` it can exceed the total).
- The read model of a workflow, and the keys of GENERATE jobs (those of INDEX and EXTRACT
  jobs are in `SourceIntents`).
- Roles, and a set that is archived while its requirements or tests are worked on: it
  only refuses more.
- An analysis without recommendations waits for a review that has nothing to decide;
  a fetch that always takes longer than its unrenewed lease is taken over again and
  again. Both are hazards without a property, since no document promises otherwise.
- Objects that an upload leaves behind when its process dies before the version is
  inserted: `FilesOutliveRows` is about rows without objects, not the reverse.
- Ranking and chunking of code, parsing of documents, prompts and their answers' wording.

Whole components, as listed in `PROJECT.json` (`not_modelled`): reports, evidence and
evaluation read and render; the clients of model providers and Git hosts are external,
their failures are outcomes of the callers' actions; the HTTP layer and configuration
keep no state that interacts; frontend, infrastructure and scripts are outside of it.

## 7. Plan

All components with state are modelled and have their safety proved. What is left:
the other halves of components that are `partly` modelled, the read model's next action,
the keys of GENERATE jobs, and retrieval of document chunks with its snapshots.
