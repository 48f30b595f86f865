--------------------------- MODULE WorkflowQueue ---------------------------
(***************************************************************************)
(* The durable queue of document workflow jobs and the workers that claim   *)
(* it: document_workflow_jobs and document_workflow_job_units in            *)
(* PostgreSQL, workflow.Repository (one transaction per operation),         *)
(* workflow.Worker and the per-requirement units of a generation job.       *)
(*                                                                         *)
(* One action is one committed transaction, or one step of a worker between *)
(* two transactions.  A lease that runs out, a process that is killed, a    *)
(* SIGTERM and a database error are actions of the environment.             *)
(*                                                                         *)
(* A lane is a pair (document_set_id, operation): the partial unique index  *)
(* of migration 26 allows one QUEUED or RUNNING job in each.                *)
(***************************************************************************)
EXTENDS Integers, FiniteSets

CONSTANTS
    Job,              \* row identifiers that may be inserted
    Worker,           \* worker goroutines, in one process or in several
    Lane,             \* (document set, operation) pairs
    GenerateLane,     \* the lanes whose operation is GENERATE_TESTCASES
    NUnits,           \* generation units pinned by a generation job
    MaxAttempts,      \* max_attempts of every job
    RevisionBound,    \* bound: no user command at or beyond this revision
    NoLane, NoJob     \* the lane of a row, the job of a worker that has none

ASSUME LaneAssumption == GenerateLane \subseteq Lane
ASSUME UnitsAssumption == NUnits \in Nat \ {0}
ASSUME AttemptsAssumption == MaxAttempts \in Nat \ {0}
ASSUME BoundAssumption == RevisionBound \in Nat

VARIABLES
    \* columns of document_workflow_jobs
    lane, status, revision, attempt, lease, cancel, completed,
    \* columns of document_workflow_job_units
    unitStatus, unitAttempt,
    \* what a worker goroutine holds in memory
    pc, claim, next, error

jobVars == <<lane, status, revision, attempt, lease, cancel, completed>>
unitVars == <<unitStatus, unitAttempt>>
workerVars == <<pc, claim, next, error>>
vars == <<jobVars, unitVars, workerVars>>

-----------------------------------------------------------------------------
Operation == 0                    \* unit_key = 'operation'
Unit == 1..NUnits                 \* the other unit keys, in generationKeys order
Key == 0..NUnits

Active == {"QUEUED", "RUNNING"}
Retryable == {"FAILED", "PARTIAL_FAILED", "CANCELED"}
Terminal == Retryable \cup {"SUCCEEDED"}
UnitState == {"NONE", "QUEUED", "RUNNING", "SUCCEEDED", "FAILED", "CANCELED"}

\* What a claiming worker remembers of the rows it read.
Claim == [job: Job \cup {NoJob}, revision: Nat, attempt: Nat, unitAttempt: Nat]
NoClaim == [job |-> NoJob, revision |-> 0, attempt |-> 0, unitAttempt |-> 0]
Processing == {"process", "unit"}

\* The columns and the workers hold values of their types, and a busy worker
\* has a job.
TypeOK ==
    /\ lane \in [Job -> Lane \cup {NoLane}]
    /\ status \in [Job -> {"NONE"} \cup Active \cup Terminal]
    /\ revision \in [Job -> Nat]
    /\ attempt \in [Job -> 0..MaxAttempts]
    /\ lease \in [Job -> {"none", "live", "expired"}]
    /\ cancel \in [Job -> BOOLEAN]
    /\ completed \in [Job -> 0..NUnits]
    /\ unitStatus \in [Job -> [Key -> UnitState]]
    /\ unitAttempt \in [Job -> [Key -> Nat]]
    /\ pc \in [Worker -> {"idle", "publish", "fail"} \cup Processing]
    /\ claim \in [Worker -> Claim]
    /\ next \in [Worker -> 1..(NUnits + 1)]
    /\ error \in [Worker -> {"none", "retryable", "permanent", "canceled"}]
    /\ \A w \in Worker : pc[w] # "idle" => claim[w].job \in Job

Init ==
    /\ lane = [j \in Job |-> NoLane]
    /\ status = [j \in Job |-> "NONE"]
    /\ revision = [j \in Job |-> 0]
    /\ attempt = [j \in Job |-> 0]
    /\ lease = [j \in Job |-> "none"]
    /\ cancel = [j \in Job |-> FALSE]
    /\ completed = [j \in Job |-> 0]
    /\ unitStatus = [j \in Job |-> [k \in Key |-> "NONE"]]
    /\ unitAttempt = [j \in Job |-> [k \in Key |-> 0]]
    /\ pc = [w \in Worker |-> "idle"]
    /\ claim = [w \in Worker |-> NoClaim]
    /\ next = [w \in Worker |-> 1]
    /\ error = [w \in Worker |-> "none"]

-----------------------------------------------------------------------------
(* Helpers: what a transaction reads and the fences it checks.  Names with  *)
(* a suffix (_NoRevision, ...) are faulty variants of the definition that   *)
(* follows them; the checks seed them one at a time.                        *)

Generates(j) == lane[j] \in GenerateLane
UnitsIn(j, s) == {k \in Unit : unitStatus[j][k] = s}
Succeeded(j) == UnitsIn(j, "SUCCEEDED")

LaneFree_QueuedOnly(l) == \A j \in Job : lane[j] = l => status[j] # "QUEUED"
LaneFree(l) == \A j \in Job : lane[j] = l => status[j] \notin Active

\* Heartbeat's WHERE clause.
HeartbeatFence_NoRevision(w) ==
    /\ status[claim[w].job] = "RUNNING"
    /\ attempt[claim[w].job] = claim[w].attempt
    /\ ~cancel[claim[w].job]
HeartbeatFence_AttemptOnly(w) ==
    /\ status[claim[w].job] = "RUNNING"
    /\ attempt[claim[w].job] = claim[w].attempt
HeartbeatFence(w) ==
    /\ status[claim[w].job] = "RUNNING"
    /\ attempt[claim[w].job] = claim[w].attempt
    /\ revision[claim[w].job] = claim[w].revision
    /\ ~cancel[claim[w].job]

\* The row lock that every transaction of a generation claim takes first.
RevisionFence(w) == HeartbeatFence(w) /\ lease[claim[w].job] = "live"

\* What Complete checks for an operation without generation units.
UnitFence_JobAttempt(w) ==
    /\ status[claim[w].job] = "RUNNING"
    /\ attempt[claim[w].job] = claim[w].attempt
    /\ ~cancel[claim[w].job]
UnitFence(w) ==
    /\ unitStatus[claim[w].job][Operation] = "RUNNING"
    /\ unitAttempt[claim[w].job][Operation] = claim[w].unitAttempt
    /\ status[claim[w].job] = "RUNNING"
    /\ attempt[claim[w].job] = claim[w].attempt
    /\ ~cancel[claim[w].job]

\* The row that Fail locks: a canceled job can be failed by any claim of the
\* same attempt number.
FailFence_NoRevision(w) ==
    /\ status[claim[w].job] = "RUNNING"
    /\ attempt[claim[w].job] = claim[w].attempt
FailFence(w) ==
    /\ status[claim[w].job] = "RUNNING"
    /\ attempt[claim[w].job] = claim[w].attempt
    /\ revision[claim[w].job] = claim[w].revision \/ cancel[claim[w].job]

Goto(w, l) == pc' = [pc EXCEPT ![w] = l] /\ UNCHANGED <<claim, next, error>>
StopWith(w, e) == /\ pc' = [pc EXCEPT ![w] = "fail"]
                  /\ error' = [error EXCEPT ![w] = e]
                  /\ UNCHANGED <<claim, next>>
BecomeIdle(w) == /\ pc' = [pc EXCEPT ![w] = "idle"]
                 /\ claim' = [claim EXCEPT ![w] = NoClaim]
                 /\ next' = [next EXCEPT ![w] = 1]
                 /\ error' = [error EXCEPT ![w] = "none"]

-----------------------------------------------------------------------------
(* Commands of the API.                                                    *)

\* EnqueueNative inserts the job, its operation unit and its generation units
\* in one transaction; the partial unique index refuses a second active job.
Enqueue(j, l) ==
    /\ status[j] = "NONE"
    /\ LaneFree(l)
    /\ lane' = [lane EXCEPT ![j] = l]
    /\ status' = [status EXCEPT ![j] = "QUEUED"]
    /\ revision' = [revision EXCEPT ![j] = 1]
    /\ unitStatus' = [unitStatus EXCEPT ![j] = [k \in Key |->
          IF k = Operation \/ l \in GenerateLane THEN "QUEUED" ELSE "NONE"]]
    /\ UNCHANGED <<attempt, lease, cancel, completed, unitAttempt, workerVars>>

\* Cancel with the current revision.  A running job stays RUNNING: its worker
\* has to notice the request.
Cancel(j) ==
    /\ status[j] \in Active
    /\ revision[j] < RevisionBound
    /\ status' = [status EXCEPT ![j] = IF @ = "QUEUED" THEN "CANCELED" ELSE @]
    /\ lease' = [lease EXCEPT ![j] = IF status[j] = "QUEUED" THEN "none" ELSE @]
    /\ revision' = [revision EXCEPT ![j] = @ + 1]
    /\ cancel' = [cancel EXCEPT ![j] = TRUE]
    /\ unitStatus' = [unitStatus EXCEPT ![j] = [k \in Key |->
          IF unitStatus[j][k] \in Active THEN "CANCELED" ELSE unitStatus[j][k]]]
    /\ UNCHANGED <<lane, attempt, completed, unitAttempt, workerVars>>

\* The units that Retry queues again; attempt_count goes on counting.
Reopened_FailedOnly(s) == IF s = "FAILED" THEN "QUEUED" ELSE s
Reopened_Every(s) == IF s # "NONE" THEN "QUEUED" ELSE s
Reopened(s) == IF s \in {"FAILED", "CANCELED"} THEN "QUEUED" ELSE s

\* Retry with the current revision: the job's attempt counter starts again.
\* The partial unique index aborts it while another job of the lane is active.
Retry(j) ==
    /\ status[j] \in Retryable
    /\ revision[j] < RevisionBound
    /\ LaneFree(lane[j])
    /\ status' = [status EXCEPT ![j] = "QUEUED"]
    /\ revision' = [revision EXCEPT ![j] = @ + 1]
    /\ attempt' = [attempt EXCEPT ![j] = 0]
    /\ lease' = [lease EXCEPT ![j] = "none"]
    /\ cancel' = [cancel EXCEPT ![j] = FALSE]
    /\ completed' = [completed EXCEPT ![j] = Cardinality(Succeeded(j))]
    /\ unitStatus' = [unitStatus EXCEPT ![j] =
                         [k \in Key |-> Reopened(unitStatus[j][k])]]
    /\ UNCHANGED <<lane, unitAttempt, workerVars>>

-----------------------------------------------------------------------------
(* Claims, leases and heartbeats.                                          *)

Exhausted(j) ==
    /\ status[j] = "RUNNING"
    /\ lease[j] = "expired"
    /\ attempt[j] >= MaxAttempts

Claimable_NoLimit(j) ==
    /\ ~cancel[j]
    /\ status[j] = "QUEUED" \/ (status[j] = "RUNNING" /\ lease[j] = "expired")
Claimable_QueuedOnly(j) ==
    ~cancel[j] /\ attempt[j] < MaxAttempts /\ status[j] = "QUEUED"
Claimable(j) ==
    /\ ~cancel[j]
    /\ attempt[j] < MaxAttempts
    /\ status[j] = "QUEUED" \/ (status[j] = "RUNNING" /\ lease[j] = "expired")

\* ClaimNext: one transaction sweeps the exhausted jobs and claims a candidate.
\* Without a candidate it returns ErrNotFound and the deferred Rollback undoes
\* the sweep, so the sweep is part of a successful claim only.  Which candidate
\* comes first is left open: it depends on next_attempt_at and SKIP LOCKED.
ClaimNext(w, j) ==
    /\ pc[w] = "idle"
    /\ Claimable(j)
    /\ unitStatus[j][Operation] \in {"QUEUED", "RUNNING", "FAILED"}
    /\ status' = [i \in Job |-> IF i = j THEN "RUNNING"
                                ELSE IF Exhausted(i) THEN "FAILED" ELSE status[i]]
    /\ revision' = [i \in Job |-> IF i = j \/ Exhausted(i)
                                  THEN revision[i] + 1 ELSE revision[i]]
    /\ attempt' = [attempt EXCEPT ![j] = @ + 1]
    /\ lease' = [i \in Job |-> IF i = j THEN "live"
                               ELSE IF Exhausted(i) THEN "none" ELSE lease[i]]
    /\ unitStatus' = [i \in Job |-> [k \in Key |->
          IF i = j /\ k = Operation THEN "RUNNING"
          ELSE IF Exhausted(i) /\ unitStatus[i][k] = "RUNNING" THEN "FAILED"
          ELSE unitStatus[i][k]]]
    /\ unitAttempt' = [unitAttempt EXCEPT ![j][Operation] = @ + 1]
    /\ pc' = [pc EXCEPT ![w] = "process"]
    /\ claim' = [claim EXCEPT ![w] =
          [job |-> j, revision |-> revision[j] + 1, attempt |-> attempt[j] + 1,
           unitAttempt |-> unitAttempt[j][Operation] + 1]]
    /\ UNCHANGED <<lane, cancel, completed, next, error>>

\* lease_expires_at passes.
LeaseExpires(j) ==
    /\ lease[j] = "live"
    /\ lease' = [lease EXCEPT ![j] = "expired"]
    /\ UNCHANGED <<lane, status, revision, attempt, cancel, completed,
                   unitVars, workerVars>>

\* A renewal within the fence gives the claim a live lease again, even one that
\* had run out and that nobody has taken over yet.
Heartbeat(w) ==
    /\ pc[w] \in Processing
    /\ HeartbeatFence(w)
    /\ lease' = [lease EXCEPT ![claim[w].job] = "live"]
    /\ UNCHANGED <<lane, status, revision, attempt, cancel, completed,
                   unitVars, workerVars>>

\* The processing context is canceled: SIGTERM, or a Heartbeat that failed
\* because the fence is gone or the database did not answer in time.  Process
\* returns context.Canceled.
StopProcess(w) ==
    /\ pc[w] \in Processing
    /\ StopWith(w, "canceled")
    /\ UNCHANGED <<jobVars, unitVars>>

-----------------------------------------------------------------------------
(* Processing: the steps of one claim.                                     *)

\* Process fails for a reason of its own: a stale or missing input found before
\* any unit is begun (not retryable), or a timeout, a database or a provider
\* error (retryable).  A renewal that fails when Process has just returned ends
\* here too: ErrLeaseLost is a retryable error.
ProcessFails(w, e) ==
    /\ pc[w] \in Processing
    /\ \/ e = "retryable"
       \/ e = "permanent" /\ pc[w] = "process" /\ next[w] = 1
    /\ StopWith(w, e)
    /\ UNCHANGED <<jobVars, unitVars>>

HasUnit(w) == Generates(claim[w].job) /\ next[w] \in Unit

\* beginGenerationUnit: a unit that an earlier attempt completed is skipped.
BeginUnit(w) ==
    LET j == claim[w].job
        k == next[w]
    IN
    /\ pc[w] = "process" /\ HasUnit(w)
    /\ \/ /\ ~RevisionFence(w)
          /\ StopWith(w, "retryable")
          /\ UNCHANGED unitVars
       \/ /\ RevisionFence(w) /\ unitStatus[j][k] = "SUCCEEDED"
          /\ next' = [next EXCEPT ![w] = @ + 1]
          /\ UNCHANGED <<unitVars, pc, claim, error>>
       \/ /\ RevisionFence(w) /\ unitStatus[j][k] # "SUCCEEDED"
          /\ unitStatus' = [unitStatus EXCEPT ![j][k] = "RUNNING"]
          /\ unitAttempt' = [unitAttempt EXCEPT ![j][k] = @ + 1]
          /\ Goto(w, "unit")
    /\ UNCHANGED jobVars

\* The unit the worker holds ends and the loop goes on with the next one.
EndUnit(w, s) ==
    /\ unitStatus' = [unitStatus EXCEPT ![claim[w].job][next[w]] = s]
    /\ pc' = [pc EXCEPT ![w] = "process"]
    /\ next' = [next EXCEPT ![w] = @ + 1]
    /\ UNCHANGED <<unitAttempt, claim, error>>

\* saveProposals: the proposals of the unit and its SUCCEEDED checkpoint are
\* committed together.  ErrGenerationLease is not retryable.
SaveProposals(w) ==
    LET j == claim[w].job
        mine == RevisionFence(w) /\ unitStatus[j][next[w]] = "RUNNING"
    IN
    /\ pc[w] = "unit"
    /\ \/ /\ mine
          /\ EndUnit(w, "SUCCEEDED")
          /\ completed' = [completed EXCEPT ![j] =
                              Cardinality(Succeeded(j) \cup {next[w]})]
       \/ /\ ~mine
          /\ StopWith(w, "permanent")
          /\ UNCHANGED <<unitVars, completed>>
    /\ UNCHANGED <<lane, status, revision, attempt, lease, cancel>>

\* failGenerationUnit: the model answered badly or the proposal was refused;
\* the other units of the job are still tried.
FailUnit(w) ==
    /\ pc[w] = "unit"
    /\ \/ /\ RevisionFence(w)
          /\ unitStatus[claim[w].job][next[w]] = "RUNNING"
          /\ EndUnit(w, "FAILED")
       \/ /\ ~RevisionFence(w)
          /\ StopWith(w, "retryable")
          /\ UNCHANGED unitVars
    /\ UNCHANGED jobVars

FinishProcess(w) ==
    /\ pc[w] = "process" /\ ~HasUnit(w)
    /\ Goto(w, "publish")
    /\ UNCHANGED <<jobVars, unitVars>>

\* completeGeneration: the persisted checkpoints decide the outcome.
Outcome_IgnoresFailed(failed) == IF failed = Unit THEN "FAILED" ELSE "SUCCEEDED"
Outcome(failed) == IF failed = {} THEN "SUCCEEDED"
                   ELSE IF failed = Unit THEN "FAILED" ELSE "PARTIAL_FAILED"
CompleteGeneration(w) ==
    LET j == claim[w].job
        failed == UnitsIn(j, "FAILED")
    IN
    /\ pc[w] = "publish" /\ Generates(j)
    /\ RevisionFence(w)
    /\ failed \cup Succeeded(j) = Unit
    /\ unitStatus' = [unitStatus EXCEPT ![j][Operation] =
                         IF failed = {} THEN "SUCCEEDED" ELSE "FAILED"]
    /\ status' = [status EXCEPT ![j] = Outcome(failed)]
    /\ revision' = [revision EXCEPT ![j] = @ + 1]
    /\ completed' = [completed EXCEPT ![j] = Cardinality(Succeeded(j))]
    /\ lease' = [lease EXCEPT ![j] = "none"]
    /\ BecomeIdle(w)
    /\ UNCHANGED <<lane, attempt, cancel, unitAttempt>>

\* Complete for an operation without generation units (total_units is 1).
CompleteOperation(w) ==
    LET j == claim[w].job IN
    /\ pc[w] = "publish" /\ ~Generates(j)
    /\ UnitFence(w)
    /\ unitStatus' = [unitStatus EXCEPT ![j][Operation] = "SUCCEEDED"]
    /\ status' = [status EXCEPT ![j] = "SUCCEEDED"]
    /\ revision' = [revision EXCEPT ![j] = @ + 1]
    /\ completed' = [completed EXCEPT ![j] = 1]
    /\ lease' = [lease EXCEPT ![j] = "none"]
    /\ BecomeIdle(w)
    /\ UNCHANGED <<lane, attempt, cancel, unitAttempt>>

\* Complete returns an error: its fence is gone, or the database failed.
\* runOnce routes the failed publish through Fail as a retryable error.
PublishFails(w) ==
    /\ pc[w] = "publish"
    /\ StopWith(w, "retryable")
    /\ UNCHANGED <<jobVars, unitVars>>

\* What Fail makes of the job: a canceled one is not retried.
FailedStatus(w) ==
    IF cancel[claim[w].job] \/ error[w] = "canceled" THEN "CANCELED"
    ELSE IF error[w] = "retryable" /\ claim[w].attempt < MaxAttempts THEN "QUEUED"
    ELSE "FAILED"

\* Fail: the operation unit follows the job only when it is still the one that
\* this claim began.
Fail(w) ==
    LET j == claim[w].job IN
    /\ pc[w] = "fail"
    /\ \/ /\ FailFence(w)
          /\ unitStatus' = [unitStatus EXCEPT ![j][Operation] =
                IF unitAttempt[j][Operation] = claim[w].unitAttempt
                THEN FailedStatus(w) ELSE @]
          /\ status' = [status EXCEPT ![j] = FailedStatus(w)]
          /\ revision' = [revision EXCEPT ![j] = @ + 1]
          /\ lease' = [lease EXCEPT ![j] = "none"]
       \/ ~FailFence(w) /\ UNCHANGED <<unitStatus, status, revision, lease>>
    /\ BecomeIdle(w)
    /\ UNCHANGED <<lane, attempt, cancel, completed, unitAttempt>>

\* SIGKILL, a panic, or a Fail that the database did not answer.
Crash(w) ==
    /\ pc[w] # "idle"
    /\ BecomeIdle(w)
    /\ UNCHANGED <<jobVars, unitVars>>

-----------------------------------------------------------------------------
User == \E j \in Job : \/ \E l \in Lane : Enqueue(j, l)
                       \/ Cancel(j)
                       \/ Retry(j)

\* The steps a worker takes on its own as long as it is scheduled.
Progress(w) ==
    \/ \E j \in Job : ClaimNext(w, j)
    \/ BeginUnit(w) \/ SaveProposals(w) \/ FailUnit(w) \/ FinishProcess(w)
    \/ CompleteGeneration(w) \/ CompleteOperation(w) \/ PublishFails(w)
    \/ Fail(w)

Environment ==
    \/ \E j \in Job : LeaseExpires(j)
    \/ \E w \in Worker : \/ Heartbeat(w) \/ StopProcess(w) \/ Crash(w)
                         \/ \E e \in {"retryable", "permanent"} : ProcessFails(w, e)

Next == User \/ Environment \/ \E w \in Worker : Progress(w)

Spec == Init /\ [][Next]_vars

\* Workers are scheduled and poll again, and time passes.  Users, crashes,
\* shutdowns and errors owe nothing.
Fairness ==
    /\ \A w \in Worker : WF_vars(Progress(w))
    /\ \A j \in Job : WF_vars(LeaseExpires(j))

FairSpec == Spec /\ Fairness

-----------------------------------------------------------------------------
(* Safety.                                                                 *)

Claims(w, j) == pc[w] # "idle" /\ claim[w].job = j

\* At most one claim of a job can still pass a fence that publishes: a worker
\* whose lease was taken over, whose job was canceled or retried by hand cannot
\* publish next to its successor, although Retry resets the attempt counter.
OnePublisher ==
    \A j \in Job : \A v, w \in Worker :
        /\ Claims(v, j) /\ (HeartbeatFence(v) \/ UnitFence(v))
        /\ Claims(w, j) /\ (HeartbeatFence(w) \/ UnitFence(w))
        => v = w

\* A lane never has two active jobs, whatever order enqueues, failures and
\* retries of its older jobs come in.
OneActivePerLane ==
    \A i, j \in Job :
        /\ status[i] \in Active /\ status[j] \in Active /\ lane[i] = lane[j]
        => i = j

\* The job and its operation unit, which different transactions update under
\* different fences, always tell the same story.
JobUnitAgree ==
    \A j \in Job :
        LET u == unitStatus[j][Operation] IN
        /\ status[j] = "RUNNING" => u = IF cancel[j] THEN "CANCELED" ELSE "RUNNING"
        /\ status[j] = "FAILED" => u = IF cancel[j] THEN "CANCELED" ELSE "FAILED"
        /\ status[j] = "PARTIAL_FAILED" => u = "FAILED"
        /\ status[j] \in {"NONE", "QUEUED", "SUCCEEDED", "CANCELED"} => u = status[j]

\* ClaimNext never finds a candidate whose operation unit it cannot begin: such
\* a candidate would make every later ClaimNext fail and stop the whole queue.
NoPoisonedJob ==
    \A j \in Job : Claimable(j) =>
        unitStatus[j][Operation] \in {"QUEUED", "RUNNING", "FAILED"}

\* The outcome of a finished generation job is the one its persisted units show,
\* whoever completed it and however many attempts and retries it took.
OutcomeMatchesUnits ==
    \A j \in Job : Generates(j) =>
        /\ completed[j] = Cardinality(Succeeded(j))
        /\ status[j] = "SUCCEEDED" => Succeeded(j) = Unit
        /\ status[j] = "PARTIAL_FAILED" =>
              Succeeded(j) # {} /\ Succeeded(j) \cup UnitsIn(j, "FAILED") = Unit

\* A committed checkpoint is final: no retry, takeover or late failure of an
\* older attempt takes a SUCCEEDED unit or a SUCCEEDED job back.
CheckpointsAreFinal ==
    [][\A j \in Job :
          /\ status[j] = "SUCCEEDED" => status'[j] = "SUCCEEDED"
          /\ \A k \in Unit : unitStatus[j][k] = "SUCCEEDED" =>
                /\ unitStatus'[j][k] = "SUCCEEDED"
                /\ unitAttempt'[j][k] = unitAttempt[j][k]]_vars

\* Between a cancel request and a retry nothing of the job is published, and
\* the job can only end as CANCELED or FAILED.
CancelBlocksPublication ==
    [][\A j \in Job : cancel[j] /\ cancel'[j] =>
          /\ status'[j] \in {"RUNNING", "CANCELED", "FAILED"}
          /\ \A k \in Unit : unitStatus'[j][k] = "SUCCEEDED" =>
                                unitStatus[j][k] = "SUCCEEDED"]_vars

-----------------------------------------------------------------------------
(* Liveness, and claims of the repository that the code does not keep.     *)

\* The two ways a job can be left RUNNING for good (see README): its worker is
\* gone and ClaimNext may not claim it again.
Stranded(j) == /\ status[j] = "RUNNING"
               /\ \A w \in Worker : ~Claims(w, j)
               /\ cancel[j] \/ attempt[j] >= MaxAttempts

\* Every job that is enqueued ends, or is stranded: crashes before the last
\* attempt, lost leases and failed renewals never lose a job.
JobsEndUnlessStranded ==
    \A j \in Job : status[j] \in Active ~> (status[j] \in Terminal \/ Stranded(j))

\* A running job that was asked to cancel leaves RUNNING.
CancelEnds ==
    \A j \in Job : (status[j] = "RUNNING" /\ cancel[j]) ~> status[j] # "RUNNING"

\* A job whose lease ran out in its last attempt leaves that state.
ExhaustedEnds ==
    \A j \in Job : Exhausted(j) ~> ~Exhausted(j)

\* A job becomes CANCELED because a user asked for it.
CanceledByUser ==
    [][\A j \in Job : status[j] # "CANCELED" /\ status'[j] = "CANCELED"
          => cancel'[j]]_vars
=============================================================================
