--------------------------- MODULE AnalysisPipeline ---------------------------
(***************************************************************************)
(* One analysis of a merge request, from the row the webhook inserts to    *)
(* the reviewer's verdict (backend/internal/{job, analysis, analyzer,      *)
(* impact, recommendation, generation, validation, repair, review}).  The  *)
(* row of analysis_jobs is the only coordination: a job.Worker claims it   *)
(* with a lease when its status is the one its queue serves, works outside *)
(* any transaction, and saves under the fence (status, attempt_count).     *)
(*                                                                         *)
(* Every statement of the code names one analysis id, so analyses do not   *)
(* interact and the module follows one.  A transaction is one step: each   *)
(* takes the row lock of analysis_jobs and commits or rolls back whole.    *)
(* next_attempt_at is not kept: a retried row is claimable at once.        *)
(***************************************************************************)
EXTENDS Naturals, FiniteSets

CONSTANTS
  Workers,        \* job.Worker goroutines, of all the worker processes
  Serves,         \* Serves[w]: the queue (phase) of worker w
  Recs,           \* recommendations the model may propose
  MaxAttempts,    \* WORKER_MAX_ATTEMPTS
  MaxRepairs,     \* MAX_REPAIR_ATTEMPTS
  AttemptBound    \* bound: no crash and no lease expiry at this attempt_count

Phases == {"source", "change", "recommendation", "generation", "validation", "repair"}
Versions == 1 .. MaxRepairs + 1   \* generation_attempt

ASSUME ServesAssumption == Serves \in [Workers -> Phases]
ASSUME MaxAttemptsAssumption == MaxAttempts \in Nat \ {0}
ASSUME MaxRepairsAssumption == MaxRepairs \in 0 .. 3
ASSUME AttemptBoundAssumption == AttemptBound \in Nat

VARIABLES
  status, attempt, lease, errored,  \* the analysis_jobs row
  recs,                             \* test_recommendations
  latest,                           \* newest generation_attempt per recommendation, 0: none
  runs,                             \* validation_runs.status per generated test
  reviews,                          \* test_reviews.decision per generated test
  pc,                               \* where worker w is in runOnce
  held,                             \* attempt_count returned by w's claim
  seen,                             \* ListLatest as w read it
  feedback                          \* validation_runs as repair worker w read them

job == <<status, attempt, lease, errored>>
data == <<recs, latest, runs, reviews>>
local == <<pc, held, seen, feedback>>
vars == <<job, data, local>>

Statuses ==
  {"PENDING", "FETCHING_SOURCE", "ANALYZING_CHANGE", "RETRIEVING_CONTEXT",
   "RECOMMENDING_TESTS", "GENERATING_TESTS", "VALIDATING", "REPAIRING",
   "WAITING_REVIEW", "ACCEPTED", "REJECTED", "FAILED"}
Leases == {"none", "live", "expired"}
Outcomes == {"PASSED", "FAILED"}        \* TIMED_OUT is treated as FAILED everywhere
Decisions == {"ACCEPTED", "REJECTED"}
Tests == Recs \X Versions               \* a row of generated_tests
Nothing == [t \in Tests |-> "NONE"]

\* Shape of the rows and of the workers' local state.
TypeOK ==
  /\ status \in Statuses
  /\ attempt \in Nat
  /\ lease \in Leases
  /\ errored \in BOOLEAN
  /\ recs \subseteq Recs
  /\ latest \in [Recs -> Versions \cup {0}]
  /\ runs \in [Tests -> Outcomes \cup {"NONE"}]
  /\ reviews \in [Tests -> Decisions \cup {"NONE"}]
  /\ pc \in [Workers -> {"idle", "claimed", "read", "ready"}]
  /\ held \in [Workers -> Nat]
  /\ seen \in [Workers -> [Recs -> Versions \cup {0}]]
  /\ feedback \in [Workers -> [Tests -> Outcomes \cup {"NONE"}]]

Init ==
  /\ status = "PENDING"
  /\ attempt = 0
  /\ lease = "none"
  /\ errored = FALSE
  /\ recs = {}
  /\ latest = [r \in Recs |-> 0]
  /\ runs = Nothing
  /\ reviews = Nothing
  /\ pc = [w \in Workers |-> "idle"]
  /\ held = [w \in Workers |-> 0]
  /\ seen = [w \in Workers |-> [r \in Recs |-> 0]]
  /\ feedback = [w \in Workers |-> Nothing]

-----------------------------------------------------------------------------
(* Claiming, failing and saving: what every queue shares. *)

\* The attempt number a claim writes: 1 for a row that neither failed nor lost
\* a lease in this phase, one more otherwise.
NextAttempt == IF lease = "none" /\ ~errored THEN 1 ELSE attempt + 1

\* A claim takes a waiting row without a lease or an active row whose lease
\* expired.  There is no limit on the attempts here.
Claimable_WaitingOnly(waiting, active) == status = waiting /\ lease = "none"
Claimable(waiting, active) ==
  \/ status = waiting /\ lease = "none"
  \/ status = active /\ lease = "expired"

ClaimNext(w, waiting, active) ==
  /\ pc[w] = "idle"
  /\ Claimable(waiting, active)
  /\ status' = active
  /\ attempt' = NextAttempt
  /\ lease' = "live"
  /\ errored' = FALSE
  /\ pc' = [pc EXCEPT ![w] = "claimed"]
  /\ held' = [held EXCEPT ![w] = NextAttempt]
  /\ UNCHANGED <<data, seen, feedback>>

\* The worker drops what it read and polls again.
Release(w) ==
  /\ pc' = [pc EXCEPT ![w] = "idle"]
  /\ held' = [held EXCEPT ![w] = 0]
  /\ seen' = [seen EXCEPT ![w] = [r \in Recs |-> 0]]
  /\ feedback' = [feedback EXCEPT ![w] = Nothing]

\* WHERE status=<active> AND attempt_count=<the claimed one>: neither the lease
\* nor the claimant is part of the fence.
Fenced_AttemptOnly(w, active) == attempt = held[w]
Fenced_Missing(w, active) == TRUE
Fenced(w, active) == status = active /\ attempt = held[w]

\* Process failed, was cancelled by a shutdown or by a lost renewal, or its save
\* was refused: the row is retried or failed if the fence still matches.
RetryOrFail(w, waiting, active) ==
  /\ pc[w] # "idle"
  /\ Release(w)
  /\ UNCHANGED data
  /\ \/ /\ Fenced(w, active)
        /\ status' = IF attempt < MaxAttempts THEN waiting ELSE "FAILED"
        /\ errored' = TRUE
        /\ lease' = "none"
        /\ UNCHANGED attempt
     \/ /\ ~Fenced(w, active)
        /\ UNCHANGED job

\* The phase handoff every Save ends with.
Advance(w, active, next) ==
  /\ pc[w] # "idle"
  /\ Fenced(w, active)
  /\ status' = next
  /\ attempt' = 0
  /\ lease' = "none"
  /\ errored' = FALSE
  /\ Release(w)

\* The renewal goroutine of the queues that have one.
RenewLease(w, active) ==
  /\ pc[w] # "idle"
  /\ Fenced(w, active)
  /\ lease' = "live"
  /\ UNCHANGED <<status, attempt, errored, data, local>>

-----------------------------------------------------------------------------
(* The six queues and what their processors save. *)

Source(w) ==
  /\ Serves[w] = "source"
  /\ \/ ClaimNext(w, "PENDING", "FETCHING_SOURCE")
     \/ RetryOrFail(w, "PENDING", "FETCHING_SOURCE")
     \/ Advance(w, "FETCHING_SOURCE", "ANALYZING_CHANGE") /\ UNCHANGED data

Change(w) ==
  /\ Serves[w] = "change"
  /\ \/ ClaimNext(w, "ANALYZING_CHANGE", "ANALYZING_CHANGE")
     \/ RetryOrFail(w, "ANALYZING_CHANGE", "ANALYZING_CHANGE")
     \/ Advance(w, "ANALYZING_CHANGE", "RETRIEVING_CONTEXT") /\ UNCHANGED data

\* Deletes the tests of the analysis, and by cascade their runs and reviews.
ClearTests ==
  /\ runs' = Nothing
  /\ reviews' = Nothing

SaveRecommendations(w) ==
  \E proposed \in SUBSET Recs :
    /\ recs' = proposed
    /\ latest' = [r \in Recs |-> 0]
    /\ ClearTests
    /\ Advance(w, "RECOMMENDING_TESTS", "GENERATING_TESTS")

Recommendation(w) ==
  /\ Serves[w] = "recommendation"
  /\ \/ ClaimNext(w, "RETRIEVING_CONTEXT", "RECOMMENDING_TESTS")
     \/ RetryOrFail(w, "RETRIEVING_CONTEXT", "RECOMMENDING_TESTS")
     \/ SaveRecommendations(w)

\* Inserts version 1 of a test for every recommendation.
SaveGenerated(w) ==
  /\ latest' = [r \in Recs |-> IF r \in recs THEN 1 ELSE 0]
  /\ ClearTests
  /\ Advance(w, "GENERATING_TESTS", "VALIDATING")
  /\ UNCHANGED recs

Generation(w) ==
  /\ Serves[w] = "generation"
  /\ \/ ClaimNext(w, "GENERATING_TESTS", "GENERATING_TESTS")
     \/ RetryOrFail(w, "GENERATING_TESTS", "GENERATING_TESTS")
     \/ SaveGenerated(w)

\* The first read of the validation and repair processors: generated.ListLatest.
ListLatest(w) ==
  /\ pc[w] = "claimed"
  /\ seen' = [seen EXCEPT ![w] = latest]
  /\ pc' = [pc EXCEPT ![w] = IF Serves[w] = "validation" THEN "ready" ELSE "read"]
  /\ UNCHANGED <<job, data, held, feedback>>

\* The tests the processor saw.
SeenTests(w) == {<<r, seen[w][r]>> : r \in {r \in Recs : seen[w][r] > 0}}

\* ON CONFLICT (generated_test_id, attempt_number) DO UPDATE.
Upserted_Replaces(w, passed) ==
  [t \in Tests |-> IF t \in passed THEN "PASSED"
                   ELSE IF t \in SeenTests(w) THEN "FAILED" ELSE "NONE"]
Upserted(w, passed) ==
  [t \in Tests |-> IF t \in passed THEN "PASSED"
                   ELSE IF t \in SeenTests(w) THEN "FAILED" ELSE runs[t]]

\* The sandbox ran every test seen; the job goes to review if all of those passed.
SaveValidated_AnyPassed(w) ==
  \E passed \in SUBSET SeenTests(w) :
    /\ pc[w] = "ready"
    /\ runs' = Upserted(w, passed)
    /\ Advance(w, "VALIDATING",
               IF passed # {} THEN "WAITING_REVIEW" ELSE "REPAIRING")
    /\ UNCHANGED <<recs, latest, reviews>>

SaveValidated(w) ==
  \E passed \in SUBSET SeenTests(w) :
    /\ pc[w] = "ready"
    /\ runs' = Upserted(w, passed)
    /\ Advance(w, "VALIDATING",
               IF passed = SeenTests(w) THEN "WAITING_REVIEW" ELSE "REPAIRING")
    /\ UNCHANGED <<recs, latest, reviews>>

Validation(w) ==
  /\ Serves[w] = "validation"
  /\ \/ ClaimNext(w, "VALIDATING", "VALIDATING")
     \/ RetryOrFail(w, "VALIDATING", "VALIDATING")
     \/ ListLatest(w)
     \/ SaveValidated(w)

\* The repair processor's second read: every validation run of the analysis.
ListRuns(w) ==
  /\ pc[w] = "read"
  /\ feedback' = [feedback EXCEPT ![w] = runs]
  /\ pc' = [pc EXCEPT ![w] = "ready"]
  /\ UNCHANGED <<job, data, held, seen>>

\* The recommendations whose test the processor repairs.
ToRepair_OneMore(w) ==
  {r \in Recs : /\ seen[w][r] \in 1 .. MaxRepairs + 1
                /\ feedback[w][<<r, seen[w][r]>>] = "FAILED"}
ToRepair(w) ==
  {r \in Recs : /\ seen[w][r] \in 1 .. MaxRepairs
                /\ feedback[w][<<r, seen[w][r]>>] = "FAILED"}

\* A test seen without a run is an error (RetryOrFail).  Each repair appends the
\* next version, if its source still is the newest and its run still failed.
SaveRepairs(w) ==
  /\ pc[w] = "ready"
  /\ \A t \in SeenTests(w) : feedback[w][t] # "NONE"
  /\ \A r \in ToRepair(w) : latest[r] = seen[w][r] /\ runs[<<r, latest[r]>>] = "FAILED"
  /\ latest' = [r \in Recs |-> IF r \in ToRepair(w) THEN latest[r] + 1 ELSE latest[r]]
  /\ Advance(w, "REPAIRING", IF ToRepair(w) = {} THEN "WAITING_REVIEW" ELSE "VALIDATING")
  /\ UNCHANGED <<recs, runs, reviews>>

Repair(w) ==
  /\ Serves[w] = "repair"
  /\ \/ ClaimNext(w, "REPAIRING", "REPAIRING")
     \/ RetryOrFail(w, "REPAIRING", "REPAIRING")
     \/ ListLatest(w)
     \/ ListRuns(w)
     \/ SaveRepairs(w)

-----------------------------------------------------------------------------
(* Review, time and crashes. *)

Newest == {<<r, latest[r]>> : r \in {r \in Recs : latest[r] > 0}}

\* ErrValidationFailed: only a test whose run passed can be accepted.
Acceptable_NotFailed(t) == runs[t] # "FAILED"
Acceptable(t) == runs[t] = "PASSED"

\* A reviewer decides one test; the last decision also decides the analysis.
Decide(t, decision) ==
  /\ status = "WAITING_REVIEW"
  /\ t \in Newest
  /\ reviews[t] = "NONE"
  /\ decision = "ACCEPTED" => Acceptable(t)
  /\ reviews' = [reviews EXCEPT ![t] = decision]
  /\ \/ /\ \A u \in Newest : reviews'[u] # "NONE"
        /\ status' = IF \E u \in Newest : reviews'[u] = "REJECTED"
                     THEN "REJECTED" ELSE "ACCEPTED"
        /\ lease' = "none"
        /\ errored' = FALSE
        /\ UNCHANGED attempt
     \/ /\ \E u \in Newest : reviews'[u] = "NONE"
        /\ UNCHANGED job
  /\ UNCHANGED <<recs, latest, runs, local>>

\* The lease runs out, whether its holder crashed, hangs or is merely slow.
LeaseExpires ==
  /\ lease = "live"
  /\ attempt < AttemptBound
  /\ lease' = "expired"
  /\ UNCHANGED <<status, attempt, errored, data, local>>

\* The worker dies, or cannot reach the database to report its error.
Crash(w) ==
  /\ pc[w] # "idle"
  /\ attempt < AttemptBound
  /\ Release(w)
  /\ UNCHANGED <<job, data>>

Renew(w) ==
  \/ Serves[w] = "recommendation" /\ RenewLease(w, "RECOMMENDING_TESTS")
  \/ Serves[w] = "generation" /\ RenewLease(w, "GENERATING_TESTS")
  \/ Serves[w] = "validation" /\ RenewLease(w, "VALIDATING")
  \/ Serves[w] = "repair" /\ RenewLease(w, "REPAIRING")

Progress(w) ==
  \/ Source(w) \/ Change(w) \/ Recommendation(w)
  \/ Generation(w) \/ Validation(w) \/ Repair(w)

Next ==
  \/ \E w \in Workers : Progress(w) \/ Renew(w) \/ Crash(w)
  \/ \E t \in Tests, decision \in Decisions : Decide(t, decision)
  \/ LeaseExpires

Spec == Init /\ [][Next]_vars

\* Workers poll, and a processor returns: its calls have timeouts.  Time passes.
\* Reviewers, crashes and renewals owe nothing.
Fairness == (\A w \in Workers : WF_vars(Progress(w))) /\ WF_vars(LeaseExpires)

FairSpec == Spec /\ Fairness

-----------------------------------------------------------------------------
(* Properties. *)

Reviewable == {"WAITING_REVIEW", "ACCEPTED", "REJECTED"}

\* The verdict rests on the newest versions alone: whatever happened before, an
\* ACCEPTED analysis has every newest test accepted on a passed run, a REJECTED
\* one has every newest test decided and one refused, and no decision is on a
\* version that a repair superseded.
VerdictMatchesReviews ==
  /\ \A t \in Tests : reviews[t] # "NONE" => t \in Newest
  /\ \A t \in Tests : reviews[t] = "ACCEPTED" => runs[t] = "PASSED"
  /\ status = "ACCEPTED" => \A t \in Newest : reviews[t] = "ACCEPTED"
  /\ status = "REJECTED" => /\ \A t \in Newest : reviews[t] # "NONE"
                            /\ \E t \in Newest : reviews[t] = "REJECTED"

\* A reviewer decides on evidence that no longer moves: no late worker adds a
\* version or rewrites a run once the analysis waits for review.
EvidenceFrozen ==
  [][(status \in Reviewable) => UNCHANGED <<recs, latest, runs>>]_vars

\* The pipeline's phases in order; validation and repair alternate.
Rank == [PENDING |-> 0, FETCHING_SOURCE |-> 0, ANALYZING_CHANGE |-> 1,
         RETRIEVING_CONTEXT |-> 2, RECOMMENDING_TESTS |-> 2, GENERATING_TESTS |-> 3,
         VALIDATING |-> 4, REPAIRING |-> 4, WAITING_REVIEW |-> 5,
         ACCEPTED |-> 6, REJECTED |-> 6, FAILED |-> 6]

\* No worker whose lease was taken over takes the analysis back to a phase that
\* its successor completed, nor revives one that ended.
NeverGoesBack ==
  [][/\ Rank[status] <= Rank[status']
     /\ Rank[status] = 6 => status' = status]_vars

\* What a reviewer sees was validated: the newest version of every test has a
\* run, which passed unless the repairs are used up.
ReviewableIsValidated ==
  status \in Reviewable =>
    \A t \in Newest : \/ runs[t] = "PASSED"
                      \/ runs[t] = "FAILED" /\ t[2] = MaxRepairs + 1

\* The repair history reads as it happened: a version was superseded because its
\* run failed.
RepairsFollowFailures ==
  \A t \in Tests : t[2] < latest[t[1]] => runs[t] = "FAILED"

\* Every analysis leaves the workers: crashes, lost leases and the repair loop
\* never keep it from a reviewer or from FAILED.
AnalysisSettles == <>(status \in Reviewable \cup {"FAILED"})
=============================================================================
