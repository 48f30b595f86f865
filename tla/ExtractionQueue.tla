-------------------------- MODULE ExtractionQueue --------------------------
(***************************************************************************)
(* The requirement extraction queue (requirement.Repository, Worker) for one *)
(* row of requirement_extraction_jobs, and the workflow commands that reach  *)
(* it through the job that delegates to it (workflow.Repository Cancel and   *)
(* Retry, reconcileDelegated).  Extraction itself saves requirements as it   *)
(* goes, outside the fence: see RequirementReview.                           *)
(***************************************************************************)
EXTENDS Integers

CONSTANTS
    Extractor,              \* worker goroutines
    MaxExtractionAttempts,  \* MaxAttempts of the worker
    ExtractionClaims,       \* bound: attempts of the row
    ExtractionRetries       \* bound: Retry commands

ASSUME ExtractionAttemptsAssumption == MaxExtractionAttempts \in Nat \ {0}
ASSUME ExtractionBoundsAssumption == ExtractionClaims \in Nat /\ ExtractionRetries \in Nat

VARIABLES
    extraction,   \* status, attempt_count, lease_expires_at; the attempt whose summary is stored
    delegating,   \* the status of the workflow job, which follows on reads only
    extractor,    \* the attempt each worker claimed, 0 when idle
    reopened      \* Retry commands so far

extractionVars == <<extraction, delegating, extractor, reopened>>

ExtractionInit ==
    /\ extraction = [status |-> "PENDING", attempt |-> 0, lease |-> "none", summary |-> 0]
    /\ delegating = "QUEUED"
    /\ extractor = [x \in Extractor |-> 0]
    /\ reopened = 0

ExtractionClaimable ==
    \/ extraction.status = "PENDING" /\ extraction.lease = "none"
    \/ extraction.status = "RUNNING" /\ extraction.lease = "expired"

ClaimExtraction(x) ==
    /\ extractor[x] = 0
    /\ ExtractionClaimable
    /\ extraction.attempt < ExtractionClaims
    /\ extraction' = [extraction EXCEPT !.status = "RUNNING", !.attempt = @ + 1, !.lease = "live"]
    /\ extractor' = [extractor EXCEPT ![x] = extraction.attempt + 1]
    /\ UNCHANGED <<delegating, reopened>>

ExtractionHeld_AnyStatus(x) == extraction.attempt = extractor[x]
ExtractionHeld(x) == extraction.status = "RUNNING" /\ extraction.attempt = extractor[x]

\* Renewals and progress keep the lease; a worker that no longer holds the
\* row fails its work and comes to RetryOrFailExtraction.
RenewExtractionLease(x) ==
    /\ extractor[x] # 0
    /\ ExtractionHeld(x)
    /\ extraction' = [extraction EXCEPT !.lease = "live"]
    /\ UNCHANGED <<delegating, extractor, reopened>>

ExtractionLeaseExpires ==
    /\ extraction.lease = "live"
    /\ extraction' = [extraction EXCEPT !.lease = "expired"]
    /\ UNCHANGED <<delegating, extractor, reopened>>

CompleteExtraction(x) ==
    /\ extractor[x] # 0
    /\ extraction' = IF ExtractionHeld(x)
                     THEN [extraction EXCEPT !.status = "COMPLETED", !.lease = "none",
                                             !.summary = extractor[x]]
                     ELSE extraction
    /\ extractor' = [extractor EXCEPT ![x] = 0]
    /\ UNCHANGED <<delegating, reopened>>

RetryOrFailExtraction(x) ==
    /\ extractor[x] # 0
    /\ extraction' = IF ExtractionHeld(x)
                     THEN [extraction EXCEPT !.lease = "none",
                              !.status = IF extraction.attempt < MaxExtractionAttempts
                                         THEN "PENDING" ELSE "FAILED"]
                     ELSE extraction
    /\ extractor' = [extractor EXCEPT ![x] = 0]
    /\ UNCHANGED <<delegating, reopened>>

ExtractorDies(x) ==
    /\ extractor[x] # 0
    /\ extractor' = [extractor EXCEPT ![x] = 0]
    /\ UNCHANGED <<extraction, delegating, reopened>>

-----------------------------------------------------------------------------
Mapped == [PENDING |-> "QUEUED", RUNNING |-> "RUNNING", COMPLETED |-> "SUCCEEDED",
           FAILED |-> "FAILED", CANCELED |-> "CANCELED"]

\* Every read of the job copies the row's status to it.
ReconcileDelegated ==
    /\ delegating' = Mapped[extraction.status]
    /\ UNCHANGED <<extraction, extractor, reopened>>

Withdrawn == extraction.status \in {"PENDING", "RUNNING"}

\* Cancel answers with Get, so the job follows in the same call.
CancelDelegated ==
    /\ delegating \in {"QUEUED", "RUNNING"}
    /\ extraction' = IF Withdrawn
                     THEN [extraction EXCEPT !.status = "CANCELED", !.lease = "none"]
                     ELSE extraction
    /\ delegating' = Mapped[extraction'.status]
    /\ UNCHANGED <<extractor, reopened>>

RetryDelegated ==
    /\ delegating \in {"FAILED", "CANCELED"}
    /\ reopened < ExtractionRetries
    /\ extraction' = [extraction EXCEPT !.status = "PENDING", !.attempt = 0, !.lease = "none"]
    /\ delegating' = "QUEUED"
    /\ reopened' = reopened + 1
    /\ UNCHANGED extractor

ExtractionNext ==
    \/ ExtractionLeaseExpires \/ ReconcileDelegated \/ CancelDelegated \/ RetryDelegated
    \/ \E x \in Extractor : \/ ClaimExtraction(x) \/ RenewExtractionLease(x)
                            \/ CompleteExtraction(x) \/ RetryOrFailExtraction(x)
                            \/ ExtractorDies(x)

ExtractionSpec == ExtractionInit /\ [][ExtractionNext]_extractionVars

-----------------------------------------------------------------------------
ExtractionState == [PENDING |-> "waiting", RUNNING |-> "working", COMPLETED |-> "done",
                    FAILED |-> "failed", CANCELED |-> "failed"]
ExtractionTask == INSTANCE TaskLifecycle WITH
    state <- ExtractionState[extraction.status], turn <- extraction.attempt,
    outcome <- extraction.summary
=============================================================================
