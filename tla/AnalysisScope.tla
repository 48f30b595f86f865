--------------------------- MODULE AnalysisScope ---------------------------
(***************************************************************************)
(* How a merge request event becomes an analysis with a test scope: the      *)
(* webhook handlers (gitlab, github), the insertion of the job               *)
(* (job.Repository.Enqueue), the choice of a project's baseline, and the     *)
(* scope that is pinned from it (scope.Repository, scope.Enqueuer).          *)
(*                                                                           *)
(* The job is committed before its scope is read, statement by statement,    *)
(* and written in a last transaction: a delivery that fails between them     *)
(* leaves the job and answers 500, and it is the next delivery of the same   *)
(* event that adds the scope.  Everything is about one project.  Releases    *)
(* never change (TestCatalog), so what a scope copies of one is its number;  *)
(* what a reviewer changes in a scope later is part of TestRuns.             *)
(***************************************************************************)
EXTENDS Integers, FiniteSets, Sequences, SequencesExt

CONSTANTS
    Event,        \* merge request events; all deliveries of one carry its UUID
    ActionOf,     \* what each event reports
    Delivery,     \* requests served at the same time
    Identifier,   \* identifiers of requirements, as sequences of their segments
    Traced,       \* the cases, with the requirement keys that each is linked to
    Contents,     \* the cases of every release, in the order of publication
    NoBaseline

ASSUME ContentsAssumption ==
    /\ Contents \in Seq(SUBSET DOMAIN Traced) /\ Contents # << >>
    /\ \A n \in DOMAIN Contents : Contents[n] # {}
ASSUME IdentifierAssumption == \A id \in Identifier : Len(id) \in Nat

VARIABLES
    published,  \* the number of the newest release
    active,     \* status of the document set
    project,    \* pipeline_mode of the project, and its baseline
    jobs,       \* analysis_jobs by event: the identifiers in its raw_event
    delivery,   \* what each request has read
    snapshot    \* analysis_baseline_snapshots with their scope items, by event

scopeVars == <<published, active, project, jobs, delivery, snapshot>>

SelectionModes == {"FULL_APPROVED", "MAPPED_WITH_FULL_FALLBACK"}
Baseline == [release : DOMAIN Contents, mode : SelectionModes]
NoRequest == [phase |-> "idle", baseline |-> NoBaseline]
Waiting(e) == [phase |-> "enqueued", event |-> e, baseline |-> NoBaseline]

ScopeInit ==
    /\ published = 1
    /\ active = TRUE
    /\ project = [legacy |-> FALSE, baseline |-> NoBaseline]
    /\ jobs = << >>
    /\ delivery = [d \in Delivery |-> NoRequest]
    /\ snapshot = << >>

-----------------------------------------------------------------------------
(* What a scope selects. *)

\* An identifier names a requirement by its key or by a leading part of it.
\* Case, blanks and underscores are normalized away; segments are what is left.
Matches_Whole(id, key) == id = key
Matches(id, key) == id = key \/ IsStrictPrefix(id, key)
MatchedKeys(ids, release) ==
    {key \in UNION {Traced[c] : c \in Contents[release]} : \E id \in ids : Matches(id, key)}
TracedTo(keys, release) == {c \in Contents[release] : Traced[c] \cap keys # {}}

Fallback_None(release) == {}
Fallback(release) == Contents[release]
ScopeOf(b, ids) ==
    LET selected == IF b.mode = "FULL_APPROVED" THEN {} ELSE TracedTo(MatchedKeys(ids, b.release), b.release)
    IN  [release |-> b.release,
         mode |-> CASE b.mode = "FULL_APPROVED" -> "FULL_APPROVED"
                    [] b.mode # "FULL_APPROVED" /\ selected # {} -> "EXPLICIT_TRACE"
                    [] OTHER -> "FULL_BASELINE_FALLBACK",
         included |-> IF selected # {} THEN selected ELSE Fallback(b.release)]

-----------------------------------------------------------------------------
(* The delivery of an event. *)

\* Accept: the other actions are refused, and nothing is written.
Supported(e) == ActionOf[e] \in {"opened", "reopened", "updated"}

\* The row is inserted unless its UUID is known; then the known row is found.
Enqueue(d, e, ids) ==
    /\ delivery[d].phase = "idle"
    /\ Supported(e)
    /\ jobs' = [x \in DOMAIN jobs \cup {e} |-> IF x \in DOMAIN jobs THEN jobs[x] ELSE ids]
    /\ delivery' = [delivery EXCEPT ![d] = Waiting(e)]
    /\ UNCHANGED <<published, active, project, snapshot>>

\* The reads of SnapshotForAnalysis up to the existing snapshot.  Without a
\* baseline to pin, or with a scope already there, the delivery is answered.
Pinnable(e) ==
    ~project.legacy /\ project.baseline # NoBaseline /\ active /\ e \notin DOMAIN snapshot
ReadBaseline(d) ==
    /\ delivery[d].phase = "enqueued"
    /\ delivery' = [delivery EXCEPT ![d] =
          IF Pinnable(delivery[d].event)
          THEN [@ EXCEPT !.phase = "read", !.baseline = project.baseline]
          ELSE NoRequest]
    /\ UNCHANGED <<published, active, project, jobs, snapshot>>

\* The transaction that writes snapshot, run and scope; it is refused when
\* another delivery was faster (analysis_job_id is unique).
Unscoped_Any(e) == TRUE
Unscoped(e) == e \notin DOMAIN snapshot
SaveScope(d) ==
    LET e == delivery[d].event IN
    /\ delivery[d].phase = "read"
    /\ Unscoped(e)
    /\ snapshot' = [x \in DOMAIN snapshot \cup {e} |->
                      IF x = e THEN ScopeOf(delivery[d].baseline, jobs[e]) ELSE snapshot[x]]
    /\ delivery' = [delivery EXCEPT ![d] = NoRequest]
    /\ UNCHANGED <<published, active, project, jobs>>

\* A statement fails, the refused insertion among them, and the answer is 500;
\* or the process dies.
DeliveryFails(d) ==
    /\ delivery[d].phase # "idle"
    /\ delivery' = [delivery EXCEPT ![d] = NoRequest]
    /\ UNCHANGED <<published, active, project, jobs, snapshot>>

-----------------------------------------------------------------------------
(* What changes meanwhile. *)

\* A release by its id, or the newest one (published); the two statements are
\* one step: what is read between them may be archived after them as well.
Select(release, mode) ==
    /\ active
    /\ project' = [project EXCEPT !.baseline = [release |-> release, mode |-> mode]]
    /\ UNCHANGED <<published, active, jobs, delivery, snapshot>>

SetPipelineMode(legacy) ==
    /\ project' = [project EXCEPT !.legacy = legacy]
    /\ UNCHANGED <<published, active, jobs, delivery, snapshot>>

\* PublishRelease of TestCatalog, Archive and Restore of DocumentPurge.
PublishNext ==
    /\ published < Len(Contents)
    /\ published' = published + 1
    /\ UNCHANGED <<active, project, jobs, delivery, snapshot>>
SetActive(status) ==
    /\ active' = status
    /\ UNCHANGED <<published, project, jobs, delivery, snapshot>>

-----------------------------------------------------------------------------
ScopeNext ==
    \/ \E d \in Delivery :
          \/ \E e \in Event, ids \in SUBSET Identifier : Enqueue(d, e, ids)
          \/ ReadBaseline(d)
          \/ SaveScope(d)
          \/ DeliveryFails(d)
    \/ \E release \in 1..published, mode \in SelectionModes : Select(release, mode)
    \/ \E legacy \in BOOLEAN : SetPipelineMode(legacy)
    \/ PublishNext
    \/ \E status \in BOOLEAN : SetActive(status)

ScopeSpec == ScopeInit /\ [][ScopeNext]_scopeVars

-----------------------------------------------------------------------------
(* Properties. *)

\* A case left out of a scope is linked to no requirement the event names, and
\* the event names a requirement of a case that is in it: without a trace the
\* whole release is run.  ("Low-confidence mapping does not silently narrow
\* the test suite", DOCUMENT_DRIVEN_TESTING_REFACTOR_PLAN.md:579.)
Named(ids) == {key \in UNION {Traced[c] : c \in DOMAIN Traced} : \E id \in ids : IsPrefix(id, key)}
NarrowedByTrace(scope, ids) ==
    /\ scope.included # {} /\ scope.included \subseteq Contents[scope.release]
    /\ \A c \in Contents[scope.release] \ scope.included :
          /\ Traced[c] \cap Named(ids) = {}
          /\ \E in \in scope.included : Traced[in] \cap Named(ids) # {}

\* Scopes are of jobs, select no less than the event traces, and stand: neither
\* a second delivery nor a baseline selected since changes what was pinned.
ScopesStand ==
    /\ [](\A e \in DOMAIN snapshot : e \in DOMAIN jobs /\ NarrowedByTrace(snapshot[e], jobs[e]))
    /\ [][\A e \in DOMAIN snapshot : e \in DOMAIN snapshot' /\ snapshot'[e] = snapshot[e]]_scopeVars
=============================================================================
