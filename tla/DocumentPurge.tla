---------------------------- MODULE DocumentPurge ----------------------------
(***************************************************************************)
(* The life of one document set: uploads, archive and restore, the projects *)
(* and analyses that pin it, and its physical purge                        *)
(* (backend/internal/document/{service, repository, storage}.go and         *)
(* scope/repository.go).                                                   *)
(*                                                                         *)
(* Two stores change without a common transaction: PostgreSQL rows and      *)
(* document objects on disk.  A transaction is one step (every one of them  *)
(* that matters here takes the row lock of document_sets); the steps of a   *)
(* request between two transactions interleave with everything else.        *)
(***************************************************************************)
EXTENDS FiniteSets

CONSTANTS
    Keys,        \* storage keys, one per upload request (16 random bytes)
    Projects,    \* projects that may select the set as their baseline
    Analyses,    \* analyses of those projects
    Purges       \* purge requests of administrators

VARIABLES
    status,      \* document_sets.status; "GONE" is the deleted row
    aged,        \* the shortest retention (30 days) has passed since archived_at
    versions,    \* document_versions.storage_key
    files,       \* objects on disk
    bound,       \* project_document_baselines that name the set
    pinned,      \* analysis_baseline_snapshots, with their test_runs
    audit,       \* document_set_purge_audit.status of each request
    upload, selecting, snapshotting, purging,   \* where each request is
    plan         \* PurgePlan.StorageKeys that the request still has to delete

rows == <<status, aged, versions, bound, pinned, audit>>
requests == <<upload, selecting, snapshotting, purging, plan>>
vars == <<rows, files, requests>>

\* Rows and requests keep to their types; an active set has no archived_at.
TypeOK ==
    /\ status \in {"ACTIVE", "ARCHIVED", "PURGING", "GONE"}
    /\ aged \in BOOLEAN /\ (aged => status # "ACTIVE")
    /\ versions \subseteq Keys /\ files \subseteq Keys
    /\ bound \subseteq Projects /\ pinned \subseteq Analyses
    /\ audit \in [Purges -> {"NONE", "REQUESTED", "COMPLETED", "FAILED"}]
    /\ upload \in [Keys -> {"new", "saved", "refused", "stored", "over"}]
    /\ selecting \in [Projects -> BOOLEAN]
    /\ snapshotting \in [Analyses -> {"idle", "baseline", "active"}]
    /\ purging \in [Purges -> {"new", "deleting", "over"}]
    /\ plan \in [Purges -> SUBSET Keys]

Init ==
    /\ status = "ACTIVE" /\ aged = FALSE
    /\ versions = {} /\ files = {} /\ bound = {} /\ pinned = {}
    /\ audit = [q \in Purges |-> "NONE"]
    /\ upload = [k \in Keys |-> "new"]
    /\ selecting = [p \in Projects |-> FALSE]
    /\ snapshotting = [a \in Analyses |-> "idle"]
    /\ purging = [q \in Purges |-> "new"]
    /\ plan = [q \in Purges |-> {}]

-----------------------------------------------------------------------------
(* Upload.                                                                 *)

\* Upload finds the set, whatever its status, and FileStore.Save renames the
\* finished object into place.
SaveFile(k) ==
    /\ upload[k] = "new"
    /\ status # "GONE"
    /\ files' = files \cup {k}
    /\ upload' = [upload EXCEPT ![k] = "saved"]
    /\ UNCHANGED <<rows, selecting, snapshotting, purging, plan>>

\* CreateVersion under the set's row lock.
Uploadable_Present == status # "GONE"
Uploadable == status = "ACTIVE"
CreateVersion(k) ==
    /\ upload[k] = "saved"
    /\ Uploadable
    /\ versions' = versions \cup {k}
    /\ upload' = [upload EXCEPT ![k] = "stored"]
    /\ UNCHANGED <<status, aged, files, bound, pinned, audit,
                   selecting, snapshotting, purging, plan>>

\* The set is not active, or the transaction failed for another reason.
VersionRefused(k) ==
    /\ upload[k] = "saved"
    /\ upload' = [upload EXCEPT ![k] = "refused"]
    /\ UNCHANGED <<rows, files, selecting, snapshotting, purging, plan>>

\* Upload removes the object of a version that was refused.
RemoveRefused(k) ==
    /\ upload[k] = "refused"
    /\ files' = files \ {k}
    /\ upload' = [upload EXCEPT ![k] = "over"]
    /\ UNCHANGED <<rows, selecting, snapshotting, purging, plan>>

\* The API process dies, or the removal fails: its error is dropped.
UploadDies(k) ==
    /\ upload[k] \in {"saved", "refused"}
    /\ upload' = [upload EXCEPT ![k] = "over"]
    /\ UNCHANGED <<rows, files, selecting, snapshotting, purging, plan>>

-----------------------------------------------------------------------------
(* Lifecycle.                                                              *)

\* archived_at=CASE: archiving again keeps it, restoring clears it.
KeepsAge_OnRestore(s) == aged
KeepsAge(s) == aged /\ s = "ARCHIVED"

\* UpdateLifecycle.
Changeable_Always == status # "GONE"
Changeable == status \in {"ACTIVE", "ARCHIVED"}
UpdateLifecycle(s) ==
    /\ Changeable
    /\ status' = s
    /\ aged' = KeepsAge(s)
    /\ UNCHANGED <<versions, files, bound, pinned, audit, requests>>

\* 30 days pass on an archived set.  No request lasts that long: one that read
\* the set while it was active is over.
RetentionPasses ==
    /\ status = "ARCHIVED" /\ ~aged
    /\ \A p \in Projects : ~selecting[p]
    /\ \A a \in Analyses : snapshotting[a] = "idle"
    /\ aged' = TRUE
    /\ UNCHANGED <<status, versions, files, bound, pinned, audit, requests>>

-----------------------------------------------------------------------------
(* What pins the set.                                                      *)

\* scope.Select reads an active set in one statement and writes the baseline in
\* another; the foreign key refuses a set that is gone.
SelectRead(p) ==
    /\ ~selecting[p]
    /\ status = "ACTIVE"
    /\ selecting' = [selecting EXCEPT ![p] = TRUE]
    /\ UNCHANGED <<rows, files, upload, snapshotting, purging, plan>>

SelectWrite(p) ==
    /\ selecting[p]
    /\ selecting' = [selecting EXCEPT ![p] = FALSE]
    /\ bound' = IF status = "GONE" THEN bound ELSE bound \cup {p}
    /\ UNCHANGED <<status, aged, versions, files, pinned, audit,
                   upload, snapshotting, purging, plan>>

\* The project selects a baseline of another set.
Rebind(p) ==
    /\ p \in bound
    /\ bound' = bound \ {p}
    /\ UNCHANGED <<status, aged, versions, files, pinned, audit, requests>>

\* SnapshotForAnalysis reads the project's baseline, then the status of its set,
\* then many other rows, before the transaction that inserts snapshot and test
\* run.
ReadBaseline(a) ==
    /\ snapshotting[a] = "idle" /\ a \notin pinned
    /\ bound # {}
    /\ snapshotting' = [snapshotting EXCEPT ![a] = "baseline"]
    /\ UNCHANGED <<rows, files, upload, selecting, purging, plan>>

Snapshotable_AnyStatus == TRUE
Snapshotable == status = "ACTIVE"
CheckActive(a) ==
    /\ snapshotting[a] = "baseline"
    /\ snapshotting' = [snapshotting EXCEPT ![a] = IF Snapshotable THEN "active" ELSE "idle"]
    /\ UNCHANGED <<rows, files, upload, selecting, purging, plan>>

\* The insert, or an error anywhere on the way to it.
InsertSnapshot(a) ==
    /\ snapshotting[a] = "active"
    /\ snapshotting' = [snapshotting EXCEPT ![a] = "idle"]
    /\ \/ status # "GONE" /\ pinned' = pinned \cup {a}
       \/ UNCHANGED pinned
    /\ UNCHANGED <<status, aged, versions, files, bound, audit,
                   upload, selecting, purging, plan>>

-----------------------------------------------------------------------------
(* Purge.                                                                  *)

Ends(q, result) ==
    /\ purging' = [purging EXCEPT ![q] = "over"]
    /\ audit' = [audit EXCEPT ![q] = result]

\* BeginPurge.  A set whose purge was left half done may be purged again.  A
\* retention longer than the shortest only delays this step.
Unpinned_NoSnapshots == bound = {}
Unpinned == bound = {} /\ pinned = {}
BeginPurge(q) ==
    /\ purging[q] = "new"
    /\ status \in {"ARCHIVED", "PURGING"}
    /\ aged
    /\ Unpinned
    /\ status' = "PURGING"
    /\ plan' = [plan EXCEPT ![q] = versions]
    /\ audit' = [audit EXCEPT ![q] = "REQUESTED"]
    /\ purging' = [purging EXCEPT ![q] = "deleting"]
    /\ UNCHANGED <<aged, versions, files, bound, pinned,
                   upload, selecting, snapshotting>>

\* FileStore.Delete; an object that is already gone is no error.
DeleteObject(q, k) ==
    /\ purging[q] = "deleting"
    /\ k \in plan[q]
    /\ files' = files \ {k}
    /\ plan' = [plan EXCEPT ![q] = @ \ {k}]
    /\ UNCHANGED <<rows, upload, selecting, snapshotting, purging>>

\* CompletePurge deletes the row that is still PURGING; the rows of the set go
\* with it by cascade, a pin makes the foreign keys refuse.
Deletable_AnyStatus == bound = {} /\ pinned = {}
Deletable == status = "PURGING" /\ bound = {} /\ pinned = {}
CompletePurge(q) ==
    /\ purging[q] = "deleting"
    /\ plan[q] = {}
    /\ Deletable
    /\ status' = "GONE"
    /\ versions' = {}
    /\ Ends(q, "COMPLETED")
    /\ UNCHANGED <<aged, files, bound, pinned, upload, selecting, snapshotting, plan>>

\* An object that cannot be deleted, or a CompletePurge that is refused or
\* fails, ends the request; the set stays as it is.
PurgeFails(q) ==
    /\ purging[q] = "deleting"
    /\ Ends(q, "FAILED")
    /\ UNCHANGED <<status, aged, versions, files, bound, pinned,
                   upload, selecting, snapshotting, plan>>

\* The API process dies, or FailPurge fails: the audit stays REQUESTED.
PurgeDies(q) ==
    /\ purging[q] = "deleting"
    /\ purging' = [purging EXCEPT ![q] = "over"]
    /\ UNCHANGED <<rows, files, upload, selecting, snapshotting, plan>>

-----------------------------------------------------------------------------
Upload(k) == \/ SaveFile(k) \/ CreateVersion(k) \/ VersionRefused(k)
             \/ RemoveRefused(k) \/ UploadDies(k)
Baseline(p) == SelectRead(p) \/ SelectWrite(p) \/ Rebind(p)
Snapshot(a) == ReadBaseline(a) \/ CheckActive(a) \/ InsertSnapshot(a)
Purge(q) == \/ BeginPurge(q) \/ CompletePurge(q) \/ PurgeFails(q) \/ PurgeDies(q)
            \/ \E k \in Keys : DeleteObject(q, k)

Next ==
    \/ \E k \in Keys : Upload(k)
    \/ \E p \in Projects : Baseline(p)
    \/ \E a \in Analyses : Snapshot(a)
    \/ \E q \in Purges : Purge(q)
    \/ \E s \in {"ACTIVE", "ARCHIVED"} : UpdateLifecycle(s)
    \/ RetentionPasses

Spec == Init /\ [][Next]_vars

-----------------------------------------------------------------------------
(* Properties.                                                             *)

\* A set that can be read has all its objects: no purge that failed half way
\* gives a set back, and no refused upload removes an object that has a row.
FilesOutliveRows == status \in {"ACTIVE", "ARCHIVED"} => versions \subseteq files

\* A purged set leaves no object of any of its versions behind, although the
\* objects to delete were listed before uploads that were under way ended.
PurgeLeavesNothing ==
    status = "GONE" => \A k \in Keys : upload[k] = "stored" => k \notin files

\* A purge that has begun can always be finished: nothing pins a set of which
\* objects may already be deleted, so no foreign key refuses a later attempt.
PurgeCanFinish == status = "PURGING" => bound = {} /\ pinned = {}

\* The audit, which outlives the set, tells who purged it: exactly one request
\* is COMPLETED when the set is gone and none before.
AuditTellsThePurge ==
    /\ \A q, r \in Purges : audit[q] = "COMPLETED" /\ audit[r] = "COMPLETED" => q = r
    /\ (status = "GONE") <=> (\E q \in Purges : audit[q] = "COMPLETED")
=============================================================================
