-------------------------- MODULE Documents_proofs --------------------------
(***************************************************************************)
(* Proofs about one document set and the queues of its versions: rows and    *)
(* objects, pins and purges, audit and set agree (DocumentPurge); the ledger *)
(* of its budget grants no more than the budget and forgets no call that the *)
(* provider charges (AIBudget); the parse queue and the extraction queue     *)
(* implement TaskLifecycle.  For any number of uploads, analyses, purges,    *)
(* calls, amounts, workers and attempts.  Last, what holds of a behaviour of *)
(* these modules side by side, as the runs check it (MCDocuments).           *)
(***************************************************************************)
EXTENDS MCDocuments, SourceIntents_proofs, FiniteSetTheorems, WellFoundedInduction, TLAPS

-----------------------------------------------------------------------------
(* Purging a set. *)

\* Once the shortest retention has passed no request is left that read the set
\* while it was active, so a set in PURGING cannot be pinned any more.
Pins ==
    /\ status \in {"PURGING", "GONE"} => aged /\ bound = {} /\ pinned = {}
    /\ aged => /\ \A p \in Projects : ~selecting[p]
               /\ \A a \in Analyses : snapshotting[a] # "active"

\* Versions, objects and uploads: a stored key is never saved again, so what a
\* purge listed or deleted cannot come back, and all that is left of a set in
\* PURGING is on the list of every purge that still runs.
Objects ==
    /\ \A k \in Keys : k \in versions => upload[k] = "stored"
    /\ \A k \in Keys : upload[k] = "stored" => k \in versions \/ status = "GONE"
    /\ \A k \in Keys : upload[k] = "saved" => k \in files
    /\ FilesOutliveRows
    /\ \A q \in Purges : purging[q] = "deleting" =>
          /\ status \in {"PURGING", "GONE"}
          /\ \A k \in plan[q] : upload[k] = "stored"
          /\ status = "PURGING" => versions \cap files \subseteq plan[q]
    /\ PurgeLeavesNothing

\* A request that has not ended has not been recorded as completed.
Records ==
    /\ \A q \in Purges : purging[q] = "new" => audit[q] = "NONE"
    /\ \A q \in Purges : purging[q] = "deleting" => audit[q] = "REQUESTED"
    /\ AuditTellsThePurge

-----------------------------------------------------------------------------
\* Every step keeps the types.
LEMMA TypeStep ==
  ASSUME TypeOK, [Next]_vars
  PROVE  TypeOK'
<1> USE DEF TypeOK, rows, requests
<1>1. ASSUME NEW k \in Keys, SaveFile(k) PROVE TypeOK'
  BY <1>1 DEF SaveFile
<1>2. ASSUME NEW k \in Keys, CreateVersion(k) PROVE TypeOK'
  BY <1>2 DEF CreateVersion, Uploadable
<1>3. ASSUME NEW k \in Keys, VersionRefused(k) PROVE TypeOK'
  BY <1>3 DEF VersionRefused
<1>4. ASSUME NEW k \in Keys, RemoveRefused(k) PROVE TypeOK'
  BY <1>4 DEF RemoveRefused
<1>5. ASSUME NEW k \in Keys, UploadDies(k) PROVE TypeOK'
  BY <1>5 DEF UploadDies
<1>6. ASSUME NEW p \in Projects, SelectRead(p) PROVE TypeOK'
  BY <1>6 DEF SelectRead
<1>7. ASSUME NEW p \in Projects, SelectWrite(p) PROVE TypeOK'
  BY <1>7 DEF SelectWrite
<1>8. ASSUME NEW p \in Projects, Rebind(p) PROVE TypeOK'
  BY <1>8 DEF Rebind
<1>9. ASSUME NEW a \in Analyses, ReadBaseline(a) PROVE TypeOK'
  BY <1>9 DEF ReadBaseline
<1>10. ASSUME NEW a \in Analyses, CheckActive(a) PROVE TypeOK'
  BY <1>10 DEF CheckActive, Snapshotable
<1>11. ASSUME NEW a \in Analyses, InsertSnapshot(a) PROVE TypeOK'
  BY <1>11 DEF InsertSnapshot
<1>12. ASSUME NEW q \in Purges, BeginPurge(q) PROVE TypeOK'
  BY <1>12 DEF BeginPurge, Unpinned
<1>13. ASSUME NEW q \in Purges, CompletePurge(q) PROVE TypeOK'
  BY <1>13 DEF CompletePurge, Deletable, Ends
<1>14. ASSUME NEW q \in Purges, PurgeFails(q) PROVE TypeOK'
  BY <1>14 DEF PurgeFails, Ends
<1>15. ASSUME NEW q \in Purges, PurgeDies(q) PROVE TypeOK'
  BY <1>15 DEF PurgeDies
<1>16. ASSUME NEW q \in Purges, NEW k \in Keys, DeleteObject(q, k) PROVE TypeOK'
  BY <1>16 DEF DeleteObject
<1>17. ASSUME NEW s \in {"ACTIVE", "ARCHIVED"}, UpdateLifecycle(s) PROVE TypeOK'
  BY <1>17 DEF UpdateLifecycle, Changeable, KeepsAge
<1>18. ASSUME RetentionPasses PROVE TypeOK'
  BY <1>18 DEF RetentionPasses
<1>19. CASE UNCHANGED vars
  BY <1>19 DEF vars
<1> QED
  BY <1>1, <1>2, <1>3, <1>4, <1>5, <1>6, <1>7, <1>8, <1>9, <1>10, <1>11, <1>12, <1>13, <1>14, <1>15, <1>16, <1>17, <1>18, <1>19 DEF Next, Upload, Baseline, Snapshot, Purge

\* No step pins a set that is being purged.
LEMMA PinsStep ==
  ASSUME TypeOK, Pins, [Next]_vars
  PROVE  Pins'
<1> USE DEF TypeOK, Pins, rows, requests
<1>1. ASSUME NEW k \in Keys, SaveFile(k) PROVE Pins'
  BY <1>1 DEF SaveFile
<1>2. ASSUME NEW k \in Keys, CreateVersion(k) PROVE Pins'
  BY <1>2 DEF CreateVersion, Uploadable
<1>3. ASSUME NEW k \in Keys, VersionRefused(k) PROVE Pins'
  BY <1>3 DEF VersionRefused
<1>4. ASSUME NEW k \in Keys, RemoveRefused(k) PROVE Pins'
  BY <1>4 DEF RemoveRefused
<1>5. ASSUME NEW k \in Keys, UploadDies(k) PROVE Pins'
  BY <1>5 DEF UploadDies
<1>6. ASSUME NEW p \in Projects, SelectRead(p) PROVE Pins'
  BY <1>6 DEF SelectRead
<1>7. ASSUME NEW p \in Projects, SelectWrite(p) PROVE Pins'
  BY <1>7 DEF SelectWrite
<1>8. ASSUME NEW p \in Projects, Rebind(p) PROVE Pins'
  BY <1>8 DEF Rebind
<1>9. ASSUME NEW a \in Analyses, ReadBaseline(a) PROVE Pins'
  BY <1>9 DEF ReadBaseline
<1>10. ASSUME NEW a \in Analyses, CheckActive(a) PROVE Pins'
  BY <1>10 DEF CheckActive, Snapshotable
<1>11. ASSUME NEW a \in Analyses, InsertSnapshot(a) PROVE Pins'
  BY <1>11 DEF InsertSnapshot
<1>12. ASSUME NEW q \in Purges, BeginPurge(q) PROVE Pins'
  BY <1>12 DEF BeginPurge, Unpinned
<1>13. ASSUME NEW q \in Purges, CompletePurge(q) PROVE Pins'
  BY <1>13 DEF CompletePurge, Deletable, Ends
<1>14. ASSUME NEW q \in Purges, PurgeFails(q) PROVE Pins'
  BY <1>14 DEF PurgeFails, Ends
<1>15. ASSUME NEW q \in Purges, PurgeDies(q) PROVE Pins'
  BY <1>15 DEF PurgeDies
<1>16. ASSUME NEW q \in Purges, NEW k \in Keys, DeleteObject(q, k) PROVE Pins'
  BY <1>16 DEF DeleteObject
<1>17. ASSUME NEW s \in {"ACTIVE", "ARCHIVED"}, UpdateLifecycle(s) PROVE Pins'
  BY <1>17 DEF UpdateLifecycle, Changeable, KeepsAge
<1>18. ASSUME RetentionPasses PROVE Pins'
  BY <1>18 DEF RetentionPasses
<1>19. CASE UNCHANGED vars
  BY <1>19 DEF vars
<1> QED
  BY <1>1, <1>2, <1>3, <1>4, <1>5, <1>6, <1>7, <1>8, <1>9, <1>10, <1>11, <1>12, <1>13, <1>14, <1>15, <1>16, <1>17, <1>18, <1>19 DEF Next, Upload, Baseline, Snapshot, Purge

\* Uploads and purges keep rows and objects consistent.
LEMMA ObjectsStep ==
  ASSUME TypeOK, TypeOK', Pins, Objects, [Next]_vars
  PROVE  Objects'
<1> USE DEF TypeOK, Objects, FilesOutliveRows, PurgeLeavesNothing, rows, requests
<1>1. ASSUME NEW k \in Keys, SaveFile(k) PROVE Objects'
  BY <1>1 DEF SaveFile
<1>2. ASSUME NEW k \in Keys, CreateVersion(k) PROVE Objects'
  BY <1>2 DEF CreateVersion, Uploadable
<1>3. ASSUME NEW k \in Keys, VersionRefused(k) PROVE Objects'
  BY <1>3 DEF VersionRefused
<1>4. ASSUME NEW k \in Keys, RemoveRefused(k) PROVE Objects'
  BY <1>4 DEF RemoveRefused
<1>5. ASSUME NEW k \in Keys, UploadDies(k) PROVE Objects'
  BY <1>5 DEF UploadDies
<1>6. ASSUME NEW p \in Projects, SelectRead(p) PROVE Objects'
  BY <1>6 DEF SelectRead
<1>7. ASSUME NEW p \in Projects, SelectWrite(p) PROVE Objects'
  BY <1>7 DEF SelectWrite
<1>8. ASSUME NEW p \in Projects, Rebind(p) PROVE Objects'
  BY <1>8 DEF Rebind
<1>9. ASSUME NEW a \in Analyses, ReadBaseline(a) PROVE Objects'
  BY <1>9 DEF ReadBaseline
<1>10. ASSUME NEW a \in Analyses, CheckActive(a) PROVE Objects'
  BY <1>10 DEF CheckActive, Snapshotable
<1>11. ASSUME NEW a \in Analyses, InsertSnapshot(a) PROVE Objects'
  BY <1>11 DEF InsertSnapshot
<1>12. ASSUME NEW q \in Purges, BeginPurge(q) PROVE Objects'
  BY <1>12 DEF BeginPurge, Unpinned
<1>13. ASSUME NEW q \in Purges, CompletePurge(q) PROVE Objects'
  BY <1>13 DEF CompletePurge, Deletable, Ends
<1>14. ASSUME NEW q \in Purges, PurgeFails(q) PROVE Objects'
  BY <1>14 DEF PurgeFails, Ends
<1>15. ASSUME NEW q \in Purges, PurgeDies(q) PROVE Objects'
  BY <1>15 DEF PurgeDies
<1>16. ASSUME NEW q \in Purges, NEW k \in Keys, DeleteObject(q, k) PROVE Objects'
  BY <1>16 DEF DeleteObject
<1>17. ASSUME NEW s \in {"ACTIVE", "ARCHIVED"}, UpdateLifecycle(s) PROVE Objects'
  BY <1>17 DEF UpdateLifecycle, Changeable, KeepsAge
<1>18. ASSUME RetentionPasses PROVE Objects'
  BY <1>18 DEF RetentionPasses
<1>19. CASE UNCHANGED vars
  BY <1>19 DEF vars
<1> QED
  BY <1>1, <1>2, <1>3, <1>4, <1>5, <1>6, <1>7, <1>8, <1>9, <1>10, <1>11, <1>12, <1>13, <1>14, <1>15, <1>16, <1>17, <1>18, <1>19 DEF Next, Upload, Baseline, Snapshot, Purge

\* The audit follows the set.
LEMMA RecordsStep ==
  ASSUME TypeOK, TypeOK', Objects, Records, [Next]_vars
  PROVE  Records'
<1> USE DEF TypeOK, Records, AuditTellsThePurge, rows, requests
<1>1. ASSUME NEW k \in Keys, SaveFile(k) PROVE Records'
  BY <1>1 DEF SaveFile
<1>2. ASSUME NEW k \in Keys, CreateVersion(k) PROVE Records'
  BY <1>2 DEF CreateVersion, Uploadable
<1>3. ASSUME NEW k \in Keys, VersionRefused(k) PROVE Records'
  BY <1>3 DEF VersionRefused
<1>4. ASSUME NEW k \in Keys, RemoveRefused(k) PROVE Records'
  BY <1>4 DEF RemoveRefused
<1>5. ASSUME NEW k \in Keys, UploadDies(k) PROVE Records'
  BY <1>5 DEF UploadDies
<1>6. ASSUME NEW p \in Projects, SelectRead(p) PROVE Records'
  BY <1>6 DEF SelectRead
<1>7. ASSUME NEW p \in Projects, SelectWrite(p) PROVE Records'
  BY <1>7 DEF SelectWrite
<1>8. ASSUME NEW p \in Projects, Rebind(p) PROVE Records'
  BY <1>8 DEF Rebind
<1>9. ASSUME NEW a \in Analyses, ReadBaseline(a) PROVE Records'
  BY <1>9 DEF ReadBaseline
<1>10. ASSUME NEW a \in Analyses, CheckActive(a) PROVE Records'
  BY <1>10 DEF CheckActive, Snapshotable
<1>11. ASSUME NEW a \in Analyses, InsertSnapshot(a) PROVE Records'
  BY <1>11 DEF InsertSnapshot
<1>12. ASSUME NEW q \in Purges, BeginPurge(q) PROVE Records'
  BY <1>12 DEF BeginPurge, Unpinned
<1>13. ASSUME NEW q \in Purges, CompletePurge(q) PROVE Records'
  BY <1>13 DEF CompletePurge, Deletable, Ends
<1>14. ASSUME NEW q \in Purges, PurgeFails(q) PROVE Records'
  BY <1>14 DEF PurgeFails, Ends
<1>15. ASSUME NEW q \in Purges, PurgeDies(q) PROVE Records'
  BY <1>15 DEF PurgeDies
<1>16. ASSUME NEW q \in Purges, NEW k \in Keys, DeleteObject(q, k) PROVE Records'
  BY <1>16 DEF DeleteObject
<1>17. ASSUME NEW s \in {"ACTIVE", "ARCHIVED"}, UpdateLifecycle(s) PROVE Records'
  BY <1>17 DEF UpdateLifecycle, Changeable, KeepsAge
<1>18. ASSUME RetentionPasses PROVE Records'
  BY <1>18 DEF RetentionPasses
<1>19. CASE UNCHANGED vars
  BY <1>19 DEF vars
<1> QED
  BY <1>1, <1>2, <1>3, <1>4, <1>5, <1>6, <1>7, <1>8, <1>9, <1>10, <1>11, <1>12, <1>13, <1>14, <1>15, <1>16, <1>17, <1>18, <1>19 DEF Next, Upload, Baseline, Snapshot, Purge

-----------------------------------------------------------------------------
IInv == TypeOK /\ Pins /\ Objects /\ Records

\* The initial state satisfies the inductive invariant.
LEMMA Initially == Init => IInv
<1> SUFFICES ASSUME Init PROVE IInv  OBVIOUS
<1>1. TypeOK  BY DEF Init, TypeOK
<1>2. Pins  BY DEF Init, Pins
<1>3. Objects  BY DEF Init, Objects, FilesOutliveRows, PurgeLeavesNothing
<1>4. Records  BY DEF Init, Records, AuditTellsThePurge
<1> QED  BY <1>1, <1>2, <1>3, <1>4 DEF IInv

\* Every reachable state satisfies it.
LEMMA Inductive == Spec => []IInv
<1>1. ASSUME IInv, [Next]_vars PROVE IInv'
  <2>1. TypeOK'  BY <1>1, TypeStep DEF IInv
  <2>2. Pins'  BY <1>1, PinsStep DEF IInv
  <2>3. Objects'  BY <1>1, <2>1, ObjectsStep DEF IInv
  <2>4. Records'  BY <1>1, <2>1, RecordsStep DEF IInv
  <2> QED  BY <2>1, <2>2, <2>3, <2>4 DEF IInv
<1> QED  BY <1>1, Initially, PTL DEF Spec

\* Rows and requests keep to their types, and an active set has no archived_at.
THEOREM TypeCorrect == Spec => []TypeOK
<1>1. IInv => TypeOK  BY DEF IInv
<1> QED  BY <1>1, Inductive, PTL

\* A set that is active or archived has the object of each of its versions,
\* however uploads, failed purges and lifecycle commands interleave.
THEOREM Files == Spec => []FilesOutliveRows
<1>1. IInv => FilesOutliveRows  BY DEF IInv, Objects
<1> QED  BY <1>1, Inductive, PTL

\* A purged set leaves none of its objects on disk.
THEOREM Clean == Spec => []PurgeLeavesNothing
<1>1. IInv => PurgeLeavesNothing  BY DEF IInv, Objects
<1> QED  BY <1>1, Inductive, PTL

\* Nothing pins a set whose purge has begun, so a later attempt can finish it.
THEOREM Finishable == Spec => []PurgeCanFinish
<1>1. IInv => PurgeCanFinish  BY DEF IInv, Pins, PurgeCanFinish
<1> QED  BY <1>1, Inductive, PTL

\* Exactly one purge request is recorded as completed when the set is gone, and
\* none before.
THEOREM Audit == Spec => []AuditTellsThePurge
<1>1. IInv => AuditTellsThePurge  BY DEF IInv, Records
<1> QED  BY <1>1, Inductive, PTL

-----------------------------------------------------------------------------
(* The ledger of AI calls. *)

\* Where a caller is determines what its row can be: a row exists from the
\* insert on, stays RESERVED while requests are out, and is RELEASED only before
\* the first one leaves.
ReportsNoMore(u, c) ==
    /\ \A d \in Kind : u[d] <= billed[c][d]
    /\ asked[c] = 1 => u \in {billed[c], Nothing}
RowFollowsCaller ==
    /\ state \in [Calls -> {"NONE", "RESERVED", "COMPLETED", "RELEASED"}]
    /\ pc \in [Calls -> {"new", "locked", "checked", "reserved", "sent",
                         "answered", "failed", "over"}]
    /\ asked \in [Calls -> Nat] /\ billed \in [Calls -> Amount]
    /\ used \in [Calls -> Amount] /\ usage \in [Calls -> Amount]
    /\ \A c \in Calls :
          /\ pc[c] \in {"new", "locked", "checked"} => state[c] = "NONE"
          /\ pc[c] \in {"reserved", "sent", "answered", "failed"} => state[c] = "RESERVED"
          /\ pc[c] \in {"new", "locked", "checked", "reserved"} => asked[c] = 0
          /\ state[c] \in {"NONE", "RELEASED"} => asked[c] = 0
          /\ asked[c] = 0 => billed[c] = Nothing
          /\ ReportsNoMore(usage[c], c)
          /\ state[c] = "COMPLETED" => ReportsNoMore(used[c], c)

\* The initial state has no rows and no charges.
LEMMA BudgetStarts == BudgetInit => RowFollowsCaller
BY DEF BudgetInit, RowFollowsCaller, ReportsNoMore, Amount, Nothing

\* Every step of a caller, of time and of an operator keeps it.
LEMMA BudgetStep ==
  ASSUME RowFollowsCaller, [BudgetNext]_budgetVars
  PROVE  RowFollowsCaller'
<1> USE DEF RowFollowsCaller, ReportsNoMore, Goto, sent
<1>1. ASSUME NEW c \in Calls, LockSet(c) PROVE RowFollowsCaller'
  BY <1>1 DEF LockSet, ledger
<1>2. ASSUME NEW c \in Calls, ReadSums(c) PROVE RowFollowsCaller'
  BY <1>2 DEF ReadSums, ledger
<1>3. ASSUME NEW c \in Calls, Refuse(c) PROVE RowFollowsCaller'
  BY <1>3 DEF Refuse, ledger
<1>4. ASSUME NEW c \in Calls, NEW e \in Estimates, Insert(c, e) PROVE RowFollowsCaller'
  BY <1>4 DEF Insert
<1>5. ASSUME NEW c \in Calls, ReleaseLocal(c) PROVE RowFollowsCaller'
  BY <1>5 DEF ReleaseLocal
<1>6. ASSUME NEW c \in Calls, NEW b \in Bills, Dispatch(c, b) PROVE RowFollowsCaller'
  <2> DEFINE total == [d \in Kind |-> billed[c][d] + b[d]]
  <2>1. b \in Amount  BY AmountsAssumption DEF Amount
  <2>2. billed[c] \in Amount /\ asked[c] \in Nat /\ (asked[c] = 0 => billed[c] = Nothing)  OBVIOUS
  <2>3. total \in Amount /\ \A d \in Kind : b[d] <= total[d]  BY <2>1, <2>2 DEF Amount
  <2>4. asked[c] = 0 => total = b  BY <2>1, <2>2 DEF Amount, Nothing
  <2>5. /\ asked' = [asked EXCEPT ![c] = asked[c] + 1] /\ billed' = [billed EXCEPT ![c] = total]
        /\ usage' = [usage EXCEPT ![c] = b] /\ pc' = [pc EXCEPT ![c] = "sent"]
        /\ pc[c] \in {"reserved", "sent"} /\ UNCHANGED <<state, used>>
    BY <1>6 DEF Dispatch, ledger
  <2> HIDE DEF total
  <2>6. asked' \in [Calls -> Nat] /\ billed' \in [Calls -> Amount] /\ usage' \in [Calls -> Amount]
    BY <2>1, <2>2, <2>3, <2>5
  <2>7. /\ asked'[c] = asked[c] + 1 /\ asked'[c] # 0 /\ (asked'[c] = 1 => asked[c] = 0)
        /\ billed'[c] = total /\ usage'[c] = b /\ state'[c] = "RESERVED" /\ pc'[c] = "sent"
    BY <2>2, <2>5
  <2>8. \A q \in Calls \ {c} : /\ asked'[q] = asked[q] /\ billed'[q] = billed[q] /\ usage'[q] = usage[q]
                               /\ state'[q] = state[q] /\ used'[q] = used[q] /\ pc'[q] = pc[q]
    BY <2>5
  <2> QED  BY <2>3, <2>4, <2>5, <2>6, <2>7, <2>8
<1>7. ASSUME NEW c \in Calls, Answer(c) PROVE RowFollowsCaller'
  <2>1. PICK u \in {usage[c], Nothing} : usage' = [usage EXCEPT ![c] = u]
    <3>1. usage' = usage => usage' = [usage EXCEPT ![c] = usage[c]]  OBVIOUS
    <3> QED  BY <1>7, <3>1 DEF Answer
  <2>2. u \in Amount /\ ReportsNoMore(u, c)  BY DEF Amount, Nothing
  <2> QED  BY <1>7, <2>1, <2>2 DEF Answer, ledger
<1>8. ASSUME NEW c \in Calls, Finalize(c) PROVE RowFollowsCaller'
  BY <1>8 DEF Finalize
<1>9. ASSUME NEW c \in Calls, Uncertain(c) PROVE RowFollowsCaller'
  BY <1>9 DEF Uncertain, Kept
<1>10. ASSUME NEW c \in Calls, Dies(c) PROVE RowFollowsCaller'
  BY <1>10 DEF Dies, ledger
<1>11. ASSUME NEW c \in Calls, Expires(c) PROVE RowFollowsCaller'
  BY <1>11 DEF Expires
<1>12. ASSUME NEW s \in {"ACTIVE", "ARCHIVED"}, NEW l \in Limits, UpdateBudget(s, l)
       PROVE  RowFollowsCaller'
  BY <1>12 DEF UpdateBudget, ledger
<1>13. CASE UNCHANGED budgetVars
  BY <1>13 DEF budgetVars, ledger
<1> QED
  BY <1>1, <1>2, <1>3, <1>4, <1>5, <1>6, <1>7, <1>8, <1>9, <1>10, <1>11, <1>12, <1>13
  DEF BudgetNext, Call

\* The hold of a charged call stands until the usage of a response is settled,
\* never for more than was charged, through timeouts, further requests, crashes
\* and expiry; a call of one request whose response tells it is settled in full.
THEOREM Charged == BudgetSpec => []ChargesAreHeld
<1>1. BudgetSpec => []RowFollowsCaller  BY BudgetStarts, BudgetStep, PTL DEF BudgetSpec
<1>2. RowFollowsCaller => ChargesAreHeld
  BY DEF RowFollowsCaller, ReportsNoMore, ChargesAreHeld
<1> QED  BY <1>1, <1>2, PTL

-----------------------------------------------------------------------------
(* Sums.  A sum over a finite set is a recursive function on its subsets;    *)
(* that the function exists is proved by the size of the subsets, and sums   *)
(* are compared by a least subset on which the comparison would fail.        *)

First(s) == CHOOSE x \in s : TRUE

\* g[s] adds up the amounts f of the members of s, for the sets s given.
Adds(g, f, sets) == g = [s \in sets |-> IF s = {} THEN 0 ELSE f[First(s)] + g[s \ {First(s)}]]

\* The subsets with at most n members.
Small(S, n) == {s \in SUBSET S : Cardinality(s) <= n}

\* A set of numbers has a smallest one.
LEMMA Smallest ==
  ASSUME NEW T, T \subseteq Nat, T # {}
  PROVE  \E n \in T : \A m \in T : ~(m < n)
<1>1. PICK n \in T : \A m \in T : <<m, n>> \notin OpToRel(<, Nat)
  BY Zenon, WFMin, NatLessThanWellFounded
<1>2. \A m \in T : ~(m < n)
  BY <1>1 DEF OpToRel
<1> QED  BY <1>2

\* A nonempty set of subsets of a finite set has one of which it holds no strict subset.
LEMMA SmallestSubset ==
  ASSUME NEW S, IsFiniteSet(S), NEW T, T \subseteq SUBSET S, T # {}
  PROVE  \E s \in T : \A t \in T : ~(t \subseteq s /\ t # s)
<1>1. FiniteSubsetsOf(S) = SUBSET S  BY FS_FiniteSubsetsOfFinite
<1>2. IsWellFoundedOn(StrictSubsetOrdering(S), SUBSET S)
  BY <1>1, FS_StrictSubsetOrderingWellFounded
<1>3. PICK s \in T : \A t \in T : <<t, s>> \notin StrictSubsetOrdering(S)
  BY <1>2, WFMin
<1> QED  BY <1>3 DEF StrictSubsetOrdering

\* What First takes out of a set leaves a set with one member less.
LEMMA TakenOut ==
  ASSUME NEW S, IsFiniteSet(S), NEW s \in SUBSET S, s # {}
  PROVE  /\ First(s) \in s /\ First(s) \in S
         /\ s \ {First(s)} \in SUBSET S
         /\ Cardinality(s) \in Nat
         /\ Cardinality(s \ {First(s)}) = Cardinality(s) - 1
<1>1. First(s) \in s  BY DEF First
<1>2. IsFiniteSet(s) /\ Cardinality(s) \in Nat  BY FS_Subset, FS_CardinalityType
<1>3. Cardinality(s \ {First(s)}) = Cardinality(s) - 1  BY <1>1, <1>2, FS_RemoveElement
<1> QED  BY <1>1, <1>2, <1>3

\* The recursion has a solution.
LEMMA SumExists ==
  ASSUME NEW S, IsFiniteSet(S), NEW f \in [S -> Nat]
  PROVE  \E g \in [SUBSET S -> Nat] : Adds(g, f, SUBSET S)
<1> DEFINE Bad == {n \in Nat : ~ \E g \in [Small(S, n) -> Nat] : Adds(g, f, Small(S, n))}
<1>0. \A s \in SUBSET S : IsFiniteSet(s) /\ Cardinality(s) \in Nat /\ Cardinality(s) <= Cardinality(S)
  BY FS_Subset, FS_CardinalityType
<1>1. SUFFICES ASSUME Bad # {} PROVE FALSE
  <2>1. PICK n \in Nat : n = Cardinality(S)  BY FS_CardinalityType
  <2>2. Small(S, n) = SUBSET S  BY <1>0, <2>1 DEF Small
  <2>3. n \notin Bad => \E g \in [Small(S, n) -> Nat] : Adds(g, f, Small(S, n))  BY <2>1
  <2> HIDE DEF Bad
  <2> QED  BY <2>2, <2>3
<1>2. PICK n \in Bad : \A m \in Bad : ~(m < n)
  <2>1. Bad \subseteq Nat  OBVIOUS
  <2> HIDE DEF Bad
  <2> QED  BY <1>1, <2>1, Smallest
<1>3. CASE n = 0
  <2> DEFINE g == [s \in Small(S, 0) |-> 0]
  <2>1. \A s \in Small(S, 0) : s = {}
    BY <1>0, FS_EmptySet DEF Small
  <2>2. g \in [Small(S, 0) -> Nat]  OBVIOUS
  <2>3. Adds(g, f, Small(S, 0))  BY <2>1 DEF Adds
  <2> QED  BY <1>2, <1>3, <2>2, <2>3
<1>4. CASE n # 0
  <2>1. n - 1 \in Nat /\ n - 1 \notin Bad  BY <1>2, <1>4
  <2>2. PICK g \in [Small(S, n - 1) -> Nat] : Adds(g, f, Small(S, n - 1))  BY <2>1
  <2> DEFINE h == [s \in Small(S, n) |-> IF s = {} THEN 0 ELSE f[First(s)] + g[s \ {First(s)}]]
  <2>3. \A s \in Small(S, n) : s # {} =>
            First(s) \in S /\ s \ {First(s)} \in Small(S, n - 1) /\ f[First(s)] \in Nat
    <3> SUFFICES ASSUME NEW s \in Small(S, n), s # {}
                 PROVE  First(s) \in S /\ s \ {First(s)} \in Small(S, n - 1) /\ f[First(s)] \in Nat
      OBVIOUS
    <3>1. s \in SUBSET S /\ Cardinality(s) <= n  BY DEF Small
    <3>2. /\ First(s) \in S /\ s \ {First(s)} \in SUBSET S
          /\ Cardinality(s) \in Nat /\ Cardinality(s \ {First(s)}) = Cardinality(s) - 1
      BY <3>1, TakenOut
    <3>3. Cardinality(s \ {First(s)}) <= n - 1  BY <2>1, <3>1, <3>2
    <3> QED  BY <3>2, <3>3 DEF Small
  <2>4. \A s \in Small(S, n - 1) : s \in Small(S, n)
    BY <1>0, <2>1 DEF Small
  <2>5. \A s \in Small(S, n - 1) : g[s] = h[s]
    <3>1. \A s \in Small(S, n - 1) : g[s] = IF s = {} THEN 0 ELSE f[First(s)] + g[s \ {First(s)}]
      BY <2>2 DEF Adds
    <3> QED  BY <3>1, <2>4
  <2>6. h \in [Small(S, n) -> Nat]
    <3>1. \A s \in Small(S, n) : s # {} => f[First(s)] + g[s \ {First(s)}] \in Nat
      BY <2>3
    <3> QED  BY <3>1
  <2>7. Adds(h, f, Small(S, n))
    <3>1. \A s \in Small(S, n) : h[s] = IF s = {} THEN 0 ELSE f[First(s)] + h[s \ {First(s)}]
      BY <2>3, <2>5
    <3> HIDE DEF h
    <3>2. h = [s \in Small(S, n) |-> h[s]]  BY <2>6
    <3> QED  BY <3>1, <3>2 DEF Adds
  <2> QED  BY <1>2, <2>6, <2>7
<1> QED  BY <1>3, <1>4

\* What a solution says of each subset.
LEMMA SumStep ==
  ASSUME NEW S, NEW f, NEW g, Adds(g, f, SUBSET S), NEW s \in SUBSET S
  PROVE  g[s] = IF s = {} THEN 0 ELSE f[First(s)] + g[s \ {First(s)}]
BY DEF Adds

\* Every solution has natural numbers as its sums.
LEMMA SumTyped ==
  ASSUME NEW S, IsFiniteSet(S), NEW f \in [S -> Nat], NEW g, Adds(g, f, SUBSET S)
  PROVE  g \in [SUBSET S -> Nat]
<1> DEFINE Bad == {s \in SUBSET S : g[s] \notin Nat}
<1>1. SUFFICES ASSUME Bad # {} PROVE FALSE
  <2>1. \A s \in SUBSET S : g[s] \in Nat  OBVIOUS
  <2>2. g = [s \in SUBSET S |-> g[s]]  BY DEF Adds
  <2> QED  BY <2>1, <2>2
<1>2. PICK s \in Bad : \A t \in Bad : ~(t \subseteq s /\ t # s)
  <2>1. Bad \subseteq SUBSET S  OBVIOUS
  <2> HIDE DEF Bad
  <2> QED  BY <1>1, <2>1, SmallestSubset
<1>3. s \in SUBSET S /\ g[s] \notin Nat  BY <1>2
<1>4. g[s] = IF s = {} THEN 0 ELSE f[First(s)] + g[s \ {First(s)}]  BY <1>3, SumStep
<1>5. s # {}  BY <1>3, <1>4
<1>6. First(s) \in s /\ First(s) \in S /\ s \ {First(s)} \in SUBSET S  BY <1>3, <1>5, TakenOut
<1>7. g[s \ {First(s)}] \in Nat  BY <1>2, <1>6
<1>8. f[First(s)] \in Nat  BY <1>6
<1> QED  BY <1>3, <1>4, <1>5, <1>7, <1>8

\* Amounts that are not larger, but for those of one member, have a sum that is
\* larger by the difference of that member at most.
LEMMA SumsCompare ==
  ASSUME NEW S, IsFiniteSet(S), NEW a \in [S -> Nat], NEW b \in [S -> Nat], NEW c, NEW e \in Nat,
         \A r \in S : a[r] <= IF r = c THEN b[r] + e ELSE b[r],
         NEW g \in [SUBSET S -> Nat], NEW h \in [SUBSET S -> Nat],
         Adds(g, a, SUBSET S), Adds(h, b, SUBSET S)
  PROVE  g[S] <= h[S] + e
<1> DEFINE more(s) == IF c \in s THEN e ELSE 0
           Bad == {s \in SUBSET S : ~(g[s] <= h[s] + more(s))}
<1>1. SUFFICES ASSUME Bad # {} PROVE FALSE
  <2>1. S \in SUBSET S  OBVIOUS
  <2>2. g[S] <= h[S] + more(S)  BY <2>1
  <2>3. g[S] \in Nat /\ h[S] \in Nat  BY <2>1
  <2> QED  BY <2>2, <2>3
<1>2. PICK s \in Bad : \A t \in Bad : ~(t \subseteq s /\ t # s)
  <2>1. Bad \subseteq SUBSET S  OBVIOUS
  <2> HIDE DEF Bad
  <2> QED  BY <1>1, <2>1, SmallestSubset
<1>3. s \in SUBSET S /\ ~(g[s] <= h[s] + more(s))  BY <1>2
<1>4. s # {}
  <2>1. {} \in SUBSET S  OBVIOUS
  <2>2. g[{}] = 0 /\ h[{}] = 0  BY <2>1, SumStep
  <2> SUFFICES ASSUME s = {} PROVE FALSE  OBVIOUS
  <2>3. ~(0 <= 0 + more({}))  BY <1>3, <2>2
  <2>4. more({}) = 0  OBVIOUS
  <2> QED  BY <2>3, <2>4
<1>5. PICK x, t : x = First(s) /\ t = s \ {First(s)}  OBVIOUS
<1>6. x \in s /\ x \in S /\ t \in SUBSET S /\ t \subseteq s /\ t # s
  BY <1>3, <1>4, <1>5, TakenOut
<1>7. g[s] = a[x] + g[t] /\ h[s] = b[x] + h[t]
  BY <1>3, <1>4, <1>5, SumStep
<1>8. g[t] <= h[t] + more(t)  BY <1>2, <1>6
<1>9. x = c => c \notin t  BY <1>5
<1>10. x # c => (c \in t <=> c \in s)  BY <1>5
<1>11. g[t] \in Nat /\ h[t] \in Nat /\ a[x] \in Nat /\ b[x] \in Nat  BY <1>6
<1>12. a[x] <= IF x = c THEN b[x] + e ELSE b[x]  BY <1>6
<1>13. CASE x = c
  BY <1>3, <1>6, <1>7, <1>8, <1>9, <1>11, <1>12, <1>13
<1>14. CASE x # c
  BY <1>3, <1>7, <1>8, <1>10, <1>11, <1>12, <1>14
<1> QED  BY <1>13, <1>14

-----------------------------------------------------------------------------
(* The sums of Reserve. *)

\* Total adds the amounts of all calls up.
LEMMA TotalAdds ==
  ASSUME NEW amount \in [Calls -> Amount], NEW d \in Kind
  PROVE  \E g \in [SUBSET Calls -> Nat] :
            Adds(g, [r \in Calls |-> amount[r][d]], SUBSET Calls) /\ Total(amount)[d] = g[Calls]
<1> DEFINE f == [r \in Calls |-> amount[r][d]]
           P(g) == g = [s \in SUBSET Calls |-> IF s = {} THEN 0 ELSE amount[First(s)][d] + g[s \ {First(s)}]]
           iter == CHOOSE g : P(g)
<1>1. f \in [Calls -> Nat]  BY DEF Amount
<1>2. IsFiniteSet(Calls)  BY AmountsAssumption
<1>3. \A g : Adds(g, f, SUBSET Calls) <=> P(g)
  <2> SUFFICES ASSUME NEW g PROVE Adds(g, f, SUBSET Calls) <=> P(g)  OBVIOUS
  <2>1. \A s \in SUBSET Calls : s # {} => f[First(s)] = amount[First(s)][d]
    BY <1>2, TakenOut
  <2> HIDE DEF f
  <2>2. [s \in SUBSET Calls |-> IF s = {} THEN 0 ELSE f[First(s)] + g[s \ {First(s)}]]
        = [s \in SUBSET Calls |-> IF s = {} THEN 0 ELSE amount[First(s)][d] + g[s \ {First(s)}]]
    BY <2>1
  <2> QED  BY <2>2 DEF Adds
<1>4. \E g : P(g)
  <2>1. PICK g \in [SUBSET Calls -> Nat] : Adds(g, f, SUBSET Calls)
    <3> HIDE DEF f
    <3> QED  BY <1>1, <1>2, SumExists
  <2> QED  BY <1>3, <2>1
<1>5. P(iter)  BY <1>4
<1>6. MapThenSumSet(LAMBDA r : amount[r][d], Calls) = iter[Calls]
  BY DEF MapThenSumSet, MapThenFoldSet, First
<1>7. Total(amount)[d] = iter[Calls]  BY <1>6 DEF Total
<1>8. Adds(iter, f, SUBSET Calls)  BY <1>3, <1>5
<1>9. iter \in [SUBSET Calls -> Nat]
  <2> HIDE DEF f, iter
  <2> QED  BY <1>1, <1>2, <1>8, SumTyped
<1> HIDE DEF iter
<1> QED  BY <1>7, <1>8, <1>9

\* Totals are amounts.
LEMMA TotalTyped ==
  ASSUME NEW amount \in [Calls -> Amount]
  PROVE  Total(amount) \in Amount
<1>1. \A d \in Kind : Total(amount)[d] \in Nat
  <2> SUFFICES ASSUME NEW d \in Kind PROVE Total(amount)[d] \in Nat  OBVIOUS
  <2>1. PICK g \in [SUBSET Calls -> Nat] :
            Adds(g, [r \in Calls |-> amount[r][d]], SUBSET Calls) /\ Total(amount)[d] = g[Calls]
    BY TotalAdds
  <2>2. Calls \in SUBSET Calls  OBVIOUS
  <2> QED  BY <2>1, <2>2
<1>2. Total(amount) = [d \in Kind |-> Total(amount)[d]]  BY DEF Total
<1> QED  BY <1>1, <1>2 DEF Amount

\* When one call adds e at most and no other call adds anything, neither does
\* the total.
LEMMA TotalsCompare ==
  ASSUME NEW more \in [Calls -> Amount], NEW less \in [Calls -> Amount], NEW c, NEW e \in Nat,
         NEW d \in Kind,
         \A r \in Calls : more[r][d] <= IF r = c THEN less[r][d] + e ELSE less[r][d]
  PROVE  Total(more)[d] <= Total(less)[d] + e
<1> DEFINE a == [r \in Calls |-> more[r][d]]
           b == [r \in Calls |-> less[r][d]]
<1>1. IsFiniteSet(Calls)  BY AmountsAssumption
<1>2. a \in [Calls -> Nat] /\ b \in [Calls -> Nat]  BY DEF Amount
<1>3. \A r \in Calls : a[r] <= IF r = c THEN b[r] + e ELSE b[r]  OBVIOUS
<1>4. PICK g \in [SUBSET Calls -> Nat] : Adds(g, a, SUBSET Calls) /\ Total(more)[d] = g[Calls]
  BY TotalAdds
<1>5. PICK h \in [SUBSET Calls -> Nat] : Adds(h, b, SUBSET Calls) /\ Total(less)[d] = h[Calls]
  BY TotalAdds
<1> HIDE DEF a, b
<1>6. g[Calls] <= h[Calls] + e  BY <1>1, <1>2, <1>3, <1>4, <1>5, SumsCompare
<1> QED  BY <1>4, <1>5, <1>6

-----------------------------------------------------------------------------
(* Grants. *)

Counts == [r \in Calls |-> Counted(r)]
Exposures == [r \in Calls |-> Exposure(r)]

\* A Reserve that has read its sums holds the lock, and what was granted to the
\* others did not grow since: the budget that it checks is not spent meanwhile.
SumsHold == \A c \in Calls : pc[c] = "checked" => \A d \in Kind : Total(Exposures)[d] <= sum[c][d]

BudgetInv == BudgetTypeOK /\ RowFollowsCaller /\ SumsHold

\* The smaller of two amounts.
LEMMA Smaller ==
  ASSUME NEW m \in Nat, NEW n \in Nat
  PROVE  Min({m, n}) \in Nat /\ Min({m, n}) <= m /\ Min({m, n}) <= n
<1>1. \E x \in {m, n} : \A y \in {m, n} : x <= y
  <2>1. CASE m <= n  BY <2>1
  <2>2. CASE ~(m <= n)  BY <2>2
  <2> QED  BY <2>1, <2>2
<1>2. Min({m, n}) \in {m, n} /\ \A y \in {m, n} : Min({m, n}) <= y
  BY <1>1, Zenon DEF Min
<1> QED  BY <1>2

\* What a row counts and what it exposes are amounts, and it counts no less.
LEMMA CountsExposures ==
  BudgetTypeOK => /\ Counts \in [Calls -> Amount] /\ Exposures \in [Calls -> Amount]
                  /\ \A r \in Calls, d \in Kind : Exposures[r][d] <= Counts[r][d]
<1> SUFFICES ASSUME BudgetTypeOK
             PROVE  /\ Counts \in [Calls -> Amount] /\ Exposures \in [Calls -> Amount]
                    /\ \A r \in Calls, d \in Kind : Exposures[r][d] <= Counts[r][d]
  OBVIOUS
<1>1. ASSUME NEW r \in Calls
      PROVE  Counted(r) \in Amount /\ Exposure(r) \in Amount
             /\ \A d \in Kind : Exposure(r)[d] <= Counted(r)[d]
  <2>1. reserved[r] \in Amount /\ used[r] \in Amount /\ Nothing \in Amount
    BY DEF BudgetTypeOK, Amount, Nothing
  <2>2. CASE state[r] = "RESERVED"
    <3>1. Counted(r) = reserved[r] /\ Exposure(r) = reserved[r]  BY <2>2 DEF Counted, Exposure
    <3> QED  BY <2>1, <3>1 DEF Amount
  <2>3. CASE state[r] = "COMPLETED"
    <3>1. Counted(r) = used[r] /\ Exposure(r) = [d \in Kind |-> Min({used[r][d], reserved[r][d]})]
      BY <2>3 DEF Counted, Exposure
    <3>2. \A d \in Kind : used[r][d] \in Nat /\ reserved[r][d] \in Nat  BY <2>1 DEF Amount
    <3>3. \A d \in Kind : /\ Min({used[r][d], reserved[r][d]}) \in Nat
                          /\ Min({used[r][d], reserved[r][d]}) <= used[r][d]
      BY <3>2, Smaller
    <3> QED  BY <2>1, <3>1, <3>3 DEF Amount
  <2>4. CASE state[r] \notin {"RESERVED", "COMPLETED"}
    <3>1. Counted(r) = Nothing /\ Exposure(r) = Nothing  BY <2>4 DEF Counted, Exposure
    <3> QED  BY <2>1, <3>1 DEF Amount
  <2> QED  BY <2>2, <2>3, <2>4
<1> QED  BY <1>1 DEF Counts, Exposures

\* The same after a step.
ExposuresTyped == Exposures \in [Calls -> Amount]
LEMMA ExposuresNext == BudgetTypeOK' => Exposures' \in [Calls -> Amount]
<1>1. BudgetTypeOK => ExposuresTyped  BY CountsExposures DEF ExposuresTyped
<1>2. BudgetTypeOK' => ExposuresTyped'  BY <1>1, PTL
<1> QED  BY <1>2 DEF ExposuresTyped

\* No exposure grows.
Falls == \A r \in Calls, d \in Kind : Exposures'[r][d] <= Exposures[r][d]

\* Rows that stay as they are, and their sums.
LEMMA SameExposures ==
  ASSUME BudgetTypeOK, UNCHANGED <<state, reserved, used>>
  PROVE  Exposures' = Exposures /\ Falls
<1>1. Exposures' = Exposures  BY DEF Exposures, Exposure
<1>2. \A r \in Calls, d \in Kind : Exposures[r][d] \in Nat
  <2>1. Exposures \in [Calls -> Amount]  BY CountsExposures
  <2> QED  BY <2>1 DEF Amount
<1> QED  BY <1>1, <1>2 DEF Falls

\* A hold that is settled or released exposes no more than it held.
LEMMA HoldSettled ==
  ASSUME BudgetTypeOK, BudgetTypeOK', NEW c \in Calls, state[c] = "RESERVED",
         state' \in {[state EXCEPT ![c] = "COMPLETED"], [state EXCEPT ![c] = "RELEASED"]},
         UNCHANGED reserved,
         \A r \in Calls : r # c => used'[r] = used[r]
  PROVE  Falls
<1>1. Exposures \in [Calls -> Amount] /\ Exposures' \in [Calls -> Amount]
  BY CountsExposures, ExposuresNext
<1>2. ASSUME NEW r \in Calls, r # c, NEW d \in Kind PROVE Exposures'[r][d] <= Exposures[r][d]
  <2>1. state'[r] = state[r] /\ reserved'[r] = reserved[r] /\ used'[r] = used[r]
    BY <1>2 DEF BudgetTypeOK
  <2>2. Exposure(r)' = Exposure(r)  BY <2>1 DEF Exposure
  <2>3. Exposures'[r][d] = Exposures[r][d]  BY <2>2 DEF Exposures
  <2>4. Exposures[r][d] \in Nat  BY <1>1 DEF Amount
  <2> QED  BY <2>3, <2>4
<1>3. ASSUME NEW d \in Kind PROVE Exposures'[c][d] <= Exposures[c][d]
  <2>1. Exposures[c] = reserved[c]  BY DEF Exposures, Exposure
  <2>2. reserved[c][d] \in Nat /\ used'[c][d] \in Nat /\ reserved'[c][d] = reserved[c][d]
    BY DEF BudgetTypeOK, Amount
  <2>3. CASE state'[c] = "COMPLETED"
    <3>1. Exposures'[c][d] = Min({used'[c][d], reserved'[c][d]})
      BY <2>3 DEF Exposures, Exposure
    <3> QED  BY <2>1, <2>2, <3>1, Smaller
  <2>4. CASE state'[c] = "RELEASED"
    <3>1. Exposures'[c][d] = 0  BY <2>4 DEF Exposures, Exposure, Nothing
    <3> QED  BY <2>1, <2>2, <3>1
  <2>5. state'[c] \in {"COMPLETED", "RELEASED"}  BY DEF BudgetTypeOK
  <2> QED  BY <2>3, <2>4, <2>5
<1> QED  BY <1>2, <1>3 DEF Falls

\* Sums that hold go on to hold while no exposure grows.
LEMMA SumsStand ==
  ASSUME BudgetTypeOK, BudgetTypeOK', SumsHold, Falls,
         \A c \in Calls : pc'[c] = "checked" => pc[c] = "checked" /\ sum'[c] = sum[c]
  PROVE  SumsHold'
<1>1. Exposures \in [Calls -> Amount] /\ Exposures' \in [Calls -> Amount]
  BY CountsExposures, ExposuresNext
<1>2. PICK old \in [Calls -> Amount] : old = Exposures  BY <1>1
<1>3. PICK new \in [Calls -> Amount] : new = Exposures'  BY <1>1
<1>4. ASSUME NEW d \in Kind PROVE Total(new)[d] <= Total(old)[d]
  <2>1. \A r \in Calls : new[r][d] \in Nat /\ old[r][d] \in Nat  BY DEF Amount
  <2>2. \A r \in Calls : new[r][d] <= IF r = NoCall THEN old[r][d] + 0 ELSE old[r][d]
    BY <1>2, <1>3, <2>1 DEF Falls
  <2>3. Total(new)[d] <= Total(old)[d] + 0  BY <2>2, TotalsCompare
  <2>4. Total(old)[d] \in Nat  BY TotalTyped DEF Amount
  <2> QED  BY <2>3, <2>4
<1>5. ASSUME NEW c \in Calls, pc'[c] = "checked", NEW d \in Kind PROVE Total(Exposures)'[d] <= sum'[c][d]
  <2>1. Total(old)[d] <= sum[c][d]  BY <1>2, <1>5 DEF SumsHold
  <2>2. Total(new)[d] \in Nat /\ Total(old)[d] \in Nat /\ sum[c][d] \in Nat
    <3>1. Total(new) \in Amount /\ Total(old) \in Amount  BY TotalTyped
    <3>2. sum[c] \in Amount  BY DEF BudgetTypeOK
    <3> QED  BY <3>1, <3>2 DEF Amount
  <2>3. Total(Exposures)' = Total(new)  BY <1>3
  <2> QED  BY <1>4, <1>5, <2>1, <2>2, <2>3
<1> QED  BY <1>5 DEF SumsHold

\* Rows and callers keep to their types, and the lock to its holder.
LEMMA BudgetTypes ==
  ASSUME BudgetTypeOK, [BudgetNext]_budgetVars
  PROVE  BudgetTypeOK'
<1> USE DEF BudgetTypeOK, Goto, set, ledger, sent
<1>1. ASSUME NEW c \in Calls, LockSet(c) PROVE BudgetTypeOK'
  BY <1>1, AmountsAssumption DEF LockSet, Lockable
<1>2. ASSUME NEW c \in Calls, ReadSums(c) PROVE BudgetTypeOK'
  <2>1. Counts \in [Calls -> Amount]
    <3> HIDE DEF BudgetTypeOK
    <3> QED  BY CountsExposures
  <2>2. PICK t \in Amount : t = Total(Counts)  BY <2>1, TotalTyped
  <2>3. sum' = [sum EXCEPT ![c] = t]  BY <1>2, <2>2 DEF ReadSums, Counts
  <2> QED  BY <1>2, <2>3 DEF ReadSums
<1>3. ASSUME NEW c \in Calls, Refuse(c) PROVE BudgetTypeOK'
  BY <1>3 DEF Refuse, Unlock
<1>4. ASSUME NEW c \in Calls, NEW e \in Estimates, Insert(c, e) PROVE BudgetTypeOK'
  <2>1. e \in Amount  BY AmountsAssumption DEF Amount
  <2> QED  BY <1>4, <2>1 DEF Insert, Unlock
<1>5. ASSUME NEW c \in Calls, ReleaseLocal(c) PROVE BudgetTypeOK'
  BY <1>5 DEF ReleaseLocal
<1>6. ASSUME NEW c \in Calls, NEW b \in Bills, Dispatch(c, b) PROVE BudgetTypeOK'
  <2>1. b \in Amount  BY AmountsAssumption DEF Amount
  <2>2. [d \in Kind |-> billed[c][d] + b[d]] \in Amount  BY <2>1 DEF Amount
  <2> QED  BY <1>6, <2>1, <2>2 DEF Dispatch
<1>7. ASSUME NEW c \in Calls, Answer(c) PROVE BudgetTypeOK'
  <2>1. Nothing \in Amount  BY DEF Nothing, Amount
  <2>2. usage' \in [Calls -> Amount]  BY <1>7, <2>1 DEF Answer
  <2> QED  BY <1>7, <2>2 DEF Answer
<1>8. ASSUME NEW c \in Calls, Finalize(c) PROVE BudgetTypeOK'
  BY <1>8 DEF Finalize
<1>9. ASSUME NEW c \in Calls, Uncertain(c) PROVE BudgetTypeOK'
  BY <1>9 DEF Uncertain, Kept
<1>10. ASSUME NEW c \in Calls, Dies(c) PROVE BudgetTypeOK'
  BY <1>10 DEF Dies
<1>11. ASSUME NEW c \in Calls, Expires(c) PROVE BudgetTypeOK'
  BY <1>11 DEF Expires
<1>12. ASSUME NEW s \in {"ACTIVE", "ARCHIVED"}, NEW l \in Limits, UpdateBudget(s, l)
       PROVE  BudgetTypeOK'
  <2>1. l \in [Kind -> Nat]  BY AmountsAssumption
  <2>2. limit' \in [Kind -> Nat \ {0}]
    BY <1>12, <2>1 DEF UpdateBudget
  <2> QED  BY <1>12, <2>2 DEF UpdateBudget
<1>13. CASE UNCHANGED budgetVars
  BY <1>13 DEF budgetVars
<1> QED
  BY <1>1, <1>2, <1>3, <1>4, <1>5, <1>6, <1>7, <1>8, <1>9, <1>10, <1>11, <1>12, <1>13
  DEF BudgetNext, Call

\* What GrantsFitBudget says of one step.
GrantsFit ==
    \A c \in Calls : state[c] = "NONE" /\ state'[c] = "RESERVED" =>
        Fits(Total([r \in Calls |-> Exposure(r)]))'

\* No step but Insert grants anything.
NothingGranted == \A c \in Calls : state[c] = "NONE" => state'[c] = "NONE"

\* The reader of the sums writes down at least what is exposed, under the lock
\* that it keeps.
LEMMA SumsRead ==
  ASSUME BudgetInv, BudgetTypeOK', NEW c \in Calls, ReadSums(c)
  PROVE  SumsHold'
<1>0. BudgetTypeOK /\ SumsHold  BY DEF BudgetInv
<1>1. PICK counts \in [Calls -> Amount], old \in [Calls -> Amount] : counts = Counts /\ old = Exposures
  BY <1>0, CountsExposures
<1>2. Exposures' = old
  <2>1. UNCHANGED <<state, reserved, used>>  BY DEF ReadSums, ledger
  <2> QED  BY <1>0, <1>1, <2>1, SameExposures
<1>3. ASSUME NEW d \in Kind PROVE Total(old)[d] <= Total(counts)[d]
  <2>1. \A r \in Calls : counts[r][d] \in Nat /\ old[r][d] \in Nat  BY DEF Amount
  <2>2. \A r \in Calls : old[r][d] <= IF r = NoCall THEN counts[r][d] + 0 ELSE counts[r][d]
    BY <1>0, <1>1, <2>1, CountsExposures
  <2>3. Total(old)[d] <= Total(counts)[d] + 0  BY <2>2, TotalsCompare
  <2>4. Total(counts) \in Amount /\ Total(old) \in Amount  BY TotalTyped
  <2> QED  BY <2>3, <2>4 DEF Amount
<1>4. sum' = [sum EXCEPT ![c] = Total(counts)] /\ pc' = [pc EXCEPT ![c] = "checked"]
  BY <1>1 DEF ReadSums, Counts, Goto
<1>5. ASSUME NEW q \in Calls, pc'[q] = "checked", NEW d \in Kind PROVE Total(Exposures)'[d] <= sum'[q][d]
  <2>1. Total(Exposures)' = Total(old)  BY <1>2
  <2>2. CASE q = c
    <3>1. sum'[q] = Total(counts)  BY <1>0, <1>4, <2>2 DEF BudgetTypeOK
    <3> QED  BY <1>3, <2>1, <3>1
  <2>3. CASE q # c
    <3>1. pc[q] = "checked" /\ sum'[q] = sum[q]  BY <1>0, <1>4, <1>5, <2>3 DEF BudgetTypeOK
    <3>2. Total(old)[d] <= sum[q][d]  BY <1>0, <1>1, <3>1 DEF SumsHold
    <3> QED  BY <2>1, <3>1, <3>2
  <2> QED  BY <2>2, <2>3
<1> QED  BY <1>5 DEF SumsHold

\* What is granted fits, and nobody else has read sums.
LEMMA Granted ==
  ASSUME BudgetInv, BudgetTypeOK', NEW c \in Calls, NEW e \in Estimates, Insert(c, e)
  PROVE  SumsHold' /\ GrantsFit
<1>0. BudgetTypeOK /\ SumsHold /\ pc[c] = "checked" /\ state[c] = "NONE"
  BY DEF BudgetInv, RowFollowsCaller, Insert
<1>1. e \in Amount  BY AmountsAssumption DEF Amount
<1>2. SumsHold'
  <2>1. \A q \in Calls : pc[q] = "checked" => q = c  BY <1>0 DEF BudgetTypeOK
  <2>2. \A q \in Calls : pc'[q] # "checked"  BY <1>0, <2>1 DEF Insert, Goto, BudgetTypeOK
  <2> QED  BY <2>2 DEF SumsHold
<1>3. PICK old \in [Calls -> Amount] : old = Exposures  BY <1>0, CountsExposures
<1>4. PICK new \in [Calls -> Amount] : new = Exposures'  BY ExposuresNext
<1>5. ASSUME NEW r \in Calls, NEW d \in Kind
      PROVE  new[r][d] <= IF r = c THEN old[r][d] + e[d] ELSE old[r][d]
  <2>0. new[r][d] \in Nat /\ old[r][d] \in Nat /\ e[d] \in Nat  BY <1>1 DEF Amount
  <2>1. CASE r = c
    <3>1. state'[c] = "RESERVED" /\ reserved'[c] = e  BY <1>0 DEF Insert, BudgetTypeOK
    <3>2. Exposure(c)' = e  BY <3>1 DEF Exposure
    <3>3. new[c] = e  BY <1>4, <3>2 DEF Exposures
    <3> QED  BY <2>0, <2>1, <3>3
  <2>2. CASE r # c
    <3>1. state'[r] = state[r] /\ reserved'[r] = reserved[r] /\ used'[r] = used[r]
      BY <1>0, <2>2 DEF Insert, BudgetTypeOK
    <3>2. Exposure(r)' = Exposure(r)  BY <3>1 DEF Exposure
    <3>3. new[r] = old[r]  BY <1>3, <1>4, <3>2 DEF Exposures
    <3> QED  BY <2>0, <2>2, <3>3
  <2> QED  BY <2>1, <2>2
<1>6. ASSUME NEW d \in Kind PROVE Total(new)[d] <= sum[c][d] + e[d]
  <2>1. e[d] \in Nat  BY <1>1 DEF Amount
  <2>2. Total(new)[d] <= Total(old)[d] + e[d]  BY <1>5, <2>1, TotalsCompare
  <2>3. Total(old)[d] <= sum[c][d]  BY <1>0, <1>3 DEF SumsHold
  <2>4. Total(new)[d] \in Nat /\ Total(old)[d] \in Nat /\ sum[c][d] \in Nat
    <3>1. Total(new) \in Amount /\ Total(old) \in Amount  BY TotalTyped
    <3>2. sum[c] \in Amount  BY <1>0 DEF BudgetTypeOK
    <3> QED  BY <3>1, <3>2 DEF Amount
  <2> QED  BY <2>1, <2>2, <2>3, <2>4
<1>7. /\ sum[c]["tokens"] + e["tokens"] <= limit["tokens"]
      /\ limit["cost"] > 0 => sum[c]["cost"] + e["cost"] <= limit["cost"]
      /\ limit' = limit
  BY DEF Insert, Fits, Kind, set
<1>8. Total(new)["tokens"] \in Nat /\ Total(new)["cost"] \in Nat
  BY TotalTyped DEF Amount, Kind
<1>9. /\ sum[c]["tokens"] \in Nat /\ sum[c]["cost"] \in Nat /\ e["tokens"] \in Nat /\ e["cost"] \in Nat
      /\ limit["tokens"] \in Nat /\ limit["cost"] \in Nat
  BY <1>0, <1>1 DEF BudgetTypeOK, Amount, Kind
<1>10. /\ Total(new)["tokens"] <= sum[c]["tokens"] + e["tokens"]
       /\ Total(new)["cost"] <= sum[c]["cost"] + e["cost"]
  BY <1>6 DEF Kind
<1>11. /\ Total(new)["tokens"] <= limit'["tokens"]
       /\ limit'["cost"] > 0 => Total(new)["cost"] <= limit'["cost"]
  BY <1>7, <1>8, <1>9, <1>10
<1>12. Fits(Total([r \in Calls |-> Exposure(r)]))'
  <2>1. [r \in Calls |-> Exposure(r)]' = new  BY <1>4 DEF Exposures
  <2> QED  BY <1>11, <2>1 DEF Fits
<1> QED  BY <1>2, <1>12 DEF GrantsFit

\* A step that neither reads sums nor grants.
LEMMA SumsAside ==
  ASSUME BudgetTypeOK, BudgetTypeOK', SumsHold, Falls, NothingGranted, UNCHANGED sum,
         \A c \in Calls : pc'[c] = "checked" => pc[c] = "checked"
  PROVE  SumsHold' /\ GrantsFit
<1>1. SumsHold'  BY SumsStand
<1>2. GrantsFit  BY DEF NothingGranted, GrantsFit
<1> QED  BY <1>1, <1>2

\* Sums hold on, and what is granted fits.
LEMMA BudgetSums ==
  ASSUME BudgetInv, BudgetTypeOK', [BudgetNext]_budgetVars
  PROVE  SumsHold' /\ [GrantsFit]_budgetVars
<1>0. BudgetTypeOK /\ SumsHold  BY DEF BudgetInv
<1>1. ASSUME UNCHANGED <<state, reserved, used, sum>>,
             \A c \in Calls : pc'[c] = "checked" => pc[c] = "checked"
      PROVE  SumsHold' /\ GrantsFit
  <2>1. NothingGranted  BY <1>1 DEF NothingGranted
  <2> QED  BY <1>0, <1>1, <2>1, SameExposures, SumsAside
<1>2. ASSUME NEW c \in Calls, NEW l, l # "checked", Goto(c, l)
      PROVE  \A q \in Calls : pc'[q] = "checked" => pc[q] = "checked"
  BY <1>0, <1>2 DEF Goto, BudgetTypeOK
<1>3. ASSUME NEW c \in Calls, state[c] = "RESERVED", UNCHANGED <<reserved, sum>>, Goto(c, "over"),
             state' \in {[state EXCEPT ![c] = "COMPLETED"], [state EXCEPT ![c] = "RELEASED"]},
             \A r \in Calls : r # c => used'[r] = used[r]
      PROVE  SumsHold' /\ GrantsFit
  <2>1. Falls  BY <1>0, <1>3, HoldSettled
  <2>2. NothingGranted  BY <1>0, <1>3 DEF NothingGranted, BudgetTypeOK
  <2> QED  BY <1>0, <1>2, <1>3, <2>1, <2>2, SumsAside
<1>4. ASSUME NEW c \in Calls, LockSet(c) PROVE SumsHold' /\ GrantsFit
  BY <1>1, <1>2, <1>4 DEF LockSet, ledger
<1>5. ASSUME NEW c \in Calls, ReadSums(c) PROVE SumsHold' /\ GrantsFit
  <2>1. NothingGranted  BY <1>5 DEF ReadSums, ledger, NothingGranted
  <2>2. GrantsFit  BY <2>1 DEF NothingGranted, GrantsFit
  <2> QED  BY <1>5, <2>2, SumsRead
<1>6. ASSUME NEW c \in Calls, Refuse(c) PROVE SumsHold' /\ GrantsFit
  BY <1>1, <1>2, <1>6 DEF Refuse, ledger
<1>7. ASSUME NEW c \in Calls, NEW e \in Estimates, Insert(c, e) PROVE SumsHold' /\ GrantsFit
  BY <1>7, Granted
<1>8. ASSUME NEW c \in Calls, ReleaseLocal(c) PROVE SumsHold' /\ GrantsFit
  <2>1. state[c] = "RESERVED"  BY <1>8 DEF ReleaseLocal, BudgetInv, RowFollowsCaller
  <2>2. state' = [state EXCEPT ![c] = "RELEASED"]  BY <1>8, <2>1 DEF ReleaseLocal
  <2> QED  BY <1>3, <1>8, <2>1, <2>2 DEF ReleaseLocal
<1>9. ASSUME NEW c \in Calls, NEW b \in Bills, Dispatch(c, b) PROVE SumsHold' /\ GrantsFit
  BY <1>1, <1>2, <1>9 DEF Dispatch, ledger
<1>10. ASSUME NEW c \in Calls, Answer(c) PROVE SumsHold' /\ GrantsFit
  BY <1>1, <1>2, <1>10 DEF Answer, ledger
<1>11. ASSUME NEW c \in Calls, Finalize(c) PROVE SumsHold' /\ GrantsFit
  <2>1. \A r \in Calls : r # c => used'[r] = used[r]  BY <1>0, <1>11 DEF Finalize, BudgetTypeOK
  <2> QED  BY <1>3, <1>11, <2>1 DEF Finalize
<1>12. ASSUME NEW c \in Calls, Uncertain(c) PROVE SumsHold' /\ GrantsFit
  <2>1. state' = state  BY <1>0, <1>12 DEF Uncertain, Kept, BudgetTypeOK
  <2> QED  BY <1>1, <1>2, <1>12, <2>1 DEF Uncertain
<1>13. ASSUME NEW c \in Calls, Dies(c) PROVE SumsHold' /\ GrantsFit
  BY <1>1, <1>2, <1>13 DEF Dies, ledger
<1>14. ASSUME NEW c \in Calls, Expires(c) PROVE SumsHold' /\ GrantsFit
  BY <1>1, <1>14 DEF Expires
<1>15. ASSUME NEW s \in {"ACTIVE", "ARCHIVED"}, NEW l \in Limits, UpdateBudget(s, l)
       PROVE  SumsHold' /\ GrantsFit
  BY <1>1, <1>15 DEF UpdateBudget, ledger
<1>16. CASE UNCHANGED budgetVars
  <2>1. SumsHold' /\ GrantsFit  BY <1>1, <1>16 DEF budgetVars, ledger
  <2> QED  BY <2>1
<1> QED
  BY <1>4, <1>5, <1>6, <1>7, <1>8, <1>9, <1>10, <1>11, <1>12, <1>13, <1>14, <1>15, <1>16
  DEF BudgetNext, Call

\* The ledger is empty, and nobody has read sums.
LEMMA LedgerStarts == BudgetInit => BudgetTypeOK /\ SumsHold
BY AmountsAssumption DEF BudgetInit, BudgetTypeOK, SumsHold, Amount, Nothing

\* Rows and callers keep to their types (aibudget.Repository).
THEOREM BudgetTyped == BudgetSpec => []BudgetTypeOK
<1>1. BudgetTypeOK /\ [BudgetNext]_budgetVars => BudgetTypeOK'  BY BudgetTypes
<1> QED  BY <1>1, LedgerStarts, PTL DEF BudgetSpec

\* What concurrent calls reserve never exceeds the budget in force
\* (aibudget.Repository.Reserve).
THEOREM Budgeted == BudgetSpec => GrantsFitBudget
<1>1. BudgetInit => BudgetInv  BY BudgetStarts, LedgerStarts DEF BudgetInv
<1>2. BudgetInv /\ [BudgetNext]_budgetVars => BudgetInv' /\ [GrantsFit]_budgetVars
  <2> SUFFICES ASSUME BudgetInv, [BudgetNext]_budgetVars PROVE BudgetInv' /\ [GrantsFit]_budgetVars
    OBVIOUS
  <2>1. BudgetTypeOK' /\ RowFollowsCaller'  BY BudgetTypes, BudgetStep DEF BudgetInv
  <2>2. SumsHold' /\ [GrantsFit]_budgetVars  BY <2>1, BudgetSums
  <2> QED  BY <2>1, <2>2 DEF BudgetInv
<1>3. BudgetSpec => [][GrantsFit]_budgetVars  BY <1>1, <1>2, PTL DEF BudgetSpec
<1> QED  BY <1>3 DEF GrantsFitBudget, GrantsFit

-----------------------------------------------------------------------------
(* The parse queue. *)

ParseTypes ==
    /\ parse \in [status : {"UPLOADED", "PARSING", "PARSED", "FAILED"}, attempt : Nat,
                  lease : {"none", "live", "expired"}, blocks : Nat]
    /\ parser \in [Parser -> Nat]

\* How the statuses read as states of a task.
LEMMA ParseStates ==
    /\ ParseState["UPLOADED"] = "waiting" /\ ParseState["PARSING"] = "working"
    /\ ParseState["PARSED"] = "done" /\ ParseState["FAILED"] = "failed"
BY DEF ParseState

\* A version is uploaded, and nobody works on it.
LEMMA ParseStarts == ParseInit => ParseTypes /\ ParseTask!TaskInit
BY ParseStates DEF ParseInit, ParseTypes, ParseTask!TaskInit

\* A step of a worker or of time keeps the types and is a step of a task: a
\* claim takes the next turn, a save of the turn in force publishes it, its
\* failure leaves the row, and whatever else happens is not seen.
LEMMA ParseSteps ==
  ASSUME ParseTypes, [ParseNext]_parseVars
  PROVE  ParseTypes' /\ [ParseTask!TaskNext]_(ParseTask!taskVars)
<1> USE ParseStates DEF ParseTypes
<1>1. CASE ParseLeaseExpires
  BY <1>1 DEF ParseLeaseExpires, ParseTask!taskVars
<1>2. ASSUME NEW p \in Parser, ParseClaim(p)
      PROVE  ParseTypes' /\ ParseTask!Take
  <2>1. ParseTypes'
    <3>1. parse.attempt + 1 \in Nat  OBVIOUS
    <3>2. parse' = [status |-> "PARSING", attempt |-> parse.attempt + 1, lease |-> "live", blocks |-> parse.blocks]
      BY <1>2 DEF ParseClaim
    <3> QED  BY <1>2, <3>1, <3>2 DEF ParseClaim
  <2>2. ParseTask!Take
    BY <1>2 DEF ParseClaim, ParseClaimable, ParseTask!Take
  <2> QED  BY <2>1, <2>2
<1>3. ASSUME NEW p \in Parser, ParseRenew(p)
      PROVE  ParseTypes' /\ UNCHANGED ParseTask!taskVars
  BY <1>3 DEF ParseRenew, ParseHeld, ParseTask!taskVars
<1>4. ASSUME NEW p \in Parser, SaveParsed(p)
      PROVE  ParseTypes' /\ ParseTask!Publish
  BY <1>4 DEF SaveParsed, ParseHeld, ParseTask!Publish
<1>5. ASSUME NEW p \in Parser, ParseRetryOrFail(p)
      PROVE  ParseTypes' /\ (ParseTask!Leave \/ UNCHANGED ParseTask!taskVars)
  <2>1. CASE ParseHeld(p)
    BY <1>5, <2>1 DEF ParseRetryOrFail, ParseHeld, ParseGoesOn, ParseTask!Leave
  <2>2. CASE ~ParseHeld(p)
    BY <1>5, <2>2 DEF ParseRetryOrFail, ParseTask!taskVars
  <2> QED  BY <2>1, <2>2
<1>6. ASSUME NEW p \in Parser, ParserDies(p)
      PROVE  ParseTypes' /\ UNCHANGED ParseTask!taskVars
  BY <1>6 DEF ParserDies, ParseTask!taskVars
<1>7. CASE UNCHANGED parseVars
  BY <1>7 DEF parseVars, ParseTask!taskVars
<1> QED
  BY <1>1, <1>2, <1>3, <1>4, <1>5, <1>6, <1>7 DEF ParseNext, ParseTask!TaskNext

\* The parse of a version is a task (document.PostgresRepository).
THEOREM ParseIsTask == ParseSpec => ParseTask!TaskSpec
<1>1. ParseInit => ParseTypes /\ ParseTask!TaskInit  BY ParseStarts
<1>2. ParseTypes /\ [ParseNext]_parseVars => ParseTypes' /\ [ParseTask!TaskNext]_(ParseTask!taskVars)
  BY ParseSteps
<1> QED  BY <1>1, <1>2, PTL DEF ParseSpec, ParseTask!TaskSpec

-----------------------------------------------------------------------------
(* The extraction queue. *)

\* A job that shows an end its user may retry shows the one its row has: the
\* row keeps it until the Retry.
ExtractionInv ==
    /\ extraction \in [status : {"PENDING", "RUNNING", "COMPLETED", "FAILED", "CANCELED"}, attempt : Nat,
                       lease : {"none", "live", "expired"}, summary : Nat]
    /\ extractor \in [Extractor -> Nat]
    /\ delegating \in {"FAILED", "CANCELED"} => extraction.status = delegating

\* How the statuses read as states of a task.
LEMMA ExtractionStates ==
    /\ ExtractionState["PENDING"] = "waiting" /\ ExtractionState["RUNNING"] = "working"
    /\ ExtractionState["COMPLETED"] = "done"
    /\ ExtractionState["FAILED"] = "failed" /\ ExtractionState["CANCELED"] = "failed"
BY DEF ExtractionState

\* A row is inserted PENDING with the job that delegates to it.
LEMMA ExtractionStarts == ExtractionInit => ExtractionInv /\ ExtractionTask!TaskInit
BY ExtractionStates DEF ExtractionInit, ExtractionInv, ExtractionTask!TaskInit

\* Every step of a worker, of time, of a reader or of a user of the job.
LEMMA ExtractionSteps ==
  ASSUME ExtractionInv, [ExtractionNext]_extractionVars
  PROVE  ExtractionInv' /\ [ExtractionTask!TaskNext]_(ExtractionTask!taskVars)
<1> USE ExtractionStates DEF ExtractionInv
<1>1. CASE ExtractionLeaseExpires
  BY <1>1 DEF ExtractionLeaseExpires, ExtractionTask!taskVars
<1>2. CASE ReconcileDelegated
  BY <1>2 DEF ReconcileDelegated, Mapped, ExtractionTask!taskVars
<1>3. CASE CancelDelegated
  <2>1. CASE Withdrawn
    <3>1. ExtractionTask!Withdraw
      BY <1>3, <2>1 DEF CancelDelegated, Withdrawn, ExtractionTask!Withdraw
    <3>2. ExtractionInv'
      BY <1>3, <2>1 DEF CancelDelegated, Withdrawn, Mapped
    <3> QED  BY <3>1, <3>2 DEF ExtractionTask!TaskNext
  <2>2. CASE ~Withdrawn
    BY <1>3, <2>2 DEF CancelDelegated, Withdrawn, Mapped, ExtractionTask!taskVars
  <2> QED  BY <2>1, <2>2
<1>4. CASE RetryDelegated
  BY <1>4 DEF RetryDelegated, ExtractionTask!Reopen, ExtractionTask!TaskNext
<1>5. ASSUME NEW x \in Extractor, ClaimExtraction(x)
      PROVE  ExtractionInv' /\ ExtractionTask!Take
  <2>1. ExtractionInv'
    <3>1. extraction.attempt + 1 \in Nat  OBVIOUS
    <3>2. extraction' = [status |-> "RUNNING", attempt |-> extraction.attempt + 1, lease |-> "live",
                         summary |-> extraction.summary]
      BY <1>5 DEF ClaimExtraction
    <3>3. extraction.status # delegating \/ delegating \notin {"FAILED", "CANCELED"}
      BY <1>5 DEF ClaimExtraction, ExtractionClaimable
    <3> QED  BY <1>5, <3>1, <3>2, <3>3 DEF ClaimExtraction
  <2>2. ExtractionTask!Take
    BY <1>5 DEF ClaimExtraction, ExtractionClaimable, ExtractionTask!Take
  <2> QED  BY <2>1, <2>2
<1>6. ASSUME NEW x \in Extractor, RenewExtractionLease(x)
      PROVE  ExtractionInv' /\ UNCHANGED ExtractionTask!taskVars
  BY <1>6 DEF RenewExtractionLease, ExtractionHeld, ExtractionTask!taskVars
<1>7. ASSUME NEW x \in Extractor, CompleteExtraction(x)
      PROVE  ExtractionInv' /\ (ExtractionTask!Publish \/ UNCHANGED ExtractionTask!taskVars)
  <2>1. CASE ExtractionHeld(x)
    BY <1>7, <2>1 DEF CompleteExtraction, ExtractionHeld, ExtractionTask!Publish
  <2>2. CASE ~ExtractionHeld(x)
    BY <1>7, <2>2 DEF CompleteExtraction, ExtractionTask!taskVars
  <2> QED  BY <2>1, <2>2
<1>8. ASSUME NEW x \in Extractor, RetryOrFailExtraction(x)
      PROVE  ExtractionInv' /\ (ExtractionTask!Leave \/ UNCHANGED ExtractionTask!taskVars)
  <2>1. CASE ExtractionHeld(x)
    BY <1>8, <2>1 DEF RetryOrFailExtraction, ExtractionHeld, ExtractionTask!Leave
  <2>2. CASE ~ExtractionHeld(x)
    BY <1>8, <2>2 DEF RetryOrFailExtraction, ExtractionTask!taskVars
  <2> QED  BY <2>1, <2>2
<1>9. ASSUME NEW x \in Extractor, ExtractorDies(x)
      PROVE  ExtractionInv' /\ UNCHANGED ExtractionTask!taskVars
  BY <1>9 DEF ExtractorDies, ExtractionTask!taskVars
<1>10. CASE UNCHANGED extractionVars
  BY <1>10 DEF extractionVars, ExtractionTask!taskVars
<1> QED
  BY <1>1, <1>2, <1>3, <1>4, <1>5, <1>6, <1>7, <1>8, <1>9, <1>10
  DEF ExtractionNext, ExtractionTask!TaskNext

\* The extraction of a set is a task, canceled and retried through its
\* workflow job (requirement.Repository, workflow.Repository).
THEOREM ExtractionIsTask == ExtractionSpec => ExtractionTask!TaskSpec
<1>1. ExtractionInit => ExtractionInv /\ ExtractionTask!TaskInit  BY ExtractionStarts
<1>2. ExtractionInv /\ [ExtractionNext]_extractionVars
        => ExtractionInv' /\ [ExtractionTask!TaskNext]_(ExtractionTask!taskVars)
  BY ExtractionSteps
<1> QED  BY <1>1, <1>2, PTL DEF ExtractionSpec, ExtractionTask!TaskSpec

-----------------------------------------------------------------------------
(* The modules side by side.                                                *)

\* A behaviour of the run is a behaviour of each of its modules: the one that is
\* chosen takes the steps, the others stay where they start.  That of the
\* continuations may start with a second upload.
LEMMA PartsStep ==
  ASSUME [DocumentsNext]_<<part, vars, budgetVars, intentVars, parseVars, extractionVars>>
  PROVE  /\ [Next]_vars /\ [BudgetNext]_budgetVars /\ [IntentsNext]_intentVars
         /\ [ParseNext]_parseVars /\ [ExtractionNext]_extractionVars
BY DEF DocumentsNext, PurgePart, BudgetPart, IntentsPart, ParsePart, ExtractionPart

LEMMA PartsAreBehaviours == DocumentsSpec => Spec /\ BudgetSpec /\ ParseSpec /\ ExtractionSpec
<1>1. DocumentsInit => Init /\ BudgetInit /\ ParseInit /\ ExtractionInit  BY DEF DocumentsInit
<1> QED
  BY <1>1, PartsStep, PTL DEF DocumentsSpec, Spec, BudgetSpec, ParseSpec, ExtractionSpec

\* The index of the state after a second upload is that of the first version.
LEMMA SecondUploadIndexed == SecondUpload => IndexInv
<1> SUFFICES ASSUME SecondUpload PROVE IndexInv  OBVIOUS
<1>1. PICK d : d = CHOOSE x \in Document : TRUE  OBVIOUS
<1>2. d \in Document  BY <1>1, SecondUploadAssumption
<1>3. /\ version = <<[doc |-> d, parse |-> "PARSED", approval |-> "APPROVED"],
                     [doc |-> d, parse |-> "UPLOADED", approval |-> "DRAFT"]>>
      /\ generation = <<[status |-> "READY", snapshot |-> FirstRevision, versions |-> {1}]>>
      /\ index = [status |-> "READY", generation |-> 1, snapshot |-> FirstRevision]
      /\ builder = [b \in Builder |-> NoBuild]
  BY <1>1 DEF SecondUpload, Uploaded
<1>4. FirstRevision \in SnapshotRow  BY DEF FirstRevision, SnapshotRow
<1>5. /\ Len(version) = 2 /\ version \in Seq(VersionRow)
      /\ version[1] = [doc |-> d, parse |-> "PARSED", approval |-> "APPROVED"]
  BY <1>2, <1>3 DEF VersionRow
<1>6. /\ Len(generation) = 1 /\ DOMAIN generation = {1} /\ generation \in Seq(GenerationRow)
      /\ generation[1] = [status |-> "READY", snapshot |-> FirstRevision, versions |-> {1}]
  BY <1>3, <1>4 DEF GenerationRow
<1>7. SourcesOf(version, FirstRevision) = {1}  BY DEF SourcesOf, FirstRevision
<1>8. IndexTyped  BY <1>3, <1>4, <1>5, <1>6 DEF IndexTyped, IndexRow, NoBuild
<1>9. BuildsShown
  <2>1. Shows(version, FirstRevision)  BY <1>5, <1>7 DEF Shows, FirstRevision
  <2> QED  BY <1>3, <1>6, <2>1 DEF BuildsShown, NoBuild
<1>10. IndexIsComplete
  <2>1. /\ generation[1].versions = Sources(generation[1].snapshot) /\ generation[1].versions = {1}
        /\ generation[1].status = "READY" /\ generation[1].snapshot = FirstRevision
    BY <1>6, <1>7 DEF Sources
  <2>2. version[1].parse = "PARSED"  BY <1>5
  <2>3. index.generation = 1 /\ index.status = "READY" /\ index.snapshot = FirstRevision  BY <1>3
  <2> QED  BY <1>6, <2>1, <2>2, <2>3 DEF IndexIsComplete
<1> QED  BY <1>8, <1>9, <1>10 DEF IndexInv

\* And its other tables say of each other what they should.
LEMMA SecondUploadLinked == SecondUpload => LinksInv
<1> SUFFICES ASSUME SecondUpload PROVE LinksInv  OBVIOUS
<1>1. IndexInv  BY SecondUploadIndexed
<1>2. /\ archived = FALSE /\ index = [status |-> "READY", generation |-> 1, snapshot |-> FirstRevision]
      /\ sourceJob = << >> /\ extracting = <<[generation |-> 1, status |-> "PENDING"]>>
      /\ builder = [b \in Builder |-> NoBuild] /\ failing = 0 /\ commands = 0
  BY DEF SecondUpload
<1>3. Len(version) = 2  BY DEF SecondUpload
<1>4. /\ Len(generation) = 1 /\ DOMAIN generation = {1}
      /\ generation[1] = [status |-> "READY", snapshot |-> FirstRevision, versions |-> {1}]
  BY DEF SecondUpload
<1>5. FirstRevision \in SnapshotType /\ NoSnapshot \in SnapshotType /\ VersionBound \in Nat
  BY SecondUploadAssumption, VersionAssumption DEF FirstRevision, NoSnapshot, SnapshotType
<1>6. SourcesOK
  <2>1. \A g \in DOMAIN generation : generation[g].snapshot \in SnapshotType /\ generation[g].versions \subseteq 1..Len(version)
    BY <1>3, <1>4, <1>5
  <2>2. index.snapshot \in SnapshotType /\ index.generation # 0
    <3>1. index.snapshot = FirstRevision /\ index.generation = 1  BY <1>2
    <3> QED  BY <1>5, <3>1
  <2>3. archived \in BOOLEAN  BY <1>2
  <2>4. Len(version) <= VersionBound  BY <1>3, <1>5, SecondUploadAssumption
  <2> QED  BY <2>1, <2>2, <2>3, <2>4 DEF SourcesOK
<1>7. ExtractingOK  BY <1>2, <1>4 DEF ExtractingOK, ExtractingRow
<1>8. /\ Len(intent) = 3 /\ DOMAIN intent = 1..3 /\ intent \in Seq(IntentRow)
      /\ \A i \in 1..3 : /\ intent[i].revision \in 1..2 /\ intent[i].excluded = {}
                         /\ intent[i].index = 0 /\ intent[i].extract = 0
                         /\ intent[i].status \in {"SUPERSEDED", "WAITING_PARSE"}
  <2>1. PICK a, b, c : /\ a = Continued("INDEX", 1, "SUPERSEDED") /\ b = Continued("APPROVE", 1, "SUPERSEDED")
                       /\ c = Continued("INDEX", 2, "WAITING_PARSE")
    OBVIOUS
  <2>2. intent = <<a, b, c>>  BY <2>1 DEF SecondUpload
  <2>3. a \in IntentRow /\ b \in IntentRow /\ c \in IntentRow
    BY <2>1 DEF Continued, IntentRow, SourceCommands, Unfinished
  <2>4. \A x \in {a, b, c} : /\ x.revision \in 1..2 /\ x.excluded = {} /\ x.index = 0 /\ x.extract = 0
                             /\ x.status \in {"SUPERSEDED", "WAITING_PARSE"}
    BY <2>1 DEF Continued
  <2>5. Len(intent) = 3 /\ DOMAIN intent = 1..3 /\ intent \in Seq(IntentRow)  BY <2>2, <2>3
  <2>6. \A i \in 1..3 : intent[i] \in {a, b, c}  BY <2>2
  <2> QED  BY <2>4, <2>5, <2>6
<1>9. Len(sourceJob) = 0 /\ DOMAIN sourceJob = {} /\ sourceJob \in Seq(JobRow)  BY <1>2, EmptySeq
<1>10. IntentsOK
  <2>1. \A i \in DOMAIN intent : IntentOK(i)  BY <1>3, <1>8, <1>9 DEF IntentOK, Keeps
  <2> QED  BY <1>8, <2>1 DEF IntentsOK
<1>11. JobsOK  BY <1>9 DEF JobsOK
<1>12. BuildsOK
  <2>1. NoBuild \in BuildRow  BY <1>5 DEF NoBuild, BuildRow
  <2> QED  BY <1>2, <1>4, <1>9, <2>1 DEF BuildsOK, BuildOK, NoBuild
<1>13. CountsOK  BY <1>2, <1>8, IntentBoundsAssumption DEF CountsOK
<1> QED  BY <1>1, <1>6, <1>7, <1>10, <1>11, <1>12, <1>13 DEF LinksInv

\* The types of all tables about one document set (document, aibudget, workflow).
THEOREM DocumentsTyped == DocumentsSpec => []DocumentsTypeOK
<1>1. DocumentsInit => LinksInv  BY LinksStart, SecondUploadLinked DEF DocumentsInit
<1>2. LinksInv /\ [DocumentsNext]_<<part, vars, budgetVars, intentVars, parseVars, extractionVars>> => LinksInv'
  BY PartsStep, LinksStep
<1>3. DocumentsSpec => []SourcesTypeOK  BY <1>1, <1>2, LinksTyped, PTL DEF DocumentsSpec
<1>4. TypeOK /\ BudgetTypeOK /\ SourcesTypeOK => DocumentsTypeOK  BY DEF DocumentsTypeOK
<1> QED  BY <1>3, <1>4, PartsAreBehaviours, TypeCorrect, BudgetTyped, PTL

\* Both queues of the set do to their rows what TaskLifecycle allows
\* (document.Worker, requirement.Worker and their repositories).
THEOREM QueuesAreTasks == DocumentsSpec => QueuesImplementTasks
BY PartsAreBehaviours, ParseIsTask, ExtractionIsTask, PTL DEF QueuesImplementTasks

=============================================================================
