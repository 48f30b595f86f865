---------------------------- MODULE Analyses_proofs ----------------------------
(***************************************************************************)
(* Proofs about an analysis and what surrounds it.  The pipeline: for every  *)
(* set of workers, however they are spread over the queues, and every limit; *)
(* its last two theorems need one worker per queue: with more of them the    *)
(* fence lets a stale worker save (run pipeline_stale_validator), and the    *)
(* theorems show that nothing else is wrong.  For any releases, traces,      *)
(* identifiers, deliveries, files and workers: its scope stands and leaves   *)
(* out only what the event does not name, whatever a project, its baseline   *)
(* and its document set become while it is served.  The index it reads answers *)
(* its request, and what a call retrieves is of one index.  A proposal of new *)
(* test cases revises nothing but the head that its job pinned.              *)
(***************************************************************************)
EXTENDS AnalysisPipeline, AnalysisScope, KnowledgeIndex, TestProposals, TestCatalog_proofs,
        FiniteSetTheorems, SequenceTheorems, TLAPS

-----------------------------------------------------------------------------
(* The pipeline.                                                            *)

ActiveStatus == {"FETCHING_SOURCE", "ANALYZING_CHANGE", "RECOMMENDING_TESTS",
                 "GENERATING_TESTS", "VALIDATING", "REPAIRING"}
OpenStatus == ActiveStatus \cup {"PENDING", "RETRIEVING_CONTEXT"}

-----------------------------------------------------------------------------
(* Types. *)

\* Releasing a worker resets its local state within its types.
LEMMA ReleaseType ==
  ASSUME TypeOK, NEW w \in Workers, Release(w)
  PROVE  /\ pc' \in [Workers -> {"idle", "claimed", "read", "ready"}]
         /\ held' \in [Workers -> Nat]
         /\ seen' \in [Workers -> [Recs -> Versions \cup {0}]]
         /\ feedback' \in [Workers -> [Tests -> Outcomes \cup {"NONE"}]]
<1>1. pc' \in [Workers -> {"idle", "claimed", "read", "ready"}]  BY DEF Release, TypeOK
<1>2. held' \in [Workers -> Nat]  BY DEF Release, TypeOK
<1>3. [r \in Recs |-> 0] \in [Recs -> Versions \cup {0}]  OBVIOUS
<1>4. seen' \in [Workers -> [Recs -> Versions \cup {0}]]
  <2>1. seen' = [seen EXCEPT ![w] = [r \in Recs |-> 0]]  BY DEF Release
  <2> QED  BY <1>3, <2>1 DEF TypeOK
<1>5. Nothing \in [Tests -> Outcomes \cup {"NONE"}]  BY DEF Nothing
<1>6. feedback' \in [Workers -> [Tests -> Outcomes \cup {"NONE"}]]
  <2>1. feedback' = [feedback EXCEPT ![w] = Nothing]  BY DEF Release
  <2> QED  BY <1>5, <2>1 DEF TypeOK
<1> QED  BY <1>1, <1>2, <1>4, <1>6

\* A claim keeps the types.
LEMMA ClaimType ==
  ASSUME TypeOK, NEW w \in Workers, NEW a, NEW b \in Statuses, ClaimNext(w, a, b)
  PROVE  TypeOK'
<1>1. NextAttempt \in Nat  BY DEF NextAttempt, TypeOK
<1>2. /\ status' \in Statuses /\ attempt' \in Nat /\ lease' \in Leases /\ errored' \in BOOLEAN
  BY <1>1 DEF ClaimNext, Leases
<1>3. pc' \in [Workers -> {"idle", "claimed", "read", "ready"}]  BY DEF ClaimNext, TypeOK
<1>4. held' \in [Workers -> Nat]  BY <1>1 DEF ClaimNext, TypeOK
<1>5. UNCHANGED <<recs, latest, runs, reviews, seen, feedback>>  BY DEF ClaimNext, data
<1> QED  BY <1>2, <1>3, <1>4, <1>5 DEF TypeOK

\* Retrying or failing keeps the types.
LEMMA RetryType ==
  ASSUME TypeOK, NEW w \in Workers, NEW a \in Statuses, NEW b, RetryOrFail(w, a, b)
  PROVE  TypeOK'
<1>1. Release(w)  BY DEF RetryOrFail
<1>2. UNCHANGED <<recs, latest, runs, reviews>>  BY DEF RetryOrFail, data
<1>3. status' \in Statuses /\ attempt' \in Nat /\ lease' \in Leases /\ errored' \in BOOLEAN
  BY DEF RetryOrFail, TypeOK, job, Leases, Statuses
<1> QED  BY <1>1, <1>2, <1>3, ReleaseType DEF TypeOK

\* A phase handoff keeps the types of the row and of the worker.
LEMMA AdvanceType ==
  ASSUME TypeOK, NEW w \in Workers, NEW a, NEW b \in Statuses, Advance(w, a, b),
         recs' \subseteq Recs, latest' \in [Recs -> Versions \cup {0}],
         runs' \in [Tests -> Outcomes \cup {"NONE"}],
         reviews' \in [Tests -> Decisions \cup {"NONE"}]
  PROVE  TypeOK'
<1>1. Release(w)  BY DEF Advance
<1>2. status' \in Statuses /\ attempt' \in Nat /\ lease' \in Leases /\ errored' \in BOOLEAN
  BY DEF Advance, Leases
<1> QED  BY <1>1, <1>2, ReleaseType DEF TypeOK

\* The rows stay in their types when the data is unchanged.
LEMMA SameData ==
  ASSUME TypeOK, UNCHANGED data
  PROVE  /\ recs' \subseteq Recs /\ latest' \in [Recs -> Versions \cup {0}]
         /\ runs' \in [Tests -> Outcomes \cup {"NONE"}]
         /\ reviews' \in [Tests -> Decisions \cup {"NONE"}]
BY DEF data, TypeOK

\* Cleared rows have their types.
LEMMA ClearedType ==
  ASSUME ClearTests
  PROVE  /\ runs' \in [Tests -> Outcomes \cup {"NONE"}]
         /\ reviews' \in [Tests -> Decisions \cup {"NONE"}]
BY DEF ClearTests, Nothing

\* A version below the limit has a successor.
LEMMA RepairedVersion ==
  ASSUME NEW v \in 1 .. MaxRepairs
  PROVE  v + 1 \in Versions
BY MaxRepairsAssumption DEF Versions

\* SaveRepairs appends versions within the limit.
LEMMA RepairsType ==
  ASSUME TypeOK, NEW w \in Workers, SaveRepairs(w)
  PROVE  latest' \in [Recs -> Versions \cup {0}]
<1>1. latest' = [r \in Recs |-> IF r \in ToRepair(w) THEN latest[r] + 1 ELSE latest[r]]
  BY DEF SaveRepairs
<1>2. ASSUME NEW r \in Recs PROVE latest'[r] \in Versions \cup {0}
  <2>1. CASE r \in ToRepair(w)
    <3>1. latest[r] = seen[w][r] /\ seen[w][r] \in 1 .. MaxRepairs
      BY <2>1 DEF SaveRepairs, ToRepair
    <3> QED  BY <1>1, <2>1, <3>1, RepairedVersion
  <2>2. CASE r \notin ToRepair(w)  BY <1>1, <2>2 DEF TypeOK
  <2> QED  BY <2>1, <2>2
<1> QED  BY <1>1, <1>2

\* Every transaction of every queue keeps the types.
LEMMA QueueTypes ==
  ASSUME TypeOK, NEW w \in Workers, Progress(w)
  PROVE  TypeOK'
<1> USE DEF Statuses
<1>1. CASE Source(w)
  <2>1. CASE ClaimNext(w, "PENDING", "FETCHING_SOURCE")  BY <2>1, ClaimType
  <2>2. CASE RetryOrFail(w, "PENDING", "FETCHING_SOURCE")  BY <2>2, RetryType
  <2>3. CASE Advance(w, "FETCHING_SOURCE", "ANALYZING_CHANGE") /\ UNCHANGED data
    BY <2>3, SameData, AdvanceType
  <2> QED  BY <1>1, <2>1, <2>2, <2>3 DEF Source
<1>2. CASE Change(w)
  <2>1. CASE ClaimNext(w, "ANALYZING_CHANGE", "ANALYZING_CHANGE")  BY <2>1, ClaimType
  <2>2. CASE RetryOrFail(w, "ANALYZING_CHANGE", "ANALYZING_CHANGE")  BY <2>2, RetryType
  <2>3. CASE Advance(w, "ANALYZING_CHANGE", "RETRIEVING_CONTEXT") /\ UNCHANGED data
    BY <2>3, SameData, AdvanceType
  <2> QED  BY <1>2, <2>1, <2>2, <2>3 DEF Change
<1>3. CASE Recommendation(w)
  <2>1. CASE ClaimNext(w, "RETRIEVING_CONTEXT", "RECOMMENDING_TESTS")  BY <2>1, ClaimType
  <2>2. CASE RetryOrFail(w, "RETRIEVING_CONTEXT", "RECOMMENDING_TESTS")  BY <2>2, RetryType
  <2>3. CASE SaveRecommendations(w)
    <3>1. /\ Advance(w, "RECOMMENDING_TESTS", "GENERATING_TESTS") /\ ClearTests
          /\ recs' \subseteq Recs /\ latest' = [r \in Recs |-> 0]
      BY <2>3 DEF SaveRecommendations
    <3>2. latest' \in [Recs -> Versions \cup {0}]  BY <3>1
    <3> QED  BY <3>1, <3>2, ClearedType, AdvanceType
  <2> QED  BY <1>3, <2>1, <2>2, <2>3 DEF Recommendation
<1>4. CASE Generation(w)
  <2>1. CASE ClaimNext(w, "GENERATING_TESTS", "GENERATING_TESTS")  BY <2>1, ClaimType
  <2>2. CASE RetryOrFail(w, "GENERATING_TESTS", "GENERATING_TESTS")  BY <2>2, RetryType
  <2>3. CASE SaveGenerated(w)
    <3>1. /\ Advance(w, "GENERATING_TESTS", "VALIDATING") /\ ClearTests
          /\ UNCHANGED recs /\ latest' = [r \in Recs |-> IF r \in recs THEN 1 ELSE 0]
      BY <2>3 DEF SaveGenerated
    <3>2. latest' \in [Recs -> Versions \cup {0}]
      BY <3>1, MaxRepairsAssumption DEF Versions
    <3>3. recs' \subseteq Recs  BY <3>1 DEF TypeOK
    <3> QED  BY <3>1, <3>2, <3>3, ClearedType, AdvanceType
  <2> QED  BY <1>4, <2>1, <2>2, <2>3 DEF Generation
<1>5. CASE ListLatest(w)
  <2>1. seen' = [seen EXCEPT ![w] = latest]  BY <1>5 DEF ListLatest
  <2>2. seen' \in [Workers -> [Recs -> Versions \cup {0}]]  BY <2>1 DEF TypeOK
  <2>3. pc' \in [Workers -> {"idle", "claimed", "read", "ready"}]
    BY <1>5 DEF ListLatest, TypeOK
  <2>4. UNCHANGED <<status, attempt, lease, errored, recs, latest, runs, reviews, held, feedback>>
    BY <1>5 DEF ListLatest, job, data
  <2> QED  BY <2>2, <2>3, <2>4 DEF TypeOK
<1>6. CASE Validation(w)
  <2>1. CASE ClaimNext(w, "VALIDATING", "VALIDATING")  BY <2>1, ClaimType
  <2>2. CASE RetryOrFail(w, "VALIDATING", "VALIDATING")  BY <2>2, RetryType
  <2>3. CASE SaveValidated(w)
    <3>1. PICK passed \in SUBSET SeenTests(w) :
            /\ runs' = Upserted(w, passed)
            /\ Advance(w, "VALIDATING",
                 IF passed = SeenTests(w) THEN "WAITING_REVIEW" ELSE "REPAIRING")
            /\ UNCHANGED <<recs, latest, reviews>>
      BY <2>3 DEF SaveValidated
    <3>2. runs' \in [Tests -> Outcomes \cup {"NONE"}]
      BY <3>1 DEF Upserted, Outcomes, TypeOK
    <3>3. /\ recs' \subseteq Recs /\ latest' \in [Recs -> Versions \cup {0}]
          /\ reviews' \in [Tests -> Decisions \cup {"NONE"}]
      BY <3>1 DEF TypeOK
    <3>4. CASE passed = SeenTests(w)
      <4>1. Advance(w, "VALIDATING", "WAITING_REVIEW")  BY <3>1, <3>4
      <4> QED  BY <4>1, <3>2, <3>3, AdvanceType
    <3>5. CASE passed # SeenTests(w)
      <4>1. Advance(w, "VALIDATING", "REPAIRING")  BY <3>1, <3>5
      <4> QED  BY <4>1, <3>2, <3>3, AdvanceType
    <3> QED  BY <3>4, <3>5
  <2> QED  BY <1>5, <1>6, <2>1, <2>2, <2>3 DEF Validation
<1>7. CASE ListRuns(w)
  <2>1. feedback' = [feedback EXCEPT ![w] = runs]  BY <1>7 DEF ListRuns
  <2>2. feedback' \in [Workers -> [Tests -> Outcomes \cup {"NONE"}]]  BY <2>1 DEF TypeOK
  <2>3. pc' \in [Workers -> {"idle", "claimed", "read", "ready"}]
    BY <1>7 DEF ListRuns, TypeOK
  <2>4. UNCHANGED <<status, attempt, lease, errored, recs, latest, runs, reviews, held, seen>>
    BY <1>7 DEF ListRuns, job, data
  <2> QED  BY <2>2, <2>3, <2>4 DEF TypeOK
<1>8. CASE Repair(w)
  <2>1. CASE ClaimNext(w, "REPAIRING", "REPAIRING")  BY <2>1, ClaimType
  <2>2. CASE RetryOrFail(w, "REPAIRING", "REPAIRING")  BY <2>2, RetryType
  <2>3. CASE SaveRepairs(w)
    <3>1. /\ Advance(w, "REPAIRING", IF ToRepair(w) = {} THEN "WAITING_REVIEW" ELSE "VALIDATING")
          /\ UNCHANGED <<recs, runs, reviews>>
      BY <2>3 DEF SaveRepairs
    <3>2. latest' \in [Recs -> Versions \cup {0}]  BY <2>3, RepairsType
    <3>3. /\ recs' \subseteq Recs /\ runs' \in [Tests -> Outcomes \cup {"NONE"}]
          /\ reviews' \in [Tests -> Decisions \cup {"NONE"}]
      BY <3>1 DEF TypeOK
    <3>4. CASE ToRepair(w) = {}
      <4>1. Advance(w, "REPAIRING", "WAITING_REVIEW")  BY <3>1, <3>4
      <4> QED  BY <4>1, <3>2, <3>3, AdvanceType
    <3>5. CASE ToRepair(w) # {}
      <4>1. Advance(w, "REPAIRING", "VALIDATING")  BY <3>1, <3>5
      <4> QED  BY <4>1, <3>2, <3>3, AdvanceType
    <3> QED  BY <3>4, <3>5
  <2> QED  BY <1>5, <1>7, <1>8, <2>1, <2>2, <2>3 DEF Repair
<1> QED  BY <1>1, <1>2, <1>3, <1>4, <1>6, <1>8 DEF Progress

\* Steps that touch at most the lease.
LeaseOnly == UNCHANGED <<status, attempt, errored, data, local>> /\ lease' \in Leases

\* Renewals and expiries touch the lease only.
LEMMA LeaseSteps ==
  /\ LeaseExpires => LeaseOnly
  /\ \A w \in Workers : Renew(w) => LeaseOnly
BY DEF LeaseExpires, Renew, RenewLease, LeaseOnly, Leases

\* A review decision keeps the types.
LEMMA DecideType ==
  ASSUME TypeOK, NEW t \in Tests, NEW d \in Decisions, Decide(t, d)
  PROVE  TypeOK'
<1>1. reviews' = [reviews EXCEPT ![t] = d]  BY DEF Decide
<1>2. reviews' \in [Tests -> Decisions \cup {"NONE"}]  BY <1>1 DEF TypeOK
<1>3. UNCHANGED <<recs, latest, runs, pc, held, seen, feedback>>  BY DEF Decide, local
<1>4. status' \in Statuses /\ attempt' \in Nat /\ lease' \in Leases /\ errored' \in BOOLEAN
  BY DEF Decide, job, TypeOK, Statuses, Leases
<1> QED  BY <1>2, <1>3, <1>4 DEF TypeOK

\* TypeOK is inductive.
LEMMA TypeStep == TypeOK /\ [Next]_vars => TypeOK'
<1> SUFFICES ASSUME TypeOK, [Next]_vars PROVE TypeOK'  OBVIOUS
<1>1. ASSUME NEW w \in Workers, Progress(w) PROVE TypeOK'  BY <1>1, QueueTypes
<1>2. CASE LeaseOnly  BY <1>2 DEF LeaseOnly, TypeOK, data, local
<1>3. ASSUME NEW w \in Workers, Crash(w) PROVE TypeOK'
  <2>1. Release(w) /\ UNCHANGED <<status, attempt, lease, errored, recs, latest, runs, reviews>>
    BY <1>3 DEF Crash, job, data
  <2> QED  BY <2>1, ReleaseType DEF TypeOK
<1>4. ASSUME NEW t \in Tests, NEW d \in Decisions, Decide(t, d) PROVE TypeOK'
  BY <1>4, DecideType
<1>5. CASE UNCHANGED vars  BY <1>5 DEF vars, job, data, local, TypeOK
<1> QED  BY <1>1, <1>2, <1>3, <1>4, <1>5, LeaseSteps DEF Next

\* The initial row has its type.
LEMMA TypeInit == Init => TypeOK
<1> SUFFICES ASSUME Init PROVE TypeOK  OBVIOUS
<1>1. Nothing \in [Tests -> Outcomes \cup {"NONE"}] /\ Nothing \in [Tests -> Decisions \cup {"NONE"}]
  BY DEF Nothing
<1>2. feedback \in [Workers -> [Tests -> Outcomes \cup {"NONE"}]]
  <2>1. feedback = [w \in Workers |-> Nothing]  BY DEF Init
  <2> QED  BY <1>1, <2>1
<1>3. seen \in [Workers -> [Recs -> Versions \cup {0}]]
  <2>1. seen = [w \in Workers |-> [r \in Recs |-> 0]]  BY DEF Init
  <2> QED  BY <2>1
<1>4. /\ pc \in [Workers -> {"idle", "claimed", "read", "ready"}] /\ held \in [Workers -> Nat]
      /\ latest \in [Recs -> Versions \cup {0}] /\ recs \subseteq Recs
  BY DEF Init
<1>5. /\ status \in Statuses /\ attempt \in Nat /\ lease \in Leases /\ errored \in BOOLEAN
      /\ runs = Nothing /\ reviews = Nothing
  BY DEF Init, Statuses, Leases
<1> QED  BY <1>1, <1>2, <1>3, <1>4, <1>5 DEF TypeOK

\* Rows and workers keep to their types: the versions of a test never exceed
\* the repairs allowed, whichever workers race.
THEOREM TypeCorrect == Spec => []TypeOK
BY TypeInit, TypeStep, PTL DEF Spec

-----------------------------------------------------------------------------
(* What a step can do to the row and to the data. *)

\* The status and the data stay; only the lease or local state may move.
Still == UNCHANGED <<status, data>>

\* A worker moves an open analysis along, by one of the queues' edges.
Edges == {<<"PENDING", "FETCHING_SOURCE">>, <<"FETCHING_SOURCE", "PENDING">>,
  <<"FETCHING_SOURCE", "ANALYZING_CHANGE">>, <<"ANALYZING_CHANGE", "RETRIEVING_CONTEXT">>,
  <<"RETRIEVING_CONTEXT", "RECOMMENDING_TESTS">>,
  <<"RECOMMENDING_TESTS", "RETRIEVING_CONTEXT">>,
  <<"RECOMMENDING_TESTS", "GENERATING_TESTS">>, <<"GENERATING_TESTS", "VALIDATING">>,
  <<"VALIDATING", "REPAIRING">>, <<"VALIDATING", "WAITING_REVIEW">>,
  <<"REPAIRING", "VALIDATING">>, <<"REPAIRING", "WAITING_REVIEW">>}
  \cup {<<s, s>> : s \in ActiveStatus} \cup {<<s, "FAILED">> : s \in ActiveStatus}
Moves == /\ <<status, status'>> \in Edges
         /\ reviews' = reviews \/ reviews' = Nothing

\* A claim moves along the queue's own edge.
LEMMA ClaimMoves ==
  ASSUME NEW w \in Workers, NEW a, NEW b, ClaimNext(w, a, b),
         <<a, b>> \in Edges, <<b, b>> \in Edges
  PROVE  Moves
BY DEF ClaimNext, Claimable, Moves, data

\* A retry goes back to the waiting status, or ends the analysis.
LEMMA RetryMoves ==
  ASSUME NEW w \in Workers, NEW a, NEW b \in ActiveStatus, RetryOrFail(w, a, b),
         <<b, a>> \in Edges
  PROVE  Moves \/ Still
<1>1. UNCHANGED data  BY DEF RetryOrFail
<1>2. <<b, "FAILED">> \in Edges  BY DEF Edges
<1>3. CASE Fenced(w, b) /\ status' = IF attempt < MaxAttempts THEN a ELSE "FAILED"
  BY <1>1, <1>2, <1>3 DEF Fenced, Moves, data
<1>4. CASE UNCHANGED job  BY <1>1, <1>4 DEF Still, job
<1> QED  BY <1>3, <1>4 DEF RetryOrFail

\* A handoff moves along its edge.
LEMMA AdvanceMoves ==
  ASSUME NEW w \in Workers, NEW a, NEW b, Advance(w, a, b), <<a, b>> \in Edges,
         reviews' = reviews \/ reviews' = Nothing
  PROVE  Moves
BY DEF Advance, Fenced, Moves

\* Each queue moves the analysis along its edges or leaves it.
LEMMA QueueMoves ==
  ASSUME NEW w \in Workers, Progress(w)
  PROVE  Moves \/ Still
<1>0. /\ <<"PENDING", "FETCHING_SOURCE">> \in Edges
      /\ <<"FETCHING_SOURCE", "PENDING">> \in Edges
      /\ <<"FETCHING_SOURCE", "ANALYZING_CHANGE">> \in Edges
      /\ <<"ANALYZING_CHANGE", "RETRIEVING_CONTEXT">> \in Edges
      /\ <<"RETRIEVING_CONTEXT", "RECOMMENDING_TESTS">> \in Edges
      /\ <<"RECOMMENDING_TESTS", "RETRIEVING_CONTEXT">> \in Edges
      /\ <<"RECOMMENDING_TESTS", "GENERATING_TESTS">> \in Edges
      /\ <<"GENERATING_TESTS", "VALIDATING">> \in Edges
      /\ <<"VALIDATING", "REPAIRING">> \in Edges /\ <<"VALIDATING", "WAITING_REVIEW">> \in Edges
      /\ <<"REPAIRING", "VALIDATING">> \in Edges /\ <<"REPAIRING", "WAITING_REVIEW">> \in Edges
  BY DEF Edges
<1>00. /\ <<"FETCHING_SOURCE", "FETCHING_SOURCE">> \in Edges
       /\ <<"ANALYZING_CHANGE", "ANALYZING_CHANGE">> \in Edges
       /\ <<"RECOMMENDING_TESTS", "RECOMMENDING_TESTS">> \in Edges
       /\ <<"GENERATING_TESTS", "GENERATING_TESTS">> \in Edges
       /\ <<"VALIDATING", "VALIDATING">> \in Edges /\ <<"REPAIRING", "REPAIRING">> \in Edges
  BY DEF Edges, ActiveStatus
<1>01. /\ "FETCHING_SOURCE" \in ActiveStatus /\ "ANALYZING_CHANGE" \in ActiveStatus
       /\ "RECOMMENDING_TESTS" \in ActiveStatus /\ "GENERATING_TESTS" \in ActiveStatus
       /\ "VALIDATING" \in ActiveStatus /\ "REPAIRING" \in ActiveStatus
  BY DEF ActiveStatus
<1>1. CASE Source(w)
  BY <1>0, <1>00, <1>01, <1>1, ClaimMoves, RetryMoves, AdvanceMoves DEF Source, data
<1>2. CASE Change(w)
  BY <1>0, <1>00, <1>01, <1>2, ClaimMoves, RetryMoves, AdvanceMoves DEF Change, data
<1>3. CASE Recommendation(w)
  <2>1. CASE SaveRecommendations(w)
    BY <1>0, <2>1, AdvanceMoves DEF SaveRecommendations, ClearTests
  <2> QED  BY <1>0, <1>00, <1>01, <1>3, <2>1, ClaimMoves, RetryMoves DEF Recommendation
<1>4. CASE Generation(w)
  <2>1. CASE SaveGenerated(w)  BY <1>0, <2>1, AdvanceMoves DEF SaveGenerated, ClearTests
  <2> QED  BY <1>00, <1>01, <1>4, <2>1, ClaimMoves, RetryMoves DEF Generation
<1>5. ListLatest(w) \/ ListRuns(w) => Still  BY DEF ListLatest, ListRuns, Still, job
<1>6. CASE Validation(w)
  <2>1. CASE SaveValidated(w)
    <3>1. PICK passed \in SUBSET SeenTests(w) :
            /\ Advance(w, "VALIDATING",
                 IF passed = SeenTests(w) THEN "WAITING_REVIEW" ELSE "REPAIRING")
            /\ UNCHANGED reviews
      BY <2>1 DEF SaveValidated
    <3> DEFINE next == IF passed = SeenTests(w) THEN "WAITING_REVIEW" ELSE "REPAIRING"
    <3>2. <<"VALIDATING", next>> \in Edges  BY <1>0
    <3>3. Advance(w, "VALIDATING", next)  BY <3>1
    <3> HIDE DEF next
    <3> QED  BY <3>1, <3>2, <3>3, AdvanceMoves
  <2> QED  BY <1>00, <1>01, <1>5, <1>6, <2>1, ClaimMoves, RetryMoves DEF Validation
<1>7. CASE Repair(w)
  <2>1. CASE SaveRepairs(w)
    <3> DEFINE next == IF ToRepair(w) = {} THEN "WAITING_REVIEW" ELSE "VALIDATING"
    <3>1. Advance(w, "REPAIRING", next) /\ UNCHANGED reviews  BY <2>1 DEF SaveRepairs
    <3>2. <<"REPAIRING", next>> \in Edges  BY <1>0
    <3> HIDE DEF next
    <3> QED  BY <3>1, <3>2, AdvanceMoves
  <2> QED  BY <1>00, <1>01, <1>5, <1>7, <2>1, ClaimMoves, RetryMoves DEF Repair
<1> QED  BY <1>1, <1>2, <1>3, <1>4, <1>6, <1>7 DEF Progress

\* Every step leaves the analysis, moves it along an edge or is a decision.
LEMMA Steps ==
  ASSUME [Next]_vars
  PROVE  Still \/ Moves \/ \E t \in Tests, d \in Decisions : Decide(t, d)
<1>1. ASSUME NEW w \in Workers, Progress(w) PROVE Moves \/ Still  BY <1>1, QueueMoves
<1>2. LeaseOnly => Still  BY DEF LeaseOnly, Still, data
<1>3. \A w \in Workers : Crash(w) => Still  BY DEF Crash, Still, job
<1>4. UNCHANGED vars => Still  BY DEF vars, job, Still
<1> QED  BY <1>1, <1>2, <1>3, <1>4, LeaseSteps DEF Next

-----------------------------------------------------------------------------
(* Verdicts. *)

\* No decision exists before the analysis waits for review; with it the verdict
\* property is inductive.
VerdictInv == VerdictMatchesReviews /\ (status \notin Reviewable => reviews = Nothing)

\* An empty set of decisions satisfies the verdict property while nothing is decided.
LEMMA NoVerdict ==
  ASSUME reviews = Nothing, status \notin {"ACCEPTED", "REJECTED"}
  PROVE  VerdictInv
BY DEF VerdictInv, VerdictMatchesReviews, Nothing

\* A decision keeps the verdict property.
LEMMA DecideVerdict ==
  ASSUME TypeOK, VerdictInv, NEW t \in Tests, NEW d \in Decisions, Decide(t, d)
  PROVE  VerdictInv'
<1>1. status = "WAITING_REVIEW" /\ t \in Newest  BY DEF Decide
<1>2. UNCHANGED <<latest, runs>>  BY DEF Decide
<1>3. Newest' = Newest  BY <1>2 DEF Newest
<1>4. Newest \subseteq Tests  BY DEF Newest, Tests, TypeOK
<1>5. reviews' = [reviews EXCEPT ![t] = d]  BY DEF Decide
<1>6. \A u \in Tests : reviews'[u] = IF u = t THEN d ELSE reviews[u]  BY <1>5 DEF TypeOK
<1>7. \A u \in Tests : reviews'[u] # "NONE" => u \in Newest'
  BY <1>1, <1>3, <1>6 DEF VerdictInv, VerdictMatchesReviews
<1>8. \A u \in Tests : reviews'[u] = "ACCEPTED" => runs'[u] = "PASSED"
  BY <1>2, <1>6 DEF VerdictInv, VerdictMatchesReviews, Decide, Acceptable
<1>9. status' \in Reviewable  BY <1>1 DEF Decide, Reviewable, job
<1>10. CASE \A u \in Newest : reviews'[u] # "NONE"
  <2>1. status' = IF \E u \in Newest : reviews'[u] = "REJECTED" THEN "REJECTED" ELSE "ACCEPTED"
    BY <1>10 DEF Decide
  <2>2. \A u \in Newest : reviews'[u] \in Decisions
    BY <1>4, <1>6, <1>10 DEF TypeOK
  <2>3. status' = "ACCEPTED" => \A u \in Newest' : reviews'[u] = "ACCEPTED"
    BY <1>3, <2>1, <2>2 DEF Decisions
  <2>4. status' = "REJECTED" => /\ \A u \in Newest' : reviews'[u] # "NONE"
                                /\ \E u \in Newest' : reviews'[u] = "REJECTED"
    BY <1>3, <1>10, <2>1
  <2> QED  BY <1>7, <1>8, <1>9, <2>3, <2>4 DEF VerdictInv, VerdictMatchesReviews
<1>11. CASE \E u \in Newest : reviews'[u] = "NONE"
  <2>1. status' = "WAITING_REVIEW"  BY <1>1, <1>11 DEF Decide, job
  <2> QED  BY <1>7, <1>8, <1>9, <2>1 DEF VerdictInv, VerdictMatchesReviews
<1> QED  BY <1>10, <1>11

\* VerdictInv is inductive.
LEMMA VerdictStep == TypeOK /\ VerdictInv /\ [Next]_vars => VerdictInv'
<1> SUFFICES ASSUME TypeOK, VerdictInv, [Next]_vars PROVE VerdictInv'  OBVIOUS
<1>1. CASE Still
  <2>1. UNCHANGED <<status, latest, runs, reviews>>  BY <1>1 DEF Still, data
  <2>2. Newest' = Newest  BY <2>1 DEF Newest
  <2>3. Nothing' = Nothing  BY DEF Nothing
  <2> QED  BY <2>1, <2>2 DEF VerdictInv, VerdictMatchesReviews
<1>2. CASE Moves
  <2>1. status \notin Reviewable /\ status' \notin {"ACCEPTED", "REJECTED"}
    BY <1>2 DEF Moves, Edges, ActiveStatus, Reviewable
  <2>2. reviews' = Nothing  BY <1>2, <2>1 DEF Moves, VerdictInv
  <2> QED  BY <2>1, <2>2 DEF VerdictInv, VerdictMatchesReviews, Nothing
<1>3. ASSUME NEW t \in Tests, NEW d \in Decisions, Decide(t, d) PROVE VerdictInv'
  BY <1>3, DecideVerdict
<1> QED  BY <1>1, <1>2, <1>3, Steps

\* The verdict of an analysis follows from the decisions on its newest tests,
\* and only tests with a passed run were accepted, for any number of workers
\* in every queue and any number of recommendations.
THEOREM Verdict == Spec => []VerdictMatchesReviews
<1>1. Init => VerdictInv  BY NoVerdict DEF Init
<1>2. VerdictInv => VerdictMatchesReviews  BY DEF VerdictInv
<1> QED  BY <1>1, <1>2, TypeInit, TypeStep, VerdictStep, PTL DEF Spec

\* Nothing a reviewer looks at moves, whatever the workers still do.
THEOREM Evidence == Spec => EvidenceFrozen
<1>1. ASSUME [Next]_vars, status \in Reviewable PROVE UNCHANGED <<recs, latest, runs>>
  <2>1. CASE Still  BY <2>1 DEF Still, data
  <2>2. ~Moves  BY <1>1 DEF Moves, Edges, ActiveStatus, Reviewable
  <2>3. ASSUME NEW t \in Tests, NEW d \in Decisions, Decide(t, d)
        PROVE  UNCHANGED <<recs, latest, runs>>
    BY <2>3 DEF Decide
  <2> QED  BY <1>1, <2>1, <2>2, <2>3, Steps
<1>2. [Next]_vars => [(status \in Reviewable) => UNCHANGED <<recs, latest, runs>>]_vars
  BY <1>1
<1> QED  BY <1>2, PTL DEF Spec, EvidenceFrozen

\* A phase that was completed is never entered again, and an analysis that ended
\* stays ended.
THEOREM Forward == Spec => NeverGoesBack
<1> DEFINE Fwd == /\ Rank[status] <= Rank[status']
                  /\ Rank[status] = 6 => status' = status
<1>1. ASSUME TypeOK, [Next]_vars PROVE Fwd
  <2>1. \A s \in Statuses : Rank[s] \in Nat  BY DEF Statuses, Rank
  <2>2. CASE Still  BY <1>1, <2>1, <2>2 DEF Still, TypeOK
  <2>3. CASE Moves  BY <2>3 DEF Moves, Edges, ActiveStatus, Rank
  <2>4. ASSUME NEW t \in Tests, NEW d \in Decisions, Decide(t, d) PROVE Fwd
    <3>1. status = "WAITING_REVIEW" /\ status' \in Reviewable
      BY <2>4 DEF Decide, Reviewable, job
    <3> QED  BY <3>1 DEF Reviewable, Rank
  <2> QED  BY <1>1, <2>2, <2>3, <2>4, Steps
<1>2. TypeOK /\ [Next]_vars => [Fwd]_vars  BY <1>1
<1> QED  BY <1>2, TypeCorrect, PTL DEF Spec, NeverGoesBack

-----------------------------------------------------------------------------
(* One worker per queue. *)

\* One worker process: its goroutines serve different queues.
OnePerQueue == \A v, w \in Workers : Serves[v] = Serves[w] => v = w

ActiveOf == [source |-> "FETCHING_SOURCE", change |-> "ANALYZING_CHANGE",
             recommendation |-> "RECOMMENDING_TESTS", generation |-> "GENERATING_TESTS",
             validation |-> "VALIDATING", repair |-> "REPAIRING"]

\* The row is as the worker's claim left it.
ClaimsCurrent ==
  \A w \in Workers : pc[w] # "idle" => status = ActiveOf[Serves[w]] /\ attempt = held[w]

\* What a worker read is what the tables hold.
ReadsCurrent ==
  \A w \in Workers :
    /\ pc[w] \in {"read", "ready"} => seen[w] = latest
    /\ pc[w] = "ready" /\ Serves[w] = "repair" => feedback[w] = runs

\* An analysis in repair has a run of every newest test.
RepairHasFeedback ==
  status = "REPAIRING" => \A t \in Newest : runs[t] # "NONE"

SingleInv ==
  /\ ClaimsCurrent
  /\ ReadsCurrent
  /\ RepairHasFeedback
  /\ ReviewableIsValidated
  /\ RepairsFollowFailures

\* Queues have different active statuses.
LEMMA ActiveDiffer ==
  ASSUME OnePerQueue, NEW v \in Workers, NEW w \in Workers,
         ActiveOf[Serves[v]] = ActiveOf[Serves[w]]
  PROVE  v = w
<1>1. Serves[v] \in Phases /\ Serves[w] \in Phases  BY ServesAssumption
<1>2. Serves[v] = Serves[w]  BY <1>1 DEF ActiveOf, Phases
<1> QED  BY <1>2 DEF OnePerQueue

\* At most one worker works at any time.
LEMMA OnlyBusy ==
  ASSUME OnePerQueue, ClaimsCurrent, NEW w \in Workers, pc[w] # "idle"
  PROVE  \A v \in Workers : pc[v] # "idle" => v = w
BY ActiveDiffer DEF ClaimsCurrent

AllIdle == \A v \in Workers : pc[v] = "idle"

\* When the one busy worker releases, all are idle.
LEMMA ReleaseIdle ==
  ASSUME TypeOK, OnePerQueue, ClaimsCurrent, NEW w \in Workers, pc[w] # "idle", Release(w)
  PROVE  AllIdle'
BY OnlyBusy DEF Release, AllIdle, TypeOK

\* Idle workers hold nothing that could be stale.
LEMMA IdleCurrent == AllIdle => ClaimsCurrent /\ ReadsCurrent
BY DEF AllIdle, ClaimsCurrent, ReadsCurrent

\* The part of SingleInv about the tables.
DataInv == RepairHasFeedback /\ ReviewableIsValidated /\ RepairsFollowFailures

\* Steps that leave the tables and enter neither repair nor review keep DataInv.
LEMMA DataStays ==
  ASSUME DataInv, UNCHANGED <<latest, runs>>,
         status' = "REPAIRING" => status = "REPAIRING",
         status' \in Reviewable => status \in Reviewable
  PROVE  DataInv'
<1>1. Newest' = Newest  BY DEF Newest
<1> QED  BY <1>1 DEF DataInv, RepairHasFeedback, ReviewableIsValidated, RepairsFollowFailures, Reviewable

\* A claim finds every worker idle.
LEMMA ClaimSingle ==
  ASSUME TypeOK, OnePerQueue, SingleInv, NEW w \in Workers, NEW a, ClaimNext(w, a, ActiveOf[Serves[w]]),
         \A p \in Phases : ActiveOf[p] = a => p = Serves[w],
         ActiveOf[Serves[w]] = "REPAIRING" => a = "REPAIRING",
         ActiveOf[Serves[w]] \notin Reviewable
  PROVE  SingleInv'
<1> DEFINE b == ActiveOf[Serves[w]]
<1>1. status \in {a, b} /\ pc[w] = "idle"  BY DEF ClaimNext, Claimable
<1>2. ASSUME NEW v \in Workers, pc[v] # "idle" PROVE FALSE
  <2>1. ActiveOf[Serves[v]] \in {a, b}  BY <1>1, <1>2 DEF SingleInv, ClaimsCurrent
  <2>2. CASE ActiveOf[Serves[v]] = b  BY <1>1, <1>2, <2>2, ActiveDiffer
  <2>3. CASE ActiveOf[Serves[v]] = a
    <3>1. Serves[v] = Serves[w]  BY <2>3, ServesAssumption
    <3> QED  BY <1>1, <1>2, <3>1 DEF OnePerQueue
  <2> QED  BY <2>1, <2>2, <2>3
<1>3. \A v \in Workers : pc'[v] # "idle" => v = w /\ pc'[v] = "claimed"
  BY <1>2 DEF ClaimNext, TypeOK
<1>4. status' = b /\ attempt' = held'[w]  BY DEF ClaimNext, TypeOK
<1>5. ClaimsCurrent' /\ ReadsCurrent'  BY <1>3, <1>4 DEF ClaimsCurrent, ReadsCurrent
<1>6. DataInv'
  <2>1. UNCHANGED <<latest, runs>>  BY DEF ClaimNext, data
  <2>2. (status' = "REPAIRING" => status = "REPAIRING") /\ status' \notin Reviewable
    BY <1>1, <1>4
  <2> QED  BY <2>1, <2>2, DataStays DEF SingleInv, DataInv
<1> QED  BY <1>5, <1>6 DEF SingleInv, DataInv

\* So does a retry or a failure.
LEMMA RetrySingle ==
  ASSUME TypeOK, OnePerQueue, SingleInv, NEW w \in Workers, NEW a, NEW b, RetryOrFail(w, a, b),
         a = "REPAIRING" => b = "REPAIRING", a \notin Reviewable
  PROVE  SingleInv'
<1>1. AllIdle'  BY ReleaseIdle DEF RetryOrFail, SingleInv
<1>2. UNCHANGED <<latest, runs>>  BY DEF RetryOrFail, data
<1>3. /\ status' = "REPAIRING" => status = "REPAIRING"
      /\ status' \in Reviewable => status \in Reviewable
  BY DEF RetryOrFail, job, Fenced, Reviewable
<1>4. DataInv'  BY <1>2, <1>3, DataStays DEF SingleInv, DataInv
<1>5. ClaimsCurrent' /\ ReadsCurrent'  BY <1>1 DEF AllIdle, ClaimsCurrent, ReadsCurrent
<1> QED  BY <1>4, <1>5 DEF SingleInv, DataInv

\* A handoff leaves every worker idle; what is left to show is about the tables.
LEMMA AdvanceSingle ==
  ASSUME TypeOK, OnePerQueue, SingleInv, NEW w \in Workers, NEW a, NEW b, Advance(w, a, b), DataInv'
  PROVE  SingleInv'
<1>1. AllIdle'  BY ReleaseIdle DEF Advance, SingleInv
<1>2. ClaimsCurrent' /\ ReadsCurrent'  BY <1>1 DEF AllIdle, ClaimsCurrent, ReadsCurrent
<1> QED  BY <1>2 DEF SingleInv, DataInv

\* The components of a test.
LEMMA TestParts ==
  ASSUME NEW t \in Tests
  PROVE  t[1] \in Recs /\ t[2] \in Versions /\ t = <<t[1], t[2]>> /\ t[2] \in Nat /\ t[2] >= 1
BY MaxRepairsAssumption DEF Tests, Versions

\* First versions supersede nothing.
LEMMA FirstVersions ==
  ASSUME latest' \in [Recs -> {0, 1}], status' \notin Reviewable, status' # "REPAIRING"
  PROVE  DataInv'
<1>1. \A t \in Tests : ~(t[2] < latest'[t[1]])
  <2> TAKE t \in Tests
  <2>1. latest'[t[1]] \in {0, 1} /\ t[2] \in Nat /\ t[2] >= 1  BY TestParts
  <2> QED  BY <2>1
<1> QED  BY <1>1 DEF DataInv, RepairHasFeedback, ReviewableIsValidated, RepairsFollowFailures, Reviewable

\* A validator that is alone saw the newest tests, so its runs are theirs.
LEMMA ValidatedSingle ==
  ASSUME TypeOK, OnePerQueue, SingleInv, NEW w \in Workers, SaveValidated(w)
  PROVE  SingleInv'
<1>1. PICK passed \in SUBSET SeenTests(w) :
        /\ runs' = Upserted(w, passed)
        /\ Advance(w, "VALIDATING",
             IF passed = SeenTests(w) THEN "WAITING_REVIEW" ELSE "REPAIRING")
        /\ UNCHANGED latest
  BY DEF SaveValidated
<1>2. seen[w] = latest  BY DEF SingleInv, ReadsCurrent, SaveValidated
<1>3. SeenTests(w) = Newest /\ Newest' = Newest  BY <1>1, <1>2 DEF SeenTests, Newest
<1>4. Newest \subseteq Tests  BY DEF Newest, Tests, TypeOK
<1>5. \A t \in Tests : runs'[t] = IF t \in passed THEN "PASSED"
                                 ELSE IF t \in Newest THEN "FAILED" ELSE runs[t]
  BY <1>1, <1>3 DEF Upserted
<1>6. RepairHasFeedback'  BY <1>3, <1>4, <1>5 DEF RepairHasFeedback
<1>7. RepairsFollowFailures'
  <2> SUFFICES ASSUME NEW t \in Tests, t[2] < latest[t[1]] PROVE runs'[t] = "FAILED"
    BY <1>1 DEF RepairsFollowFailures
  <2>1. runs[t] = "FAILED"  BY DEF SingleInv, RepairsFollowFailures
  <2>2. t \notin Newest
    <3> SUFFICES ASSUME t \in Newest PROVE FALSE  OBVIOUS
    <3>1. t[2] = latest[t[1]]  BY DEF Newest
    <3>2. t[2] \in Nat  BY TestParts
    <3> QED  BY <3>1, <3>2
  <2> QED  BY <1>3, <1>5, <2>1, <2>2
<1>8. ReviewableIsValidated'
  <2> SUFFICES ASSUME status' \in Reviewable, NEW t \in Newest PROVE runs'[t] = "PASSED"
    BY <1>3 DEF ReviewableIsValidated, Reviewable
  <2>1. passed = SeenTests(w)
    BY <1>1 DEF Advance, Reviewable
  <2> QED  BY <1>3, <1>4, <1>5, <2>1
<1>9. DataInv'  BY <1>6, <1>7, <1>8 DEF DataInv
<1> QED  BY <1>1, <1>9, AdvanceSingle

\* A repairer that is alone read the newest tests and their runs.
LEMMA RepairedSingle ==
  ASSUME TypeOK, OnePerQueue, SingleInv, NEW w \in Workers, Serves[w] = "repair", SaveRepairs(w)
  PROVE  SingleInv'
<1>1. /\ pc[w] = "ready"
      /\ \A t \in SeenTests(w) : feedback[w][t] # "NONE"
      /\ \A r \in ToRepair(w) : latest[r] = seen[w][r] /\ runs[<<r, latest[r]>>] = "FAILED"
      /\ latest' = [r \in Recs |-> IF r \in ToRepair(w) THEN latest[r] + 1 ELSE latest[r]]
      /\ Advance(w, "REPAIRING", IF ToRepair(w) = {} THEN "WAITING_REVIEW" ELSE "VALIDATING")
      /\ runs' = runs
  BY DEF SaveRepairs
<1>2. seen[w] = latest /\ feedback[w] = runs  BY <1>1 DEF SingleInv, ReadsCurrent
<1>3. SeenTests(w) = Newest  BY <1>2 DEF SeenTests, Newest
<1>4. RepairHasFeedback'  BY <1>1 DEF RepairHasFeedback, Advance
<1>5. RepairsFollowFailures'
  <2> SUFFICES ASSUME NEW t \in Tests, t[2] < latest'[t[1]] PROVE runs[t] = "FAILED"
    BY <1>1 DEF RepairsFollowFailures
  <2>1. t[1] \in Recs /\ t = <<t[1], t[2]>> /\ t[2] \in Nat  BY TestParts
  <2>2. latest[t[1]] \in Nat  BY <2>1, MaxRepairsAssumption DEF TypeOK, Versions
  <2>3. CASE t[2] < latest[t[1]]  BY <2>3 DEF SingleInv, RepairsFollowFailures
  <2>4. CASE ~(t[2] < latest[t[1]])
    <3>1. t[1] \in ToRepair(w) /\ t[2] = latest[t[1]]  BY <1>1, <2>1, <2>2, <2>4
    <3> QED  BY <1>1, <2>1, <3>1
  <2> QED  BY <2>3, <2>4
<1>6. ReviewableIsValidated'
  <2> SUFFICES ASSUME status' \in Reviewable, NEW t \in Newest'
               PROVE  runs[t] = "PASSED" \/ (runs[t] = "FAILED" /\ t[2] = MaxRepairs + 1)
    BY <1>1 DEF ReviewableIsValidated
  <2>1. ToRepair(w) = {}  BY <1>1 DEF Advance, Reviewable
  <2>2. latest' = latest  BY <1>1, <2>1 DEF TypeOK
  <2>3. PICK r \in Recs : latest[r] > 0 /\ t = <<r, latest[r]>>  BY <2>2 DEF Newest
  <2>4. latest[r] \in Versions  BY <2>3 DEF TypeOK
  <2>5. t \in Tests  BY <2>3, <2>4 DEF Tests
  <2>6. runs[t] \in Outcomes
    <3>1. t \in Newest  BY <2>2 DEF Newest
    <3>2. runs[t] # "NONE"  BY <1>1, <1>2, <1>3, <3>1
    <3>3. runs[t] \in Outcomes \cup {"NONE"}  BY <2>5 DEF TypeOK
    <3> QED  BY <3>2, <3>3
  <2>7. CASE runs[t] = "FAILED"
    <3>1. ~(latest[r] \in 1 .. MaxRepairs)  BY <1>2, <2>1, <2>3, <2>7 DEF ToRepair
    <3>2. latest[r] = MaxRepairs + 1  BY <2>4, <3>1, MaxRepairsAssumption DEF Versions
    <3>3. t[2] = latest[r]  BY <2>3
    <3> QED  BY <2>7, <3>2, <3>3
  <2> QED  BY <2>6, <2>7 DEF Outcomes
<1>7. DataInv'  BY <1>4, <1>5, <1>6 DEF DataInv
<1> QED  BY <1>1, <1>7, AdvanceSingle

\* Reading the tables makes a worker's view current.
LEMMA ReadsSingle ==
  ASSUME TypeOK, OnePerQueue, SingleInv, NEW w \in Workers, ListLatest(w) \/ ListRuns(w)
  PROVE  SingleInv'
<1>1. UNCHANGED <<status, attempt, latest, runs, held>>
  BY DEF ListLatest, ListRuns, job, data
<1>2. DataInv'  BY <1>1, DataStays DEF SingleInv, DataInv
<1>3. ClaimsCurrent'
  <2>1. \A v \in Workers : pc'[v] # "idle" => pc[v] # "idle"
    BY DEF ListLatest, ListRuns, TypeOK
  <2> QED  BY <1>1, <2>1 DEF SingleInv, ClaimsCurrent
<1>4. ReadsCurrent'
  <2>1. CASE ListLatest(w)
    <3>1. \A v \in Workers : /\ seen'[v] = IF v = w THEN latest ELSE seen[v]
                             /\ v # w => pc'[v] = pc[v]
                             /\ pc'[w] = "ready" => Serves[w] # "repair"
                             /\ feedback'[v] = feedback[v]
      BY <2>1 DEF ListLatest, TypeOK
    <3> QED  BY <1>1, <3>1 DEF SingleInv, ReadsCurrent
  <2>2. CASE ListRuns(w)
    <3>1. \A v \in Workers : /\ feedback'[v] = IF v = w THEN runs ELSE feedback[v]
                             /\ v # w => pc'[v] = pc[v]
                             /\ pc[w] = "read"
                             /\ seen'[v] = seen[v]
      BY <2>2 DEF ListRuns, TypeOK
    <3> QED  BY <1>1, <3>1 DEF SingleInv, ReadsCurrent
  <2> QED  BY <2>1, <2>2
<1> QED  BY <1>2, <1>3, <1>4 DEF SingleInv, DataInv

\* The early handoffs touch neither tests nor runs.
LEMMA EarlyHandoff ==
  ASSUME TypeOK, OnePerQueue, SingleInv, NEW w \in Workers, NEW a, NEW b, Advance(w, a, b),
         UNCHANGED data, b # "REPAIRING", b \notin Reviewable
  PROVE  SingleInv'
<1>1. DataInv'  BY DataStays DEF SingleInv, DataInv, Advance, data
<1> QED  BY <1>1, AdvanceSingle

\* Every queue keeps SingleInv when each has one worker.
LEMMA QueueSingle ==
  ASSUME TypeOK, OnePerQueue, SingleInv, NEW w \in Workers, Progress(w)
  PROVE  SingleInv'
<1> USE DEF Reviewable
<1>1. CASE Source(w)
  <2>1. Serves[w] = "source" /\ ActiveOf["source"] = "FETCHING_SOURCE"
        /\ \A p \in Phases : ActiveOf[p] = "PENDING" => p = "source"
    BY <1>1 DEF Source, ActiveOf, Phases
  <2>2. CASE ClaimNext(w, "PENDING", "FETCHING_SOURCE")  BY <2>1, <2>2, ClaimSingle
  <2>3. CASE RetryOrFail(w, "PENDING", "FETCHING_SOURCE")  BY <2>3, RetrySingle
  <2>4. CASE Advance(w, "FETCHING_SOURCE", "ANALYZING_CHANGE") /\ UNCHANGED data
    BY <2>4, EarlyHandoff
  <2> QED  BY <1>1, <2>2, <2>3, <2>4 DEF Source
<1>2. CASE Change(w)
  <2>1. Serves[w] = "change" /\ ActiveOf["change"] = "ANALYZING_CHANGE"
        /\ \A p \in Phases : ActiveOf[p] = "ANALYZING_CHANGE" => p = "change"
    BY <1>2 DEF Change, ActiveOf, Phases
  <2>2. CASE ClaimNext(w, "ANALYZING_CHANGE", "ANALYZING_CHANGE")  BY <2>1, <2>2, ClaimSingle
  <2>3. CASE RetryOrFail(w, "ANALYZING_CHANGE", "ANALYZING_CHANGE")  BY <2>3, RetrySingle
  <2>4. CASE Advance(w, "ANALYZING_CHANGE", "RETRIEVING_CONTEXT") /\ UNCHANGED data
    BY <2>4, EarlyHandoff
  <2> QED  BY <1>2, <2>2, <2>3, <2>4 DEF Change
<1>3. CASE Recommendation(w)
  <2>1. Serves[w] = "recommendation" /\ ActiveOf["recommendation"] = "RECOMMENDING_TESTS"
        /\ \A p \in Phases : ActiveOf[p] = "RETRIEVING_CONTEXT" => p = "recommendation"
    BY <1>3 DEF Recommendation, ActiveOf, Phases
  <2>2. CASE ClaimNext(w, "RETRIEVING_CONTEXT", "RECOMMENDING_TESTS")  BY <2>1, <2>2, ClaimSingle
  <2>3. CASE RetryOrFail(w, "RETRIEVING_CONTEXT", "RECOMMENDING_TESTS")  BY <2>3, RetrySingle
  <2>4. CASE SaveRecommendations(w)
    <3>1. Advance(w, "RECOMMENDING_TESTS", "GENERATING_TESTS") /\ latest' = [r \in Recs |-> 0]
      BY <2>4 DEF SaveRecommendations
    <3>2. DataInv'
      <4>1. latest' \in [Recs -> {0, 1}]  BY <3>1
      <4>2. status' = "GENERATING_TESTS"  BY <3>1 DEF Advance
      <4> QED  BY <4>1, <4>2, FirstVersions
    <3> QED  BY <3>1, <3>2, AdvanceSingle
  <2> QED  BY <1>3, <2>2, <2>3, <2>4 DEF Recommendation
<1>4. CASE Generation(w)
  <2>1. Serves[w] = "generation" /\ ActiveOf["generation"] = "GENERATING_TESTS"
        /\ \A p \in Phases : ActiveOf[p] = "GENERATING_TESTS" => p = "generation"
    BY <1>4 DEF Generation, ActiveOf, Phases
  <2>2. CASE ClaimNext(w, "GENERATING_TESTS", "GENERATING_TESTS")  BY <2>1, <2>2, ClaimSingle
  <2>3. CASE RetryOrFail(w, "GENERATING_TESTS", "GENERATING_TESTS")  BY <2>3, RetrySingle
  <2>4. CASE SaveGenerated(w)
    <3>1. /\ Advance(w, "GENERATING_TESTS", "VALIDATING")
          /\ latest' = [r \in Recs |-> IF r \in recs THEN 1 ELSE 0]
      BY <2>4 DEF SaveGenerated
    <3>2. DataInv'
      <4>1. latest' \in [Recs -> {0, 1}]  BY <3>1
      <4>2. status' = "VALIDATING"  BY <3>1 DEF Advance
      <4> QED  BY <4>1, <4>2, FirstVersions
    <3> QED  BY <3>1, <3>2, AdvanceSingle
  <2> QED  BY <1>4, <2>2, <2>3, <2>4 DEF Generation
<1>5. CASE Validation(w)
  <2>1. Serves[w] = "validation" /\ ActiveOf["validation"] = "VALIDATING"
        /\ \A p \in Phases : ActiveOf[p] = "VALIDATING" => p = "validation"
    BY <1>5 DEF Validation, ActiveOf, Phases
  <2>2. CASE ClaimNext(w, "VALIDATING", "VALIDATING")  BY <2>1, <2>2, ClaimSingle
  <2>3. CASE RetryOrFail(w, "VALIDATING", "VALIDATING")  BY <2>3, RetrySingle
  <2> QED  BY <1>5, <2>2, <2>3, ReadsSingle, ValidatedSingle DEF Validation
<1>6. CASE Repair(w)
  <2>1. Serves[w] = "repair" /\ ActiveOf["repair"] = "REPAIRING"
        /\ \A p \in Phases : ActiveOf[p] = "REPAIRING" => p = "repair"
    BY <1>6 DEF Repair, ActiveOf, Phases
  <2>2. CASE ClaimNext(w, "REPAIRING", "REPAIRING")  BY <2>1, <2>2, ClaimSingle
  <2>3. CASE RetryOrFail(w, "REPAIRING", "REPAIRING")  BY <2>3, RetrySingle
  <2> QED  BY <1>6, <2>1, <2>2, <2>3, ReadsSingle, RepairedSingle DEF Repair
<1> QED  BY <1>1, <1>2, <1>3, <1>4, <1>5, <1>6 DEF Progress

\* SingleInv is inductive when every queue has one worker.
LEMMA SingleStep ==
  ASSUME OnePerQueue
  PROVE  TypeOK /\ SingleInv /\ [Next]_vars => SingleInv'
<1> SUFFICES ASSUME TypeOK, SingleInv, [Next]_vars PROVE SingleInv'  OBVIOUS
<1>1. ASSUME NEW w \in Workers, Progress(w) PROVE SingleInv'  BY <1>1, QueueSingle
<1>2. CASE LeaseOnly
  <2>1. UNCHANGED <<status, attempt, latest, runs, pc, held, seen, feedback>>
    BY <1>2 DEF LeaseOnly, data, local
  <2>2. DataInv'  BY <2>1, DataStays DEF SingleInv, DataInv
  <2> QED  BY <2>1, <2>2 DEF SingleInv, DataInv, ClaimsCurrent, ReadsCurrent
<1>3. ASSUME NEW w \in Workers, Crash(w) PROVE SingleInv'
  <2>1. AllIdle'  BY <1>3, ReleaseIdle DEF Crash, SingleInv
  <2>2. DataInv'  BY <1>3, DataStays DEF Crash, job, data, SingleInv, DataInv
  <2>3. ClaimsCurrent' /\ ReadsCurrent'  BY <2>1 DEF AllIdle, ClaimsCurrent, ReadsCurrent
  <2> QED  BY <2>2, <2>3 DEF SingleInv, DataInv
<1>4. ASSUME NEW t \in Tests, NEW d \in Decisions, Decide(t, d) PROVE SingleInv'
  <2>1. status = "WAITING_REVIEW" /\ status' \in Reviewable /\ status' # "REPAIRING"
        /\ UNCHANGED <<latest, runs, pc, held, seen, feedback>>
    BY <1>4 DEF Decide, Reviewable, job, local
  <2>2. DataInv'  BY <2>1, DataStays DEF SingleInv, DataInv, Reviewable
  <2>3. AllIdle
    <3>1. \A p \in Phases : ActiveOf[p] # "WAITING_REVIEW"  BY DEF ActiveOf, Phases
    <3> QED  BY <2>1, <3>1, ServesAssumption DEF SingleInv, ClaimsCurrent, AllIdle
  <2>4. ClaimsCurrent' /\ ReadsCurrent'  BY <2>1, <2>3 DEF AllIdle, ClaimsCurrent, ReadsCurrent
  <2> QED  BY <2>2, <2>4 DEF SingleInv, DataInv
<1>5. CASE UNCHANGED vars
  BY <1>5 DEF vars, job, data, local, SingleInv, ClaimsCurrent, ReadsCurrent, RepairHasFeedback,
              ReviewableIsValidated, RepairsFollowFailures, Newest
<1> QED  BY <1>1, <1>2, <1>3, <1>4, <1>5, LeaseSteps DEF Next

\* No test, no run, no claim.
LEMMA SingleInit == Init => SingleInv
<1> SUFFICES ASSUME Init PROVE SingleInv  OBVIOUS
<1>1. AllIdle  BY DEF Init, AllIdle
<1>2. status = "PENDING" /\ latest = [r \in Recs |-> 0]  BY DEF Init
<1>3. \A t \in Tests : ~(t[2] < latest[t[1]])
  <2> TAKE t \in Tests
  <2>1. latest[t[1]] = 0 /\ t[2] \in Nat /\ t[2] >= 1  BY <1>2, TestParts
  <2> QED  BY <2>1
<1> QED  BY <1>1, <1>2, <1>3, IdleCurrent
         DEF SingleInv, RepairHasFeedback, ReviewableIsValidated, RepairsFollowFailures, Reviewable

\* With one worker process, what reaches a reviewer was validated in its newest
\* version, and passed unless the repairs are used up.
THEOREM Validated ==
  ASSUME OnePerQueue
  PROVE  Spec => []ReviewableIsValidated
<1>1. SingleInv => ReviewableIsValidated  BY DEF SingleInv
<1> QED  BY <1>1, TypeInit, TypeStep, SingleInit, SingleStep, PTL DEF Spec

\* With one worker process, every superseded version keeps the failed run that
\* the repair was made for.
THEOREM RepairHistory ==
  ASSUME OnePerQueue
  PROVE  Spec => []RepairsFollowFailures
<1>1. SingleInv => RepairsFollowFailures  BY DEF SingleInv
<1> QED  BY <1>1, TypeInit, TypeStep, SingleInit, SingleStep, PTL DEF Spec

-----------------------------------------------------------------------------
(* The scope.                                                               *)

Pinned(b) == b.release \in DOMAIN Contents /\ b.mode \in SelectionModes

\* What a request has read is a baseline of a release, its event a job; what a
\* project pins is one, too.
RequestsTyped ==
    /\ published \in DOMAIN Contents
    /\ DOMAIN project = {"legacy", "baseline"}
    /\ project.baseline # NoBaseline => Pinned(project.baseline)
    /\ DOMAIN delivery = Delivery
    /\ \A d \in Delivery :
          /\ DOMAIN delivery[d] \in {{"phase", "baseline"}, {"phase", "event", "baseline"}}
          /\ delivery[d].phase \in {"enqueued", "read"} =>
                delivery[d].event \in DOMAIN jobs /\ "event" \in DOMAIN delivery[d]
          /\ delivery[d].phase = "read" => Pinned(delivery[d].baseline)
JobsTyped == \A e \in DOMAIN jobs : jobs[e] \subseteq Identifier
ScopesNarrowed == \A e \in DOMAIN snapshot : e \in DOMAIN jobs /\ NarrowedByTrace(snapshot[e], jobs[e])

ScopeInv == RequestsTyped /\ JobsTyped /\ ScopesNarrowed

\* What ScopesStand says of one step.
Stands == \A e \in DOMAIN snapshot : e \in DOMAIN snapshot' /\ snapshot'[e] = snapshot[e]

-----------------------------------------------------------------------------
\* A key that an identifier names is one it is equal to or leads to.
LEMMA MatchesIsPrefix ==
  ASSUME NEW id \in Identifier, NEW key
  PROVE  Matches(id, key) <=> IsPrefix(id, key)
<1>1. Len(id) <= Len(id)  BY IdentifierAssumption
<1> QED  BY <1>1 DEF Matches, IsPrefix, IsStrictPrefix

\* The selection from any identifiers leaves out what they do not name, and
\* selects a case that they name unless it selects the whole release.
LEMMA Narrowed ==
  ASSUME NEW b, Pinned(b), NEW ids \in SUBSET Identifier
  PROVE  NarrowedByTrace(ScopeOf(b, ids), ids)
<1> DEFINE keys == MatchedKeys(ids, b.release)
           selected == IF b.mode = "FULL_APPROVED" THEN {} ELSE TracedTo(keys, b.release)
           scope == ScopeOf(b, ids)
<1> SUFFICES NarrowedByTrace(scope, ids)  OBVIOUS
<1>1. Contents[b.release] # {} /\ Contents[b.release] \subseteq DOMAIN Traced
  <2>1. Contents[b.release] \in SUBSET DOMAIN Traced
    BY ContentsAssumption, ElementOfSeq, LenProperties DEF Pinned
  <2> QED  BY <2>1, ContentsAssumption DEF Pinned
<1>2. /\ scope.release = b.release
      /\ scope.included = IF selected # {} THEN selected ELSE Contents[b.release]
  BY DEF ScopeOf, Fallback
<1>3. \A c \in Contents[b.release] : Traced[c] \cap keys = Traced[c] \cap Named(ids)
  BY <1>1, MatchesIsPrefix DEF MatchedKeys, Named
<1>4. CASE selected = {}
  <2> HIDE DEF selected, scope
  <2> QED  BY <1>1, <1>2, <1>4 DEF NarrowedByTrace
<1>5. CASE selected # {}
  <2>1. selected = TracedTo(keys, b.release)  BY <1>5
  <2> HIDE DEF selected, keys, scope
  <2>2. selected = {c \in Contents[b.release] : Traced[c] \cap Named(ids) # {}}
    BY <1>3, <2>1 DEF TracedTo
  <2>3. scope.included = selected  BY <1>2, <1>5
  <2> QED  BY <1>2, <1>5, <2>2, <2>3 DEF NarrowedByTrace
<1> QED  BY <1>4, <1>5

\* There are no jobs and no scopes at first.
LEMMA ScopeStarts == ScopeInit => ScopeInv
<1> SUFFICES ASSUME ScopeInit PROVE ScopeInv  OBVIOUS
<1>1. 1 \in DOMAIN Contents
  <2>1. Len(Contents) \in Nat /\ DOMAIN Contents = 1..Len(Contents) /\ Len(Contents) # 0
    BY ContentsAssumption, LenProperties, EmptySeq
  <2> QED  BY <2>1
<1>2. RequestsTyped  BY <1>1 DEF ScopeInit, RequestsTyped, NoRequest
<1> QED  BY <1>2 DEF ScopeInit, ScopeInv, JobsTyped, ScopesNarrowed

-----------------------------------------------------------------------------
\* A step that leaves the scopes and the jobs alone.
LEMMA ScopesLeft ==
  ASSUME ScopeInv, UNCHANGED <<jobs, snapshot>>, RequestsTyped'
  PROVE  ScopeInv' /\ Stands
BY DEF ScopeInv, JobsTyped, ScopesNarrowed, Stands

\* An event that is known keeps its job; one that is not has no scope yet.
LEMMA Enqueues ==
  ASSUME ScopeInv, NEW d \in Delivery, NEW e \in Event, NEW ids \in SUBSET Identifier, Enqueue(d, e, ids)
  PROVE  ScopeInv' /\ Stands
<1>1. /\ jobs' = [x \in DOMAIN jobs \cup {e} |-> IF x \in DOMAIN jobs THEN jobs[x] ELSE ids]
      /\ delivery' = [delivery EXCEPT ![d] = Waiting(e)]
      /\ UNCHANGED <<published, project, snapshot>>
  BY DEF Enqueue
<1>2. RequestsTyped'  BY <1>1 DEF ScopeInv, RequestsTyped, Waiting, Pinned
<1>3. JobsTyped'  BY <1>1 DEF ScopeInv, JobsTyped
<1>4. ScopesNarrowed'  BY <1>1 DEF ScopeInv, ScopesNarrowed
<1> QED  BY <1>1, <1>2, <1>3, <1>4 DEF ScopeInv, Stands

\* A scope is written once, from what its event names.
LEMMA ScopeSaved ==
  ASSUME ScopeInv, NEW d \in Delivery, SaveScope(d)
  PROVE  ScopeInv' /\ Stands
<1> DEFINE e == delivery[d].event
           b == delivery[d].baseline
<1>1. /\ e \notin DOMAIN snapshot
      /\ snapshot' = [x \in DOMAIN snapshot \cup {e} |-> IF x = e THEN ScopeOf(b, jobs[e]) ELSE snapshot[x]]
      /\ delivery' = [delivery EXCEPT ![d] = NoRequest]
      /\ UNCHANGED <<published, project, jobs>>
  BY DEF SaveScope, Unscoped
<1>2. e \in DOMAIN jobs /\ Pinned(b) /\ jobs[e] \subseteq Identifier
  BY DEF SaveScope, ScopeInv, RequestsTyped, JobsTyped
<1> HIDE DEF e, b
<1>3. RequestsTyped'  BY <1>1 DEF ScopeInv, RequestsTyped, NoRequest, Pinned
<1>4. NarrowedByTrace(ScopeOf(b, jobs[e]), jobs[e])  BY <1>2, Narrowed
<1>5. ScopesNarrowed'
  BY <1>1, <1>2, <1>4 DEF ScopeInv, ScopesNarrowed
<1> QED  BY <1>1, <1>3, <1>5 DEF ScopeInv, JobsTyped, Stands

\* Every step keeps the invariant and lets the scopes stand.
LEMMA ScopeSteps ==
  ASSUME ScopeInv, [ScopeNext]_scopeVars
  PROVE  ScopeInv' /\ [Stands]_scopeVars
<1> USE DEF ScopeInv, RequestsTyped, Pinned
<1>1. ASSUME NEW d \in Delivery, NEW e \in Event, NEW ids \in SUBSET Identifier, Enqueue(d, e, ids)
      PROVE  ScopeInv' /\ Stands
  BY <1>1, Enqueues
<1>2. ASSUME NEW d \in Delivery, ReadBaseline(d) PROVE ScopeInv' /\ Stands
  <2>1. UNCHANGED <<published, project, jobs, snapshot>>  BY <1>2 DEF ReadBaseline
  <2>2. RequestsTyped'
    BY <1>2 DEF ReadBaseline, Pinnable, NoRequest
  <2> QED  BY <2>1, <2>2, ScopesLeft
<1>3. ASSUME NEW d \in Delivery, SaveScope(d) PROVE ScopeInv' /\ Stands
  BY <1>3, ScopeSaved
<1>4. ASSUME NEW d \in Delivery, DeliveryFails(d) PROVE ScopeInv' /\ Stands
  <2>1. UNCHANGED <<published, project, jobs, snapshot>>  BY <1>4 DEF DeliveryFails
  <2>2. RequestsTyped'  BY <1>4 DEF DeliveryFails, NoRequest
  <2> QED  BY <2>1, <2>2, ScopesLeft
<1>5. ASSUME NEW n \in 1..published, NEW mode \in SelectionModes, Select(n, mode)
      PROVE  ScopeInv' /\ Stands
  <2>1. UNCHANGED <<published, jobs, delivery, snapshot>>  BY <1>5 DEF Select
  <2>2. n \in DOMAIN Contents
    BY ContentsAssumption, LenProperties
  <2>3. RequestsTyped'  BY <1>5, <2>1, <2>2 DEF Select
  <2> QED  BY <2>1, <2>3, ScopesLeft
<1>6. ASSUME NEW legacy \in BOOLEAN, SetPipelineMode(legacy) PROVE ScopeInv' /\ Stands
  <2>1. UNCHANGED <<published, jobs, delivery, snapshot>>  BY <1>6 DEF SetPipelineMode
  <2>2. RequestsTyped'  BY <1>6, <2>1 DEF SetPipelineMode
  <2> QED  BY <2>1, <2>2, ScopesLeft
<1>7. ASSUME PublishNext PROVE ScopeInv' /\ Stands
  <2>1. UNCHANGED <<project, jobs, delivery, snapshot>>  BY <1>7 DEF PublishNext
  <2>2. published' \in DOMAIN Contents
    BY <1>7, ContentsAssumption, LenProperties DEF PublishNext
  <2>3. RequestsTyped'  BY <2>1, <2>2
  <2> QED  BY <2>1, <2>3, ScopesLeft
<1>8. ASSUME NEW now \in BOOLEAN, SetActive(now) PROVE ScopeInv' /\ Stands
  <2>1. UNCHANGED <<published, project, jobs, delivery, snapshot>>  BY <1>8 DEF SetActive
  <2> QED  BY <2>1, ScopesLeft
<1>9. CASE UNCHANGED scopeVars
  <2>1. UNCHANGED <<published, project, jobs, delivery, snapshot>>  BY <1>9 DEF scopeVars
  <2> QED  BY <1>9, <2>1, ScopesLeft
<1> QED  BY <1>1, <1>2, <1>3, <1>4, <1>5, <1>6, <1>7, <1>8, <1>9 DEF ScopeNext

\* What was pinned for an analysis is of its job, leaves out no case that the
\* event names, and is never changed by a later delivery or baseline.
THEOREM Scopes == ScopeSpec => ScopesStand
<1>1. ScopeInit => ScopeInv  BY ScopeStarts
<1>2. ScopeInv /\ [ScopeNext]_scopeVars => ScopeInv' /\ [Stands]_scopeVars  BY ScopeSteps
<1>3. ScopeSpec => []ScopesNarrowed /\ [][Stands]_scopeVars
  BY <1>1, <1>2, PTL DEF ScopeSpec, ScopeInv
<1> QED  BY <1>3 DEF ScopesStand, ScopesNarrowed, Stands

-----------------------------------------------------------------------------
(* The index.                                                               *)

Hashes == {ContentHash(c) : c \in ChunkContent}
IndexerRow == [pc : {"idle", "list", "fetch", "embed", "save"}, generation : Nat, attempt : Nat,
               left : SUBSET File, drafts : [File -> ChunkContent],
               prints : [File -> [hash : Hashes, model : Models] \cup {None}],
               vectors : [File -> Vector \cup {None}]]
IndexRowsTyped ==
    /\ index \in [status : {"NOT_INDEXED", "PENDING", "INDEXING", "READY", "FAILED"}, generation : Nat,
                  attempt : Nat, lease : {"none", "live", "expired"}, errored : BOOLEAN,
                  model : Models \cup {None}]
    /\ index.status # "NOT_INDEXED" => index.generation # 0
    /\ chunks \in [File -> Chunk \cup {None}]
    /\ branch \in [File -> ChunkContent] /\ since \in [File -> SUBSET ChunkContent]
    /\ indexer \in [Indexer -> IndexerRow]
    /\ \A i \in saved : i.generation \in Nat

\* What worker w holds of the files it has read is of the request it serves,
\* if that is still the last one; and what it embeds is what it has read.
DraftsCurrent(w) ==
    /\ indexer[w].pc # "idle" => indexer[w].generation \in 1..index.generation
    /\ indexer[w].pc = "list" => \A f \in File : indexer[w].drafts[f] = "absent"
    /\ indexer[w].pc \in {"fetch", "embed", "save"} /\ indexer[w].generation = index.generation =>
          \A f \in File \ indexer[w].left : indexer[w].drafts[f] \in since[f]
    /\ indexer[w].pc \in {"embed", "save"} => indexer[w].left = {}
    /\ indexer[w].pc = "save" => \A f \in File :
          indexer[w].vectors[f] \in {None, [text |-> indexer[w].drafts[f], by |-> ModelOf[w]]}

\* A vector by model m of text c or of one with the same body.
OfBody(v, c, m) == v.by = m /\ ContentHash(v.text) = ContentHash(c)

\* The chunks are those of one saved index, each with a vector of its body.
Shows(i, x) == i.chunks[x.file] # None /\ i.chunks[x.file].text = x.text
ChunksSaved ==
    /\ \A f \in File : chunks[f] # None => OfBody(chunks[f].vector, chunks[f].text, chunks[f].model)
    /\ (\E f \in File : chunks[f] # None) => \E i \in saved : i.generation <= index.generation /\ i.chunks = chunks

\* What a call has retrieved is of one index, and so is what it records.
ContextSaved == context # None /\ context.items # {} =>
    \E i \in saved : i.generation <= context.generation /\ \A x \in context.items : Shows(i, x)

KnowledgeInv ==
    /\ IndexRowsTyped
    /\ index.generation # 0 => \A f \in File : branch[f] \in since[f]
    /\ \A w \in Indexer : DraftsCurrent(w)
    /\ ChunksSaved /\ ContextSaved /\ KnowledgeIsCurrent

\* No request, nothing read, nothing saved.
LEMMA IndexStarts == IndexInit => KnowledgeInv
<1> SUFFICES ASSUME IndexInit PROVE KnowledgeInv  OBVIOUS
<1>1. IndexRowsTyped
  <2>1. Idle \in IndexerRow  BY DEF Idle, IndexerRow, ChunkContent
  <2>2. branch \in [File -> ChunkContent]  BY DEF IndexInit, ChunkContent
  <2> QED  BY <2>1, <2>2 DEF IndexInit, IndexRowsTyped
<1>2. \A w \in Indexer : DraftsCurrent(w)  BY DEF IndexInit, DraftsCurrent, Idle
<1> QED  BY <1>1, <1>2 DEF IndexInit, KnowledgeInv, ChunksSaved, ContextSaved, KnowledgeIsCurrent,
                           IndexAnswersRequest, ContextIsOfOneIndex

\* A step within one request that neither saves nor retrieves.
LEMMA RequestGoesOn ==
  ASSUME KnowledgeInv, NEW w \in Indexer, NEW row \in IndexerRow,
         index' \in [status : {"NOT_INDEXED", "PENDING", "INDEXING", "READY", "FAILED"}, generation : Nat,
                     attempt : Nat, lease : {"none", "live", "expired"}, errored : BOOLEAN,
                     model : Models \cup {None}],
         index'.generation = index.generation, index'.status # "NOT_INDEXED" => index.generation # 0,
         index'.status = "READY" => index.status = "READY" /\ index'.model = index.model,
         UNCHANGED <<chunks, branch, since, context, snapshots, saved>>,
         indexer' = [indexer EXCEPT ![w] = row], DraftsCurrent(w)'
  PROVE  KnowledgeInv'
<1>1. IndexRowsTyped'  BY DEF KnowledgeInv, IndexRowsTyped
<1>2. \A u \in Indexer : DraftsCurrent(u)'
  <2> SUFFICES ASSUME NEW u \in Indexer, u # w PROVE DraftsCurrent(u)'  OBVIOUS
  <2>1. indexer'[u] = indexer[u]  BY DEF KnowledgeInv, IndexRowsTyped
  <2> QED  BY <2>1 DEF KnowledgeInv, DraftsCurrent
<1>3. ChunksSaved' /\ ContextSaved'  BY DEF KnowledgeInv, ChunksSaved, ContextSaved, Shows
<1>4. KnowledgeIsCurrent'
  BY DEF KnowledgeInv, KnowledgeIsCurrent, IndexAnswersRequest, ContextIsOfOneIndex
<1> QED  BY <1>1, <1>2, <1>3, <1>4 DEF KnowledgeInv

\* The rows as they are typed, for the steps below.
LEMMA IndexTypes ==
  ASSUME KnowledgeInv
  PROVE  /\ index \in [status : {"NOT_INDEXED", "PENDING", "INDEXING", "READY", "FAILED"}, generation : Nat,
                       attempt : Nat, lease : {"none", "live", "expired"}, errored : BOOLEAN,
                       model : Models \cup {None}]
         /\ index.status # "NOT_INDEXED" => index.generation # 0
         /\ \A w \in Indexer : indexer[w] \in IndexerRow /\ DraftsCurrent(w)
         /\ \A w \in Indexer : indexer' = indexer => indexer' = [indexer EXCEPT ![w] = indexer[w]]
         /\ Idle \in IndexerRow /\ Idle.pc = "idle" /\ \A f \in File : Idle.drafts[f] = "absent"
BY DEF KnowledgeInv, IndexRowsTyped, Idle, IndexerRow, ChunkContent

\* A worker that holds nothing.
LEMMA IdleIsCurrent ==
  ASSUME KnowledgeInv, NEW w \in Indexer, indexer' = [indexer EXCEPT ![w] = Idle]
  PROVE  DraftsCurrent(w)'
<1>1. indexer'[w] = Idle  BY DEF KnowledgeInv, IndexRowsTyped
<1> QED  BY <1>1, IndexTypes DEF DraftsCurrent

\* A claim, whichever attempt it is, starts over.
LEMMA IndexClaimed ==
  ASSUME KnowledgeInv, NEW w \in Indexer, ClaimIndex(w)
  PROVE  KnowledgeInv'
<1> DEFINE row == [Idle EXCEPT !.pc = "list", !.generation = index.generation, !.attempt = NextIndexAttempt]
<1>1. /\ index.status \in {"PENDING", "INDEXING"} /\ index.generation \in Nat \ {0}
      /\ index' = [index EXCEPT !.status = "INDEXING", !.attempt = NextIndexAttempt,
                                !.lease = "live", !.errored = FALSE]
      /\ indexer' = [indexer EXCEPT ![w] = row]
      /\ UNCHANGED <<chunks, branch, since, pushes, context, snapshots, saved>>
  BY IndexTypes DEF ClaimIndex
<1>2. NextIndexAttempt \in Nat  BY IndexTypes DEF NextIndexAttempt
<1>3. /\ index' \in [status : {"NOT_INDEXED", "PENDING", "INDEXING", "READY", "FAILED"}, generation : Nat,
                     attempt : Nat, lease : {"none", "live", "expired"}, errored : BOOLEAN,
                     model : Models \cup {None}]
      /\ index'.generation = index.generation /\ index'.status = "INDEXING"
  BY <1>1, <1>2, IndexTypes
<1>4. /\ row \in IndexerRow /\ row.pc = "list" /\ row.generation = index.generation
      /\ \A f \in File : row.drafts[f] = "absent"
  BY <1>1, <1>2 DEF Idle, IndexerRow, ChunkContent
<1> HIDE DEF row
<1>5. DraftsCurrent(w)'
  <2>1. indexer'[w] = row  BY <1>1 DEF KnowledgeInv, IndexRowsTyped
  <2> QED  BY <1>1, <1>3, <1>4, <2>1 DEF DraftsCurrent
<1> QED  BY <1>1, <1>3, <1>4, <1>5, RequestGoesOn

\* A failure of the claim in force gives the row back or fails it.
LEMMA IndexFails ==
  ASSUME KnowledgeInv, NEW w \in Indexer, RetryOrFailIndex(w)
  PROVE  KnowledgeInv'
<1>1. /\ indexer' = [indexer EXCEPT ![w] = Idle]
      /\ UNCHANGED <<chunks, branch, since, pushes, context, snapshots, saved>>
  BY DEF RetryOrFailIndex
<1>2. /\ index' \in [status : {"NOT_INDEXED", "PENDING", "INDEXING", "READY", "FAILED"}, generation : Nat,
                     attempt : Nat, lease : {"none", "live", "expired"}, errored : BOOLEAN,
                     model : Models \cup {None}]
      /\ index'.generation = index.generation
      /\ \/ index' = index
         \/ index'.status \in {"PENDING", "FAILED"} /\ index.status = "INDEXING"
  BY IndexTypes DEF RetryOrFailIndex, IndexFenced
<1> QED  BY <1>1, <1>2, IdleIsCurrent, IndexTypes, RequestGoesOn

\* Leases come and go.
LEMMA IndexLeased ==
  ASSUME KnowledgeInv, NEW w \in Indexer, RenewIndexLease(w) \/ IndexLeaseExpires
  PROVE  KnowledgeInv'
<1>1. /\ UNCHANGED <<chunks, branch, since, pushes, indexer, context, snapshots, saved>>
      /\ \E l \in {"live", "expired"} : index' = [index EXCEPT !.lease = l]
  BY DEF RenewIndexLease, IndexLeaseExpires
<1>2. /\ index' \in [status : {"NOT_INDEXED", "PENDING", "INDEXING", "READY", "FAILED"}, generation : Nat,
                     attempt : Nat, lease : {"none", "live", "expired"}, errored : BOOLEAN,
                     model : Models \cup {None}]
      /\ index'.generation = index.generation /\ index'.status = index.status /\ index'.model = index.model
  BY <1>1, IndexTypes
<1>3. DraftsCurrent(w)'  BY <1>1, <1>2, IndexTypes DEF DraftsCurrent
<1> QED  BY <1>1, <1>2, <1>3, IndexTypes, RequestGoesOn

\* A step of a worker that changes no row.
LEMMA IndexerGoesOn ==
  ASSUME KnowledgeInv, NEW w \in Indexer, NEW row \in IndexerRow,
         UNCHANGED <<index, chunks, branch, since, context, snapshots, saved>>,
         indexer' = [indexer EXCEPT ![w] = row], DraftsCurrent(w)'
  PROVE  KnowledgeInv'
BY IndexTypes, RequestGoesOn

\* Listing: what is not there needs no reading.
LEMMA TreeListed ==
  ASSUME KnowledgeInv, NEW w \in Indexer, ListRepositoryTree(w)
  PROVE  KnowledgeInv'
<1> DEFINE row == [indexer[w] EXCEPT !.pc = "fetch", !.left = {f \in File : branch[f] # "absent"}]
<1>1. /\ indexer[w].pc = "list" /\ indexer[w] \in IndexerRow /\ DraftsCurrent(w)
      /\ UNCHANGED <<index, chunks, branch, since, pushes, context, snapshots, saved>>
  BY IndexTypes DEF ListRepositoryTree
<1>2. indexer' = [indexer EXCEPT ![w] = row]  BY DEF ListRepositoryTree
<1>3. /\ row \in IndexerRow /\ row.pc = "fetch" /\ row.generation = indexer[w].generation
      /\ row.drafts = indexer[w].drafts /\ row.left = {f \in File : branch[f] # "absent"}
  BY <1>1 DEF IndexerRow
<1> HIDE DEF row
<1>4. indexer'[w] = row  BY <1>2 DEF KnowledgeInv, IndexRowsTyped
<1>5. \A f \in File \ row.left : index.generation # 0 => row.drafts[f] \in since[f]
  <2>1. \A f \in File \ row.left : branch[f] = "absent" /\ row.drafts[f] = "absent"
    BY <1>1, <1>3 DEF DraftsCurrent
  <2> QED  BY <2>1 DEF KnowledgeInv
<1>6. DraftsCurrent(w)'  BY <1>1, <1>3, <1>4, <1>5, IndexTypes DEF DraftsCurrent
<1> QED  BY <1>1, <1>2, <1>3, <1>6, IndexerGoesOn

\* A file is read at the head of the branch.
LEMMA FileFetched ==
  ASSUME KnowledgeInv, NEW w \in Indexer, NEW f \in File, FetchFile(w, f)
  PROVE  KnowledgeInv'
<1> DEFINE row == [indexer[w] EXCEPT !.left = @ \ {f}, !.drafts[f] = branch[f]]
<1>1. /\ indexer[w].pc = "fetch" /\ indexer[w] \in IndexerRow /\ DraftsCurrent(w)
      /\ UNCHANGED <<index, chunks, branch, since, pushes, context, snapshots, saved>>
  BY IndexTypes DEF FetchFile
<1>2. indexer' = [indexer EXCEPT ![w] = row]  BY DEF FetchFile
<1>3. branch[f] \in ChunkContent  BY DEF KnowledgeInv, IndexRowsTyped
<1>4. /\ row \in IndexerRow /\ row.pc = "fetch" /\ row.generation = indexer[w].generation
      /\ row.left = indexer[w].left \ {f} /\ row.drafts[f] = branch[f]
      /\ \A g \in File : g # f => row.drafts[g] = indexer[w].drafts[g]
  BY <1>1, <1>3 DEF IndexerRow
<1> HIDE DEF row
<1>5. indexer'[w] = row  BY <1>2 DEF KnowledgeInv, IndexRowsTyped
<1>6. row.generation = index.generation => \A g \in File \ row.left : row.drafts[g] \in since[g]
  <2>1. index.generation # 0 => branch[f] \in since[f]  BY DEF KnowledgeInv
  <2>2. row.generation \in 1..index.generation /\ index.generation \in Nat
    BY <1>1, <1>4, IndexTypes DEF DraftsCurrent
  <2> QED  BY <1>1, <1>4, <2>1, <2>2 DEF DraftsCurrent
<1>7. DraftsCurrent(w)'  BY <1>1, <1>4, <1>5, <1>6 DEF DraftsCurrent
<1> QED  BY <1>1, <1>2, <1>4, <1>7, IndexerGoesOn

\* The rows that are there are read once.
LEMMA FingerprintsRead ==
  ASSUME KnowledgeInv, NEW w \in Indexer, ContentFingerprints(w)
  PROVE  KnowledgeInv'
<1> DEFINE prints == [f \in File |-> IF chunks[f] = None THEN None
                                     ELSE [hash |-> ContentHash(chunks[f].text), model |-> chunks[f].model]]
           row == [indexer[w] EXCEPT !.pc = "embed", !.prints = prints]
<1>1. /\ indexer[w].pc = "fetch" /\ indexer[w].left = {} /\ indexer[w] \in IndexerRow /\ DraftsCurrent(w)
      /\ UNCHANGED <<index, chunks, branch, since, pushes, context, snapshots, saved>>
  BY IndexTypes DEF ContentFingerprints
<1>2. indexer' = [indexer EXCEPT ![w] = row]  BY DEF ContentFingerprints
<1>3. prints \in [File -> [hash : Hashes, model : Models] \cup {None}]
  BY DEF KnowledgeInv, IndexRowsTyped, Chunk, Hashes
<1> HIDE DEF prints
<1>4. /\ row \in IndexerRow /\ row.pc = "embed" /\ row.generation = indexer[w].generation
      /\ row.left = indexer[w].left /\ row.drafts = indexer[w].drafts
  BY <1>1, <1>3 DEF IndexerRow
<1> HIDE DEF row
<1>5. indexer'[w] = row  BY <1>2 DEF KnowledgeInv, IndexRowsTyped
<1>6. DraftsCurrent(w)'  BY <1>1, <1>4, <1>5 DEF DraftsCurrent
<1> QED  BY <1>1, <1>2, <1>4, <1>6, IndexerGoesOn

\* What is embedded is what was read, by the worker's model.
LEMMA DraftsEmbedded ==
  ASSUME KnowledgeInv, NEW w \in Indexer, Embed(w)
  PROVE  KnowledgeInv'
<1> DEFINE vectors == [f \in File |-> IF f \in Drafted(w) /\ ~Unchanged(w, f)
                                      THEN [text |-> indexer[w].drafts[f], by |-> ModelOf[w]] ELSE None]
           row == [indexer[w] EXCEPT !.pc = "save", !.vectors = vectors]
<1>1. /\ indexer[w].pc = "embed" /\ indexer[w] \in IndexerRow /\ DraftsCurrent(w)
      /\ UNCHANGED <<index, chunks, branch, since, pushes, context, snapshots, saved>>
  BY IndexTypes DEF Embed
<1>2. indexer' = [indexer EXCEPT ![w] = row]  BY DEF Embed
<1>3. /\ vectors \in [File -> Vector \cup {None}]
      /\ \A f \in File : vectors[f] \in {None, [text |-> indexer[w].drafts[f], by |-> ModelOf[w]]}
  <2>1. \A f \in File : [text |-> indexer[w].drafts[f], by |-> ModelOf[w]] \in Vector
    BY <1>1 DEF IndexerRow, Vector, Models
  <2> QED  BY <2>1
<1> HIDE DEF vectors
<1>4. /\ row \in IndexerRow /\ row.pc = "save" /\ row.generation = indexer[w].generation
      /\ row.left = indexer[w].left /\ row.drafts = indexer[w].drafts /\ row.vectors = vectors
  BY <1>1, <1>3 DEF IndexerRow
<1> HIDE DEF row
<1>5. indexer'[w] = row  BY <1>2 DEF KnowledgeInv, IndexRowsTyped
<1>6. DraftsCurrent(w)'  BY <1>1, <1>3, <1>4, <1>5 DEF DraftsCurrent
<1> QED  BY <1>1, <1>2, <1>4, <1>6, IndexerGoesOn

\* A worker that dies holds nothing any more.
LEMMA IndexerDies ==
  ASSUME KnowledgeInv, NEW w \in Indexer, IndexerCrash(w)
  PROVE  KnowledgeInv'
<1>1. /\ indexer' = [indexer EXCEPT ![w] = Idle]
      /\ UNCHANGED <<index, chunks, branch, since, pushes, context, snapshots, saved>>
  BY DEF IndexerCrash
<1> QED  BY <1>1, IdleIsCurrent, IndexTypes, IndexerGoesOn

\* A request starts over: what is read from now on is of it.
LEMMA IndexRequested ==
  ASSUME KnowledgeInv, RequestIndex
  PROVE  KnowledgeInv'
<1>1. /\ index' \in [status : {"NOT_INDEXED", "PENDING", "INDEXING", "READY", "FAILED"}, generation : Nat,
                     attempt : Nat, lease : {"none", "live", "expired"}, errored : BOOLEAN,
                     model : Models \cup {None}]
      /\ index'.generation = index.generation + 1 /\ index'.status = "PENDING" /\ index.generation \in Nat
      /\ since' = [f \in File |-> {branch[f]}]
      /\ UNCHANGED <<chunks, branch, pushes, indexer, context, snapshots, saved>>
  <2>1. /\ index \in [status : {"NOT_INDEXED", "PENDING", "INDEXING", "READY", "FAILED"}, generation : Nat,
                      attempt : Nat, lease : {"none", "live", "expired"}, errored : BOOLEAN,
                      model : Models \cup {None}]
        /\ index.generation + 1 \in Nat
    BY IndexTypes
  <2>2. index' = [index EXCEPT !.status = "PENDING", !.generation = @ + 1, !.attempt = 0,
                               !.lease = "none", !.errored = FALSE]
    BY DEF RequestIndex
  <2>3. \A n \in Nat : [index EXCEPT !.status = "PENDING", !.generation = n, !.attempt = 0,
                                    !.lease = "none", !.errored = FALSE]
           \in [status : {"NOT_INDEXED", "PENDING", "INDEXING", "READY", "FAILED"}, generation : Nat,
               attempt : Nat, lease : {"none", "live", "expired"}, errored : BOOLEAN,
               model : Models \cup {None}]
    BY <2>1
  <2>4. index'.generation = index.generation + 1 /\ index'.status = "PENDING"  BY <2>1, <2>2
  <2> QED  BY <2>1, <2>2, <2>3, <2>4 DEF RequestIndex
<1>2. IndexRowsTyped'
  <2>1. since' \in [File -> SUBSET ChunkContent]  BY <1>1 DEF KnowledgeInv, IndexRowsTyped
  <2>2. index'.generation # 0  BY <1>1
  <2> QED  BY <1>1, <2>1, <2>2 DEF KnowledgeInv, IndexRowsTyped
<1>3. \A w \in Indexer : DraftsCurrent(w)'
  <2> SUFFICES ASSUME NEW w \in Indexer PROVE DraftsCurrent(w)'  OBVIOUS
  <2>1. indexer[w].pc # "idle" => indexer[w].generation \in 1..index.generation
    BY IndexTypes DEF DraftsCurrent
  <2>2. indexer[w].pc # "idle" =>
          indexer[w].generation \in 1..(index.generation + 1) /\ indexer[w].generation # index.generation + 1
    BY <1>1, <2>1
  <2>3. indexer[w].pc \in {"fetch", "embed", "save"} => indexer[w].pc # "idle"  OBVIOUS
  <2> QED  BY <1>1, <2>2, <2>3, IndexTypes DEF DraftsCurrent
<1>4. \A f \in File : branch'[f] \in since'[f]  BY <1>1
<1>5. ChunksSaved'
  <2>1. \A i \in saved : i.generation <= index.generation => i.generation <= index'.generation
    BY <1>1 DEF KnowledgeInv, IndexRowsTyped
  <2> QED  BY <1>1, <2>1 DEF KnowledgeInv, ChunksSaved
<1>6. ContextSaved' /\ KnowledgeIsCurrent'
  BY <1>1 DEF KnowledgeInv, ContextSaved, Shows, KnowledgeIsCurrent, IndexAnswersRequest, ContextIsOfOneIndex
<1> QED  BY <1>2, <1>3, <1>4, <1>5, <1>6 DEF KnowledgeInv

\* A push adds to what the files have been.
LEMMA BranchPushed ==
  ASSUME KnowledgeInv, NEW g \in File, NEW c \in ChunkContent, Push(g, c)
  PROVE  KnowledgeInv'
<1>1. /\ branch' = [branch EXCEPT ![g] = c] /\ since' = [since EXCEPT ![g] = @ \cup {c}]
      /\ UNCHANGED <<index, chunks, indexer, context, snapshots, saved>>
  BY DEF Push
<1>2. /\ branch' \in [File -> ChunkContent] /\ since' \in [File -> SUBSET ChunkContent]
      /\ \A f \in File : since[f] \subseteq since'[f] /\ (branch'[f] \in since'[f] \/ branch'[f] = branch[f])
  BY <1>1 DEF KnowledgeInv, IndexRowsTyped
<1>3. IndexRowsTyped'  BY <1>1, <1>2 DEF KnowledgeInv, IndexRowsTyped
<1>4. \A w \in Indexer : DraftsCurrent(w)'  BY <1>1, <1>2 DEF KnowledgeInv, DraftsCurrent
<1>5. index'.generation # 0 => \A f \in File : branch'[f] \in since'[f]  BY <1>1, <1>2 DEF KnowledgeInv
<1>6. ChunksSaved' /\ ContextSaved'  BY <1>1 DEF KnowledgeInv, ChunksSaved, ContextSaved, Shows
<1>7. IndexAnswersRequest'
  <2> SUFFICES ASSUME index.status = "READY", NEW f \in File
               PROVE  IF chunks[f] = None THEN since'[f] \cap {"absent", "skipped"} # {}
                      ELSE /\ chunks[f].text \in since'[f]
                           /\ chunks[f].model = index.model
                           /\ OfBody(chunks[f].vector, chunks[f].text, index.model)
    BY <1>1 DEF IndexAnswersRequest, OfBody
  <2>1. IF chunks[f] = None THEN since[f] \cap {"absent", "skipped"} # {}
        ELSE /\ chunks[f].text \in since[f]
             /\ chunks[f].model = index.model
             /\ OfBody(chunks[f].vector, chunks[f].text, index.model)
    BY DEF KnowledgeInv, KnowledgeIsCurrent, IndexAnswersRequest, OfBody
  <2>2. since[f] \subseteq since'[f]  BY <1>2
  <2> QED  BY <2>1, <2>2
<1>8. ContextIsOfOneIndex'  BY <1>1 DEF KnowledgeInv, KnowledgeIsCurrent, ContextIsOfOneIndex
<1> QED  BY <1>3, <1>4, <1>5, <1>6, <1>7, <1>8 DEF KnowledgeInv, KnowledgeIsCurrent

\* A chunk that is stored holds what was read, and a vector of it.
LEMMA StoredIsRead ==
  ASSUME KnowledgeInv, NEW w \in Indexer, SaveIndex(w), NEW f \in Drafted(w)
  PROVE  /\ Stored(w, f) \in Chunk /\ Stored(w, f) # None
         /\ Stored(w, f).text = indexer[w].drafts[f] /\ Stored(w, f).model = ModelOf[w]
         /\ OfBody(Stored(w, f).vector, indexer[w].drafts[f], ModelOf[w])
<1>1. /\ f \in File /\ indexer[w] \in IndexerRow /\ indexer[w].drafts[f] \in ChunkContent /\ Savable(w, f)
      /\ indexer[w].vectors[f] \in {None, [text |-> indexer[w].drafts[f], by |-> ModelOf[w]]}
  BY IndexTypes DEF SaveIndex, Drafted, IndexerRow, DraftsCurrent
<1>2. ModelOf[w] \in Models  BY DEF Models
<1>3. [text |-> indexer[w].drafts[f], by |-> ModelOf[w]] \in Vector  BY <1>1, <1>2 DEF Vector
<1>4. OfBody(Stored(w, f).vector, indexer[w].drafts[f], ModelOf[w]) /\ Stored(w, f).vector \in Vector
  <2>1. CASE indexer[w].vectors[f] = None
    <3>1. /\ chunks[f] # None /\ chunks[f].model = ModelOf[w]
          /\ ContentHash(chunks[f].text) = ContentHash(indexer[w].drafts[f])
      BY <1>1, <2>1 DEF Savable
    <3>2. OfBody(chunks[f].vector, chunks[f].text, chunks[f].model)
      BY <1>1, <3>1 DEF KnowledgeInv, ChunksSaved
    <3>3. chunks[f].vector \in Vector  BY <1>1, <3>1 DEF KnowledgeInv, IndexRowsTyped, Chunk
    <3>4. Stored(w, f).vector = chunks[f].vector  BY <2>1 DEF Stored
    <3> QED  BY <3>1, <3>2, <3>3, <3>4 DEF OfBody
  <2>2. CASE indexer[w].vectors[f] # None
    <3>1. Stored(w, f).vector = [text |-> indexer[w].drafts[f], by |-> ModelOf[w]]  BY <1>1, <2>2 DEF Stored
    <3> QED  BY <1>3, <3>1 DEF OfBody
  <2> QED  BY <2>1, <2>2
<1>5. Stored(w, f).text = indexer[w].drafts[f] /\ Stored(w, f).model = ModelOf[w]  BY DEF Stored
<1>6. Stored(w, f) \in Chunk
  <2>1. Stored(w, f) = [text |-> Stored(w, f).text, model |-> Stored(w, f).model, vector |-> Stored(w, f).vector]
    BY DEF Stored
  <2> QED  BY <1>1, <1>2, <1>3, <1>4, <1>5, <2>1 DEF Chunk
<1> QED  BY <1>4, <1>5, <1>6, NoneAssumption

\* The save of the claim in force makes the index what its worker has read
\* since the request.
LEMMA IndexSaved ==
  ASSUME KnowledgeInv, NEW w \in Indexer, SaveIndex(w)
  PROVE  KnowledgeInv'
<1>1. /\ indexer[w].pc = "save" /\ index.status = "INDEXING" /\ index.generation = indexer[w].generation
      /\ indexer' = [indexer EXCEPT ![w] = Idle]
      /\ chunks' = [f \in File |-> IF f \in Stale(w) THEN None
                                   ELSE IF f \in Drafted(w) THEN Stored(w, f) ELSE chunks[f]]
      /\ saved' = saved \cup {[generation |-> index.generation, chunks |-> chunks']}
      /\ UNCHANGED <<branch, since, pushes, context, snapshots>>
  BY DEF SaveIndex, IndexFenced
<1>2. /\ index' \in [status : {"NOT_INDEXED", "PENDING", "INDEXING", "READY", "FAILED"}, generation : Nat,
                     attempt : Nat, lease : {"none", "live", "expired"}, errored : BOOLEAN,
                     model : Models \cup {None}]
      /\ index'.generation = index.generation /\ index'.model = ModelOf[w] /\ index.generation \in Nat \ {0}
  <2>1. ModelOf[w] \in Models  BY DEF Models
  <2> QED  BY <1>1, <2>1, IndexTypes DEF SaveIndex
<1>3. \A f \in File : indexer[w].drafts[f] \in since[f]
  BY <1>1, IndexTypes DEF DraftsCurrent
<1>4. \A f \in File \ Drafted(w) : chunks'[f] = None /\ since[f] \cap {"absent", "skipped"} # {}
  <2> TAKE f \in File \ Drafted(w)
  <2>1. indexer[w].drafts[f] \in {"absent", "skipped"}  BY DEF Drafted
  <2>2. chunks'[f] = None  BY <1>1 DEF Stale
  <2>3. indexer[w].drafts[f] \in since[f]  BY <1>3
  <2> QED  BY <2>1, <2>2, <2>3
<1>5. \A f \in Drafted(w) :
         /\ f \in File /\ chunks'[f] \in Chunk /\ chunks'[f] # None
         /\ chunks'[f].text = indexer[w].drafts[f] /\ chunks'[f].model = ModelOf[w]
         /\ OfBody(chunks'[f].vector, indexer[w].drafts[f], ModelOf[w])
  <2> TAKE f \in Drafted(w)
  <2>1. f \in File /\ f \notin Stale(w)  BY DEF Drafted, Stale
  <2>2. chunks'[f] = Stored(w, f)  BY <1>1, <2>1
  <2> QED  BY <2>1, <2>2, StoredIsRead
<1>6. IndexRowsTyped'
  <2>1. chunks' \in [File -> Chunk \cup {None}]  BY <1>1, <1>4, <1>5
  <2>2. indexer' \in [Indexer -> IndexerRow]  BY <1>1, IndexTypes DEF KnowledgeInv, IndexRowsTyped
  <2>3. \A i \in saved' : i.generation \in Nat  BY <1>1, <1>2 DEF KnowledgeInv, IndexRowsTyped
  <2> QED  BY <1>1, <1>2, <2>1, <2>2, <2>3 DEF KnowledgeInv, IndexRowsTyped
<1>7. \A u \in Indexer : DraftsCurrent(u)'
  <2> SUFFICES ASSUME NEW u \in Indexer, u # w PROVE DraftsCurrent(u)'  BY <1>1, IdleIsCurrent
  <2>1. indexer'[u] = indexer[u]  BY <1>1 DEF KnowledgeInv, IndexRowsTyped
  <2> QED  BY <1>1, <1>2, <2>1, IndexTypes DEF DraftsCurrent
<1>8. index'.generation # 0 => \A f \in File : branch'[f] \in since'[f]  BY <1>1, <1>2 DEF KnowledgeInv
<1>9. ChunksSaved'
  <2>1. \A f \in File : chunks'[f] # None => OfBody(chunks'[f].vector, chunks'[f].text, chunks'[f].model)
    BY <1>4, <1>5
  <2>2. \E i \in saved' : i.generation <= index'.generation /\ i.chunks = chunks'
    <3> DEFINE i == [generation |-> index.generation, chunks |-> chunks']
    <3>1. i \in saved' /\ i.generation = index.generation /\ i.chunks = chunks'  BY <1>1
    <3>2. index.generation <= index'.generation  BY <1>2
    <3> HIDE DEF i
    <3> QED  BY <3>1, <3>2
  <2> QED  BY <2>1, <2>2 DEF ChunksSaved, OfBody
<1>10. ContextSaved' /\ ContextIsOfOneIndex'
  <2>1. saved \subseteq saved'  BY <1>1
  <2> QED  BY <1>1, <2>1 DEF KnowledgeInv, ContextSaved, Shows, KnowledgeIsCurrent, ContextIsOfOneIndex
<1>11. IndexAnswersRequest'
  <2> SUFFICES ASSUME NEW f \in File
               PROVE  IF chunks'[f] = None THEN since[f] \cap {"absent", "skipped"} # {}
                      ELSE /\ chunks'[f].text \in since[f]
                           /\ chunks'[f].model = ModelOf[w]
                           /\ OfBody(chunks'[f].vector, chunks'[f].text, ModelOf[w])
    BY <1>1, <1>2 DEF IndexAnswersRequest, OfBody
  <2>1. CASE f \in Drafted(w)  BY <1>3, <1>5, <2>1
  <2>2. CASE f \notin Drafted(w)  BY <1>4, <2>2
  <2> QED  BY <2>1, <2>2
<1> QED  BY <1>6, <1>7, <1>8, <1>9, <1>10, <1>11 DEF KnowledgeInv, KnowledgeIsCurrent

\* A call reads chunks of the index as it is.
LEMMA ContextRead ==
  ASSUME KnowledgeInv, Retrieve
  PROVE  KnowledgeInv'
<1>1. PICK found \in SUBSET {f \in File : chunks[f] # None} :
        context' = [generation |-> index.generation,
                    items |-> {[file |-> f, text |-> chunks[f].text, model |-> chunks[f].model] : f \in found}]
  BY DEF Retrieve
<1>2. UNCHANGED <<index, chunks, branch, since, pushes, indexer, snapshots, saved>>  BY DEF Retrieve
<1>3. ContextSaved'
  <2> SUFFICES ASSUME context'.items # {}
               PROVE  \E i \in saved : /\ i.generation <= context'.generation
                                       /\ \A x \in context'.items : Shows(i, x)
    BY <1>2 DEF ContextSaved, Shows
  <2>1. PICK f \in found : TRUE  BY <1>1
  <2>2. PICK i \in saved : i.generation <= index.generation /\ i.chunks = chunks
    BY <2>1 DEF KnowledgeInv, ChunksSaved
  <2>3. \A x \in context'.items : Shows(i, x)  BY <1>1, <2>2 DEF Shows
  <2>4. context'.generation = index.generation  BY <1>1
  <2> QED  BY <2>2, <2>3, <2>4
<1>4. IndexRowsTyped' /\ \A w \in Indexer : DraftsCurrent(w)'
  BY <1>2 DEF KnowledgeInv, IndexRowsTyped, DraftsCurrent
<1>5. ChunksSaved' /\ KnowledgeIsCurrent'
  BY <1>2 DEF KnowledgeInv, ChunksSaved, KnowledgeIsCurrent, IndexAnswersRequest, ContextIsOfOneIndex
<1> QED  BY <1>2, <1>3, <1>4, <1>5 DEF KnowledgeInv

\* What it records later names the generation it read with.
LEMMA ContextRecorded ==
  ASSUME KnowledgeInv, Record
  PROVE  KnowledgeInv'
<1>1. /\ context # None /\ snapshots' = snapshots \cup {Snapshot} /\ context' = None
      /\ UNCHANGED <<index, chunks, branch, since, pushes, indexer, saved>>
  BY DEF Record
<1>2. ContextIsOfOneIndex'
  <2> SUFFICES ASSUME NEW s \in snapshots', s.items # {}
               PROVE  \E i \in saved : /\ i.generation <= s.generation
                                       /\ \A x \in s.items : Shows(i, x)
    BY <1>1 DEF ContextIsOfOneIndex, Shows
  <2>1. CASE s \in snapshots
    BY <2>1 DEF KnowledgeInv, KnowledgeIsCurrent, ContextIsOfOneIndex, Shows
  <2>2. CASE s = Snapshot
    <3>1. s.items = context.items /\ s.generation = IndexGeneration  BY <2>2 DEF Snapshot
    <3>2. IndexGeneration = context.generation  BY <3>1 DEF IndexGeneration
    <3> QED  BY <1>1, <3>1, <3>2 DEF KnowledgeInv, ContextSaved
  <2> QED  BY <1>1, <2>1, <2>2
<1>3. IndexRowsTyped' /\ \A w \in Indexer : DraftsCurrent(w)'
  BY <1>1 DEF KnowledgeInv, IndexRowsTyped, DraftsCurrent
<1>4. ChunksSaved' /\ ContextSaved' /\ IndexAnswersRequest'
  BY <1>1 DEF KnowledgeInv, ChunksSaved, ContextSaved, KnowledgeIsCurrent, IndexAnswersRequest
<1> QED  BY <1>1, <1>2, <1>3, <1>4 DEF KnowledgeInv, KnowledgeIsCurrent

\* Every step keeps the index and the contexts in order.
LEMMA IndexStep == KnowledgeInv /\ [IndexNext]_indexVars => KnowledgeInv'
<1> SUFFICES ASSUME KnowledgeInv, [IndexNext]_indexVars PROVE KnowledgeInv'  OBVIOUS
<1>1. CASE IndexLeaseExpires
  <2>1. CASE Indexer = {}
    <3>1. /\ UNCHANGED <<chunks, branch, since, pushes, indexer, context, snapshots, saved>>
          /\ index' = [index EXCEPT !.lease = "expired"]
      BY <1>1 DEF IndexLeaseExpires
    <3>2. /\ index' \in [status : {"NOT_INDEXED", "PENDING", "INDEXING", "READY", "FAILED"}, generation : Nat,
                         attempt : Nat, lease : {"none", "live", "expired"}, errored : BOOLEAN,
                         model : Models \cup {None}]
          /\ index'.generation = index.generation /\ index'.status = index.status /\ index'.model = index.model
      BY <3>1, IndexTypes
    <3>3. IndexRowsTyped'  BY <3>1, <3>2 DEF KnowledgeInv, IndexRowsTyped
    <3>4. ChunksSaved' /\ ContextSaved'  BY <3>1, <3>2 DEF KnowledgeInv, ChunksSaved, ContextSaved, Shows
    <3>5. KnowledgeIsCurrent'
      BY <3>1, <3>2 DEF KnowledgeInv, KnowledgeIsCurrent, IndexAnswersRequest, ContextIsOfOneIndex
    <3> QED  BY <2>1, <3>1, <3>2, <3>3, <3>4, <3>5 DEF KnowledgeInv
  <2>2. CASE Indexer # {}  BY <1>1, <2>2, IndexLeased
  <2> QED  BY <2>1, <2>2
<1>2. CASE \E w \in Indexer :
              \/ ClaimIndex(w) \/ RetryOrFailIndex(w) \/ RenewIndexLease(w) \/ IndexerCrash(w)
              \/ ListRepositoryTree(w) \/ (\E f \in File : FetchFile(w, f))
              \/ ContentFingerprints(w) \/ Embed(w) \/ SaveIndex(w)
  BY <1>2, IndexClaimed, IndexFails, IndexLeased, IndexerDies, TreeListed, FileFetched, FingerprintsRead,
     DraftsEmbedded, IndexSaved
<1>3. CASE UNCHANGED indexVars
  <2>1. UNCHANGED <<index, chunks, branch, since, pushes, indexer, context, snapshots, saved>>
    BY <1>3 DEF indexVars
  <2>2. IndexRowsTyped' /\ \A w \in Indexer : DraftsCurrent(w)'
    BY <2>1 DEF KnowledgeInv, IndexRowsTyped, DraftsCurrent
  <2>3. ChunksSaved' /\ ContextSaved'  BY <2>1 DEF KnowledgeInv, ChunksSaved, ContextSaved, Shows
  <2>4. KnowledgeIsCurrent'
    BY <2>1 DEF KnowledgeInv, KnowledgeIsCurrent, IndexAnswersRequest, ContextIsOfOneIndex
  <2> QED  BY <2>1, <2>2, <2>3, <2>4 DEF KnowledgeInv
<1> QED  BY <1>1, <1>2, <1>3, IndexRequested, BranchPushed, ContextRead, ContextRecorded DEF IndexNext

\* A READY index holds what its files were after its request, each chunk with
\* its own vector, whatever claims expired, crashed or came late; and a recorded
\* context is of one saved index.
THEOREM Knowledge == IndexSpec => []KnowledgeIsCurrent
<1>1. KnowledgeInv => KnowledgeIsCurrent  BY DEF KnowledgeInv
<1> QED  BY <1>1, IndexStarts, IndexStep, PTL DEF IndexSpec

-----------------------------------------------------------------------------
(* Proposals.                                                               *)

Target == [family : Nat, head : Nat]
JobRow == [status : {"NONE", "RUNNING", "SUCCEEDED", "PARTIAL_FAILED", "FAILED"}, sources : Nat,
           targets : SUBSET Target, units : SUBSET (Requirement \cup {"retire"}),
           saved : SUBSET (Requirement \cup {"retire"})]
ProposalDecisions == {"NONE", "DISMISS", "ARCHIVE", "KEEP", "REVISE", "CREATE_NEW"}
ProposalRow == [job : GenerationJob, content : Content,
                kind : {"UNCHANGED", "NEW_REVISION", "AMBIGUOUS_MATCH", "NEW_CASE", "RETIRE_CANDIDATE"},
                candidates : SUBSET Target, status : {"PENDING", "DISMISSED", "APPLIED"},
                decision : ProposalDecisions, family : Nat, result : Nat]
CommandRow == [proposal : Nat, decision : ProposalDecisions, family : Nat]

\* What a job pins and a proposal is offered for are revisions of families.
Known(targets) == \A t \in targets : t.family \in DOMAIN family /\ t.head \in DOMAIN caseRevision
JobsPinned ==
    /\ generation \in [GenerationJob -> JobRow]
    /\ \A j \in GenerationJob : IsFiniteSet(generation[j].targets) /\ Known(generation[j].targets)
OffersPinned ==
    /\ proposal \in Seq(ProposalRow)
    /\ \A p \in DOMAIN proposal : Known(proposal[p].candidates)
ProposalsInv == CatalogInv /\ JobsPinned /\ OffersPinned
                /\ command \in [Command -> CommandRow]

\* What DecidedOnce says of a step.
DecisionsStand ==
    /\ \A p \in DOMAIN proposal : proposal[p].status # "PENDING" => proposal'[p] = proposal[p]
    /\ \A k \in Command : command[k] # NoCommand => command'[k] = command[k]

\* A finite set is the elements of a sequence, in some order.
LEMMA SetInSequence ==
  ASSUME NEW S, IsFiniteSet(S)
  PROVE  SetToSeq(S) \in Seq(S)
<1>1. Cardinality(S) \in Nat /\ ExistsBijection(1..Cardinality(S), S)  BY FS_CardinalityType
<1>2. \E f \in [1..Cardinality(S) -> S] : IsInjective(f)
  BY <1>1 DEF ExistsBijection, Bijection, Injection
<1>3. SetToSeq(S) \in [1..Cardinality(S) -> S]  BY <1>2 DEF SetToSeq
<1> QED  BY <1>1, <1>3

\* No job has proposed anything yet.
LEMMA ProposalsStart == ProposalsInit => ProposalsInv
<1> SUFFICES ASSUME ProposalsInit PROVE ProposalsInv  OBVIOUS
<1>1. /\ Len(Generated) \in Nat /\ DOMAIN Generated = 1..Len(Generated)
      /\ \A r \in DOMAIN Generated : Generated[r] \in Content
  BY ProposalsAssumption
<1>2. /\ DOMAIN family = 1..Len(Generated) /\ DOMAIN caseRevision = 1..Len(Generated)
      /\ \A f \in DOMAIN family : family[f] = [archived |-> FALSE, head |-> f]
      /\ \A r \in DOMAIN caseRevision :
            caseRevision[r] = [family |-> r, version |-> 1, content |-> Generated[r],
                               parent |-> 0, restored |-> 0, status |-> "DRAFT"]
  BY <1>1 DEF ProposalsInit
<1>3. \A r \in DOMAIN caseRevision : RevisionsOf(r) = {r} /\ UpTo(r) = {r}
  <2>1. \A r \in DOMAIN caseRevision : caseRevision[r].family = r /\ r <= r  BY <1>1, <1>2
  <2> QED  BY <2>1 DEF RevisionsOf, UpTo
<1>4. RowsInv
  <2>1. family \in Seq(FamilyRow)
    <3>1. family \in [1..Len(Generated) -> FamilyRow]  BY <1>1 DEF ProposalsInit, FamilyRow
    <3> QED  BY <1>1, <3>1
  <2>2. caseRevision \in Seq(CaseRow)
    <3>1. caseRevision \in [1..Len(Generated) -> CaseRow]  BY <1>1 DEF ProposalsInit, CaseRow
    <3> QED  BY <1>1, <3>1
  <2>3. RowsTyped  BY <1>2, <1>3, <2>1, <2>2 DEF RowsTyped
  <2>4. ChainsLinked  BY <1>1, <1>2, <1>3 DEF ChainsLinked, Linked1
  <2>5. VersionsCounted
    <3>1. \A r \in DOMAIN caseRevision : Cardinality(UpTo(r)) = 1  BY <1>3, FS_Singleton
    <3> QED  BY <1>2, <3>1 DEF VersionsCounted
  <2> QED  BY <2>3, <2>4, <2>5 DEF RowsInv
<1>5. EditsInv
  <2>1. NoEdit \in EditAsk /\ NoEdit.family = 0  BY DEF NoEdit, EditAsk
  <2> QED  BY <2>1 DEF ProposalsInit, EditsInv, EditsTyped, EditsAnswered
<1>6. ReleasesInv
  <2>1. NoPublication \in Publication /\ NoPublication.shown = {} /\ NoPublication.items = {}
    BY DEF NoPublication, Publication
  <2> QED  BY <2>1 DEF ProposalsInit, ReleasesInv, HashesShown, PublishedAsPreviewed
<1>7. CountsInv  BY CatalogAssumption DEF ProposalsInit, CountsInv
<1>8. JobsPinned
  <2>1. NoJobYet \in JobRow /\ NoJobYet.targets = {}  BY DEF NoJobYet, JobRow
  <2> QED  BY <2>1, FS_EmptySet DEF ProposalsInit, JobsPinned, Known
<1>9. OffersPinned  BY DEF ProposalsInit, OffersPinned
<1>10. command \in [Command -> CommandRow]
  BY DEF ProposalsInit, NoCommand, CommandRow, ProposalDecisions
<1> QED  BY <1>4, <1>5, <1>6, <1>7, <1>8, <1>9, <1>10 DEF ProposalsInv, CatalogInv

\* What is pinned is not lost while the catalog grows.
LEMMA PinsKept ==
  ASSUME ProposalsInv, Grows
  PROVE  /\ UNCHANGED generation => JobsPinned'
         /\ UNCHANGED proposal => OffersPinned'
BY DEF ProposalsInv, JobsPinned, OffersPinned, Known, Grows

\* The catalog stays in order in a step that leaves it alone.
LEMMA CatalogKept ==
  ASSUME ProposalsInv, UNCHANGED catalogVars
  PROVE  CatalogInv' /\ Grows
BY CatalogStep DEF ProposalsInv

\* A job pins heads of families.
LEMMA HeadsKnown ==
  ASSUME ProposalsInv
  PROVE  Heads \in SUBSET Target /\ IsFiniteSet(Heads) /\ Known(Heads)
<1> DEFINE open == {g \in DOMAIN family : ~family[g].archived}
           pins == [f \in open |-> [family |-> f, head |-> family[f].head]]
<1>1. /\ Len(family) \in Nat /\ DOMAIN family = 1..Len(family)
      /\ \A f \in DOMAIN family : family[f].head \in DOMAIN caseRevision /\ family[f].head \in Nat
  BY RowIds DEF ProposalsInv, CatalogInv, RowsInv, RowsTyped, FamilyRow, RevisionsOf
<1>2. IsFiniteSet(open)
  <2>1. IsFiniteSet(1..Len(family))  BY <1>1, FS_Interval
  <2>2. open \in SUBSET (1..Len(family))  BY <1>1
  <2> HIDE DEF open
  <2> QED  BY ONLY <2>1, <2>2, FS_Subset
<1>3. IsFiniteSet(Heads)
  <2>1. pins \in Surjection(open, Heads)  BY DEF Surjection, Heads
  <2> HIDE DEF open, pins
  <2> QED  BY ONLY <1>2, <2>1, FS_Surjection
<1>4. Heads \in SUBSET Target /\ Known(Heads)  BY <1>1 DEF Heads, Target, Known
<1> QED  BY <1>3, <1>4

\* The types of the rows that the steps below change.
LEMMA ProposalIds ==
  ASSUME ProposalsInv
  PROVE  /\ Len(proposal) \in Nat /\ DOMAIN proposal = 1..Len(proposal)
         /\ \A p \in DOMAIN proposal : proposal[p] \in ProposalRow /\ Known(proposal[p].candidates)
         /\ \A j \in GenerationJob : /\ generation[j] \in JobRow
                                    /\ IsFiniteSet(generation[j].targets) /\ Known(generation[j].targets)
         /\ RowsInv /\ CountsInv
BY DEF ProposalsInv, OffersPinned, JobsPinned, CatalogInv

\* A step of a job that pins nothing new.
LEMMA JobMoved ==
  ASSUME ProposalsInv, NEW j \in GenerationJob, NEW row \in JobRow,
         generation' = [generation EXCEPT ![j] = row], IsFiniteSet(row.targets), Known(row.targets),
         UNCHANGED <<family, caseRevision>>
  PROVE  JobsPinned'
<1>1. \A i \in GenerationJob : generation'[i] = IF i = j THEN row ELSE generation[i]
  BY DEF ProposalsInv, JobsPinned
<1>2. generation' \in [GenerationJob -> JobRow]  BY DEF ProposalsInv, JobsPinned
<1>3. \A i \in GenerationJob : IsFiniteSet(generation'[i].targets) /\ Known(generation'[i].targets)
  BY <1>1 DEF ProposalsInv, JobsPinned
<1> QED  BY <1>2, <1>3 DEF JobsPinned, Known

\* A job pins the heads of its targets as they are.
LEMMA JobStarted ==
  ASSUME ProposalsInv, NEW j \in GenerationJob, NEW scope \in {"ALL", "AFFECTED", "SELECTED"},
         NEW selected \in SUBSET Requirement, StartJob(j, scope, selected)
  PROVE  ProposalsInv'
<1> DEFINE row == [status |-> "RUNNING", sources |-> sources, targets |-> Heads, saved |-> {},
                   units |-> Scoped(scope, selected) \cup IF scope = "SELECTED" THEN {} ELSE {"retire"}]
<1>1. generation' = [generation EXCEPT ![j] = row] /\ UNCHANGED <<catalogVars, removed, proposal, command>>
  BY DEF StartJob
<1>2. Scoped(scope, selected) \subseteq Requirement  BY DEF Scoped, Affected, Eligible
<1>3. row \in JobRow /\ row.targets = Heads  BY <1>2, HeadsKnown, ProposalIds DEF JobRow, CountsInv
<1> HIDE DEF row
<1>4. JobsPinned'  BY <1>1, <1>3, HeadsKnown, JobMoved DEF catalogVars
<1>5. CatalogInv' /\ Grows  BY <1>1, CatalogKept
<1>6. OffersPinned'  BY <1>1, <1>5, PinsKept
<1> QED  BY <1>1, <1>4, <1>5, <1>6 DEF ProposalsInv

\* Jobs that end and are retried keep what they pinned.
LEMMA JobEnded ==
  ASSUME ProposalsInv, NEW j \in GenerationJob,
         RetryJob(j) \/ \E now \in {"SUCCEEDED", "PARTIAL_FAILED", "FAILED"} : EndJob(j, now)
  PROVE  ProposalsInv'
<1>1. PICK now \in {"RUNNING", "SUCCEEDED", "PARTIAL_FAILED", "FAILED"} :
         generation' = [generation EXCEPT ![j].status = now] /\ UNCHANGED <<catalogVars, removed, proposal, command>>
  BY DEF EndJob, RetryJob
<1> DEFINE row == [generation[j] EXCEPT !.status = now]
<1>2. row \in JobRow /\ row.targets = generation[j].targets  BY ProposalIds DEF JobRow
<1>3. generation' = [generation EXCEPT ![j] = row]  BY <1>1
<1> HIDE DEF row
<1>4. JobsPinned'  BY <1>1, <1>2, <1>3, ProposalIds, JobMoved DEF catalogVars
<1>5. CatalogInv' /\ Grows  BY <1>1, CatalogKept
<1>6. OffersPinned'  BY <1>1, <1>5, PinsKept
<1> QED  BY <1>1, <1>4, <1>5, <1>6 DEF ProposalsInv

\* What is proposed is offered for what the job pinned.
LEMMA OffersArePins ==
  ASSUME ProposalsInv, NEW j \in GenerationJob, NEW content \in Content,
         NEW kind, NEW candidates \in SUBSET generation[j].targets,
         kind \in {"UNCHANGED", "NEW_REVISION", "AMBIGUOUS_MATCH", "NEW_CASE", "RETIRE_CANDIDATE"}
  PROVE  /\ Proposal(j, content, kind, candidates) \in ProposalRow
         /\ Known(Proposal(j, content, kind, candidates).candidates)
<1>1. candidates \in SUBSET Target  BY ProposalIds DEF JobRow
<1> QED  BY <1>1, ProposalIds DEF Proposal, ProposalRow, ProposalDecisions, Known

\* What an output is classified to names pinned targets.
LEMMA OutputsPinned ==
  ASSUME ProposalsInv, NEW j \in GenerationJob, NEW q
  PROVE  \A o \in OutputsOf(j, q) : o \in ProposalRow /\ Known(o.candidates)
<1> SUFFICES ASSUME NEW o \in OutputsOf(j, q) PROVE o \in ProposalRow /\ Known(o.candidates)  OBVIOUS
<1>1. PICK c \in Content : \E k \in Classify(j, c) : o = Proposal(j, c, k[1], k[2])  BY DEF OutputsOf
<1>2. PICK k \in Classify(j, c) : o = Proposal(j, c, k[1], k[2])  BY <1>1
<1>3. /\ k[1] \in {"UNCHANGED", "NEW_REVISION", "AMBIGUOUS_MATCH", "NEW_CASE"}
      /\ k[2] \in SUBSET generation[j].targets
  BY <1>2 DEF Classify, Exact, Linked
<1> QED  BY <1>2, <1>3, OffersArePins

\* What retires names pinned targets.
LEMMA RetirementsPinned ==
  ASSUME ProposalsInv, NEW j \in GenerationJob
  PROVE  /\ IsFiniteSet(Retirements(j))
         /\ \A o \in Retirements(j) : o \in ProposalRow /\ Known(o.candidates)
<1> DEFINE gone == {h \in generation[j].targets : SourcesRemoved(LinksOf(h))}
           offers == [t \in gone |-> Proposal(j, caseRevision[t.head].content, "RETIRE_CANDIDATE", {t})]
<1>1. IsFiniteSet(gone)
  <2>1. IsFiniteSet(generation[j].targets) /\ gone \in SUBSET generation[j].targets  BY ProposalIds
  <2> HIDE DEF gone
  <2> QED  BY ONLY <2>1, FS_Subset
<1>2. IsFiniteSet(Retirements(j))
  <2>1. offers \in Surjection(gone, Retirements(j))  BY DEF Surjection, Retirements
  <2> HIDE DEF gone, offers
  <2> QED  BY ONLY <1>1, <2>1, FS_Surjection
<1>3. ASSUME NEW o \in Retirements(j) PROVE o \in ProposalRow /\ Known(o.candidates)
  <2>1. PICK t \in generation[j].targets :
           o = Proposal(j, caseRevision[t.head].content, "RETIRE_CANDIDATE", {t})
    BY DEF Retirements
  <2>2. t.head \in DOMAIN caseRevision  BY ProposalIds DEF Known
  <2>3. caseRevision[t.head].content \in Content  BY <2>2, ProposalIds, RowIds DEF RowsInv, CaseRow
  <2> QED  BY <2>1, <2>3, OffersArePins
<1> QED  BY <1>2, <1>3

\* The proposals of a unit are saved.
LEMMA UnitSaved ==
  ASSUME ProposalsInv, NEW j \in GenerationJob, NEW u, NEW outputs, SaveProposals(j, u, outputs)
  PROVE  ProposalsInv' /\ DecisionsStand
<1> DEFINE added == SetToSeq(outputs)
           row == [generation[j] EXCEPT !.saved = @ \cup {u}]
           offers == {o \in ProposalRow : Known(o.candidates)}
<1>1. /\ u \in generation[j].units /\ proposal' = proposal \o added
      /\ generation' = [generation EXCEPT ![j] = row]
      /\ UNCHANGED <<catalogVars, removed, command>>
  BY DEF SaveProposals
<1>2. IsFiniteSet(outputs) /\ outputs \subseteq offers
  <2>1. CASE outputs = Retirements(j)  BY ONLY ProposalsInv, <2>1, RetirementsPinned
  <2>2. CASE outputs \subseteq OutputsOf(j, u) /\ IsFiniteSet(outputs)
    BY ONLY ProposalsInv, <2>2, OutputsPinned
  <2> QED  BY <2>1, <2>2 DEF SaveProposals
<1>3. added \in Seq(offers)
  <2>1. added \in Seq(outputs)  BY ONLY <1>2, SetInSequence
  <2> HIDE DEF added
  <2> QED  BY <1>2, <2>1
<1> HIDE DEF added
<1>4. proposal \in Seq(offers)  BY DEF ProposalsInv, OffersPinned
<1> HIDE DEF offers
<1>5. /\ proposal' \in Seq(offers) /\ DOMAIN proposal \subseteq DOMAIN proposal'
      /\ \A p \in DOMAIN proposal : proposal'[p] = proposal[p]
  BY <1>1, <1>3, <1>4
<1>6. CatalogInv' /\ Grows  BY <1>1, CatalogKept
<1>7. OffersPinned'
  <2>1. proposal' \in Seq(ProposalRow) /\ \A p \in DOMAIN proposal' : proposal'[p] \in offers  BY <1>5 DEF offers
  <2> QED  BY <2>1, <1>1 DEF OffersPinned, Known, offers, catalogVars
<1>8. row \in JobRow /\ row.targets = generation[j].targets  BY <1>1, ProposalIds DEF JobRow
<1> HIDE DEF row
<1>9. JobsPinned'  BY <1>1, <1>8, ProposalIds, JobMoved DEF catalogVars
<1> QED  BY <1>1, <1>5, <1>6, <1>7, <1>9 DEF ProposalsInv, DecisionsStand

\* A decision is about a pending proposal, under a key that is not used yet.
LEMMA DecisionMade ==
  ASSUME ProposalsInv, NEW k \in Command, NEW p \in DOMAIN proposal, NEW decision \in ProposalDecisions, NEW f \in Nat,
         NEW now \in {"DISMISSED", "APPLIED"}, NEW result \in Nat,
         command[k] = NoCommand, Pending(p), Decided(k, p, decision, f, now, result),
         CatalogInv', Grows, UNCHANGED generation
  PROVE  ProposalsInv' /\ DecisionsStand
<1> DEFINE row == [proposal[p] EXCEPT !.status = now, !.decision = decision, !.family = f, !.result = result]
           answer == [proposal |-> p, decision |-> decision, family |-> f]
<1>1. command' = [command EXCEPT ![k] = answer] /\ proposal' = [proposal EXCEPT ![p] = row]
  BY DEF Decided
<1>2. proposal[p] \in ProposalRow /\ Known(proposal[p].candidates) /\ p \in Nat /\ proposal \in Seq(ProposalRow)
  BY ProposalIds DEF ProposalsInv, OffersPinned
<1>3. row \in ProposalRow /\ row.candidates = proposal[p].candidates  BY <1>2 DEF ProposalRow
<1>4. answer \in CommandRow  BY <1>2 DEF CommandRow
<1> HIDE DEF row, answer
<1>5. /\ proposal' \in Seq(ProposalRow) /\ DOMAIN proposal' = DOMAIN proposal
      /\ \A o \in DOMAIN proposal : proposal'[o] = IF o = p THEN row ELSE proposal[o]
  BY <1>1, <1>2, <1>3
<1>6. /\ command' \in [Command -> CommandRow]
      /\ \A c \in Command : c # k => command'[c] = command[c]
  BY <1>1, <1>4 DEF ProposalsInv
<1>7. OffersPinned'
  <2>1. \A o \in DOMAIN proposal' : Known(proposal'[o].candidates)
    BY <1>3, <1>5, ProposalIds
  <2>2. \A o \in DOMAIN proposal' : \A t \in proposal'[o].candidates :
           t.family \in DOMAIN family' /\ t.head \in DOMAIN caseRevision'
    BY <2>1 DEF Known, Grows
  <2> QED  BY <1>5, <2>2 DEF OffersPinned, Known
<1>8. JobsPinned'  BY PinsKept
<1>9. DecisionsStand  BY <1>5, <1>6 DEF DecisionsStand, Pending
<1> QED  BY <1>6, <1>7, <1>8, <1>9 DEF ProposalsInv

\* A dismissal records its command.
LEMMA ProposalDismissed ==
  ASSUME ProposalsInv, NEW k \in Command, NEW p \in DOMAIN proposal, Dismiss(k, p)
  PROVE  ProposalsInv' /\ DecisionsStand
<1>1. /\ command[k] = NoCommand /\ Pending(p) /\ Decided(k, p, "DISMISS", 0, "DISMISSED", 0)
      /\ UNCHANGED <<catalogVars, removed, generation>>
  BY DEF Dismiss
<1>2. CatalogInv' /\ Grows  BY <1>1, CatalogKept
<1>3. "DISMISS" \in ProposalDecisions /\ 0 \in Nat  BY DEF ProposalDecisions
<1> QED  BY <1>1, <1>2, <1>3, DecisionMade

\* Rows that are as they should be leave the rest of the catalog as it is.
LEMMA RowsDecided ==
  ASSUME ProposalsInv, RowsInv', Grows, UNCHANGED <<standing, sources, changes, edited, release, editor, publisher>>
  PROVE  CatalogInv'
<1>1. CatalogInv  BY DEF ProposalsInv
<1>2. EditsInv' /\ ReleasesInv'  BY <1>1, EditsStand, ReleasesStand
<1>3. CountsInv'  BY <1>1, CountsMove
<1> QED  BY <1>2, <1>3 DEF CatalogInv

\* An applied proposal creates its revision and records its command.
LEMMA ProposalApplied ==
  ASSUME ProposalsInv, NEW k \in Command, NEW p \in DOMAIN proposal,
         NEW decision \in {"ARCHIVE", "KEEP", "REVISE"}, NEW t \in proposal[p].candidates, Apply(k, p, decision, t)
  PROVE  ProposalsInv' /\ DecisionsStand
<1> DEFINE new == Len(caseRevision) + 1
<1>1. /\ command[k] = NoCommand /\ Pending(p) /\ family[t.family].head = t.head
      /\ UNCHANGED <<standing, sources, changes, edited, release, editor, publisher, removed, generation>>
  BY DEF Apply, AsPinned
<1>2. /\ t.family \in DOMAIN family /\ t.family \in Nat /\ t.head \in Nat /\ new \in Nat
      /\ proposal[p].content \in Content /\ RowsInv /\ Len(caseRevision) \in Nat
  <2>1. proposal[p] \in ProposalRow /\ Known(proposal[p].candidates) /\ RowsInv  BY ProposalIds
  <2> QED  BY <2>1, RowIds DEF ProposalRow, Target, Known, RowsInv
<1>3. decision \in ProposalDecisions  BY DEF ProposalDecisions
<1>4. CASE Archived(p, t) /\ Decided(k, p, decision, t.family, "APPLIED", t.head)
  <2> DEFINE row == [family[t.family] EXCEPT !.archived = TRUE]
  <2>1. family' = [family EXCEPT ![t.family] = row] /\ caseRevision' = caseRevision  BY <1>4 DEF Archived
  <2>2. family[t.family] \in FamilyRow /\ family \in Seq(FamilyRow) /\ caseRevision \in Seq(CaseRow)
    BY <1>2, RowIds DEF RowsInv, RowsTyped
  <2>3. row \in FamilyRow /\ row.head = family[t.family].head  BY <2>2 DEF FamilyRow
  <2> HIDE DEF row
  <2>4. /\ family' \in Seq(FamilyRow) /\ Len(family') = Len(family)
        /\ \A f \in DOMAIN family : family'[f].head = family[f].head
    BY <1>2, <2>1, <2>2, <2>3
  <2>5. RowsInv' /\ Grows  BY <1>2, <2>1, <2>2, <2>4, RowsStand
  <2> QED  BY <1>1, <1>2, <1>3, <1>4, <2>5, RowsDecided, DecisionMade
<1>5. CASE Kept(p) /\ Decided(k, p, decision, t.family, "APPLIED", t.head)
  <2>1. CatalogInv /\ UNCHANGED <<family, caseRevision>>  BY <1>5 DEF Kept, ProposalsInv
  <2>2. RowsInv' /\ Grows  BY <2>1, RowsUnchanged
  <2> QED  BY <1>1, <1>2, <1>3, <1>5, <2>2, RowsDecided, DecisionMade
<1>6. CASE Revised(p, t) /\ Decided(k, p, decision, t.family, "APPLIED", new)
  <2>1. /\ InsertRevision(t.family, proposal[p].content, family[t.family].head, 0)
        /\ family' = [family EXCEPT ![t.family].head = Len(caseRevision) + 1]
    BY <1>1, <1>6 DEF Revised
  <2>2. 0 \in 0..Len(caseRevision)  BY <1>2
  <2>3. RowsInv' /\ Grows  BY <1>2, <2>1, <2>2, HeadReplaced
  <2> HIDE DEF new
  <2> QED  BY <1>1, <1>2, <1>3, <1>6, <2>3, RowsDecided, DecisionMade
<1> QED  BY <1>4, <1>5, <1>6 DEF Apply

\* CREATE_NEW starts a family from the proposal and records its command.
LEMMA CaseProposed ==
  ASSUME ProposalsInv, NEW k \in Command, NEW p \in DOMAIN proposal, CreateNew(k, p)
  PROVE  ProposalsInv' /\ DecisionsStand
<1> DEFINE new == Len(caseRevision) + 1
<1>1. /\ command[k] = NoCommand /\ Pending(p) /\ Decided(k, p, "CREATE_NEW", 0, "APPLIED", new)
      /\ InsertRevision(Len(family) + 1, proposal[p].content, 0, 0)
      /\ family' = Append(family, [archived |-> FALSE, head |-> Len(caseRevision) + 1])
      /\ UNCHANGED <<standing, sources, changes, edited, release, editor, publisher, removed, generation>>
  BY DEF CreateNew, Created
<1>2. proposal[p].content \in Content /\ RowsInv /\ new \in Nat
  <2>1. proposal[p] \in ProposalRow /\ RowsInv  BY ProposalIds
  <2> QED  BY <2>1, RowIds DEF ProposalRow, RowsInv
<1>3. RowsInv' /\ Grows  BY <1>1, <1>2, FamilyAdded
<1>4. "CREATE_NEW" \in ProposalDecisions /\ 0 \in Nat  BY DEF ProposalDecisions
<1> HIDE DEF new
<1> QED  BY <1>1, <1>2, <1>3, <1>4, RowsDecided, DecisionMade

\* A requirement loses its source: its status changes, and nothing of the
\* catalog.
LEMMA SourceLost ==
  ASSUME ProposalsInv, NEW q \in Requirement, LoseSource(q)
  PROVE  ProposalsInv'
<1>1. /\ changes < ChangeBound /\ changes' = changes + 1 /\ standing' = [standing EXCEPT ![q] = "UNCLEAR"]
      /\ UNCHANGED <<sources, family, caseRevision, edited, release, editor, publisher, generation, proposal, command>>
  BY DEF LoseSource, Changes
<1>2. CatalogInv  BY DEF ProposalsInv
<1>3. RowsInv' /\ Grows  BY <1>1, <1>2, RowsUnchanged
<1>4. EditsInv' /\ ReleasesInv'  BY <1>1, <1>2, <1>3, EditsStand, ReleasesStand
<1>5. CountsInv'  BY <1>1, <1>2, CatalogAssumption DEF CatalogInv, CountsInv
<1> QED  BY <1>1, <1>3, <1>4, <1>5, PinsKept DEF ProposalsInv, CatalogInv

\* Every step keeps what proposals pin.
LEMMA ProposalsStep ==
  ASSUME ProposalsInv, [ProposalsNext]_<<catalogVars, proposalVars>>
  PROVE  ProposalsInv' /\ DecisionsStand
<1>1. UNCHANGED <<proposal, command>> => DecisionsStand  BY DEF DecisionsStand
<1>2. CASE [CatalogNext]_catalogVars /\ UNCHANGED proposalVars
  <2>1. CatalogInv' /\ Grows  BY <1>2, CatalogStep DEF ProposalsInv
  <2> QED  BY <1>1, <1>2, <2>1, PinsKept DEF proposalVars, ProposalsInv
<1>3. ASSUME NEW q \in Requirement, LoseSource(q) PROVE ProposalsInv' /\ DecisionsStand
  BY <1>1, <1>3, SourceLost DEF LoseSource
<1>4. ASSUME NEW j \in GenerationJob, NEW scope \in {"ALL", "AFFECTED", "SELECTED"},
             NEW selected \in SUBSET Requirement, StartJob(j, scope, selected)
      PROVE  ProposalsInv' /\ DecisionsStand
  BY <1>1, <1>4, JobStarted DEF StartJob
<1>5. ASSUME NEW j \in GenerationJob, NEW u, NEW outputs, SaveProposals(j, u, outputs)
      PROVE  ProposalsInv' /\ DecisionsStand
  BY ONLY ProposalsInv, <1>5, UnitSaved
<1>6. ASSUME NEW j \in GenerationJob,
             RetryJob(j) \/ \E now \in {"SUCCEEDED", "PARTIAL_FAILED", "FAILED"} : EndJob(j, now)
      PROVE  ProposalsInv' /\ DecisionsStand
  <2>1. UNCHANGED <<proposal, command>>  BY <1>6 DEF RetryJob, EndJob
  <2> QED  BY <1>1, <1>6, <2>1, JobEnded
<1>7. ASSUME NEW k \in Command, NEW p \in DOMAIN proposal,
             \/ Dismiss(k, p) \/ CreateNew(k, p)
             \/ \E decision \in {"ARCHIVE", "KEEP", "REVISE"}, t \in proposal[p].candidates : Apply(k, p, decision, t)
      PROVE  ProposalsInv' /\ DecisionsStand
  BY ONLY ProposalsInv, <1>7, ProposalDismissed, CaseProposed, ProposalApplied
<1> QED  BY <1>2, <1>3, <1>4, <1>5, <1>6, <1>7 DEF ProposalsNext, CatalogMoves

\* A proposal revises the head that its job pinned or nothing, so that families
\* stay chains, and one decision about it stands with its command: however
\* jobs, editors and reviewers interleave (decideProposal).
THEOREM Proposals == ProposalsSpec => ProposalsStand
<1>1. ProposalsInv => RevisesWhatWasPinned
  <2> SUFFICES ASSUME ProposalsInv PROVE RevisesWhatWasPinned  OBVIOUS
  <2>1. \A r, s \in DOMAIN caseRevision :
           r # s /\ caseRevision[r].parent = caseRevision[s].parent => caseRevision[r].parent = 0
    BY DEF ProposalsInv, CatalogInv, RowsInv, ChainsLinked
  <2>2. \A f \in DOMAIN family : \A r \in RevisionsOf(f) : r <= family[f].head
    BY DEF ProposalsInv, CatalogInv, RowsInv, ChainsLinked, Linked1, RevisionsOf
  <2> QED  BY <2>1, <2>2 DEF RevisesWhatWasPinned
<1>2. ProposalsInv /\ [ProposalsNext]_<<catalogVars, proposalVars>> => ProposalsInv'  BY ProposalsStep
<1>3. ProposalsInv /\ [ProposalsNext]_<<catalogVars, proposalVars>> =>
        [/\ \A p \in DOMAIN proposal : proposal[p].status # "PENDING" => proposal'[p] = proposal[p]
         /\ \A k \in Command : command[k] # NoCommand => command'[k] = command[k]]_<<catalogVars, proposalVars>>
  BY ProposalsStep DEF DecisionsStand
<1> QED  BY <1>1, <1>2, <1>3, ProposalsStart, PTL DEF ProposalsSpec, ProposalsStand, DecidedOnce
=============================================================================
