------------------------ MODULE WorkflowQueue_proofs ------------------------
(***************************************************************************)
(* Proofs about WorkflowQueue for every set of jobs, workers and lanes and  *)
(* every number of units and attempts.                                      *)
(***************************************************************************)
EXTENDS WorkflowQueue, FiniteSetTheorems, TLAPS

\* The keys of the units: 'operation' is none of the generation units.
LEMMA Keys == Operation \in Key /\ Unit \subseteq Key /\ Operation \notin Unit
BY UnitsAssumption DEF Operation, Unit, Key

\* A count of generation units fits the completed_units column.
LEMMA UnitCount == ASSUME NEW S \in SUBSET Unit PROVE Cardinality(S) \in 0..NUnits
<1>1. IsFiniteSet(Unit) /\ Cardinality(Unit) = NUnits
  BY FS_Interval, UnitsAssumption DEF Unit
<1>2. IsFiniteSet(S) /\ Cardinality(S) <= Cardinality(Unit)
  BY <1>1, FS_Subset
<1>3. Cardinality(S) \in Nat
  BY <1>2, FS_CardinalityType
<1> QED
  BY <1>1, <1>2, <1>3, UnitsAssumption

-----------------------------------------------------------------------------
(* The invariant.                                                          *)

\* A busy worker's claim lies in the past of its job, it holds the last
\* revision only if it holds the last attempt of the operation unit, and two
\* claims of one job differ in both numbers.  The operation unit's counter
\* takes over where Retry resets the job's.
ClaimsOrdered ==
    /\ \A w \in Worker : pc[w] # "idle" =>
          LET j == claim[w].job IN
          /\ status[j] # "NONE"
          /\ claim[w].revision <= revision[j]
          /\ claim[w].unitAttempt <= unitAttempt[j][Operation]
          /\ claim[w].revision = revision[j] =>
                claim[w].unitAttempt = unitAttempt[j][Operation]
    /\ \A v, w \in Worker :
          pc[v] # "idle" /\ pc[w] # "idle" /\ v # w /\ claim[v].job = claim[w].job
          => /\ claim[v].revision # claim[w].revision
             /\ claim[v].unitAttempt # claim[w].unitAttempt

\* A worker that is in a unit, or about to begin one, names a unit of its job.
UnitHeld == \A w \in Worker : pc[w] = "unit" => next[w] \in Unit

\* A row that was never inserted is empty.
Fresh == \A j \in Job : status[j] = "NONE" =>
            /\ ~cancel[j] /\ completed[j] = 0
            /\ \A k \in Key : unitStatus[j][k] = "NONE"

\* A job with a pending cancel request is running or has ended without result.
CancelPending == \A j \in Job : cancel[j] => status[j] \in {"RUNNING", "CANCELED", "FAILED"}

IInv == TypeOK /\ UnitHeld /\ ClaimsOrdered /\ Fresh /\ CancelPending /\ JobUnitAgree

\* What every step but a claim does to the job numbers and to the claims.
Keeps ==
    /\ \A j \in Job : status[j] # "NONE" =>
          /\ status'[j] # "NONE"
          /\ revision'[j] >= revision[j]
          /\ unitAttempt'[j][Operation] = unitAttempt[j][Operation]
    /\ \A w \in Worker : pc'[w] # "idle" =>
          pc[w] # "idle" /\ claim'[w] = claim[w]

-----------------------------------------------------------------------------
(* Type correctness.                                                       *)

\* The initial rows and workers are well typed.
LEMMA InitType == Init => TypeOK /\ UnitHeld
<1> SUFFICES ASSUME Init PROVE TypeOK /\ UnitHeld
  OBVIOUS
<1>1. /\ attempt \in [Job -> 0..MaxAttempts] /\ completed \in [Job -> 0..NUnits]
      /\ next \in [Worker -> 1..(NUnits + 1)]
  BY UnitsAssumption, AttemptsAssumption DEF Init
<1>2. claim \in [Worker -> Claim]
  BY DEF Init, NoClaim, Claim
<1> QED
  BY <1>1, <1>2 DEF Init, TypeOK, UnitHeld, UnitState, Active, Terminal, Retryable, Processing

\* The user commands keep the types.
LEMMA UserType == TypeOK /\ UnitHeld /\ User => TypeOK' /\ UnitHeld'
<1> SUFFICES ASSUME TypeOK, UnitHeld, NEW j \in Job,
                    (\E l \in Lane : Enqueue(j, l)) \/ Cancel(j) \/ Retry(j)
             PROVE  TypeOK' /\ UnitHeld'
  BY DEF User
<1>1. ASSUME NEW l \in Lane, Enqueue(j, l) PROVE TypeOK' /\ UnitHeld'
  <2>1. unitStatus' \in [Job -> [Key -> UnitState]]
    BY <1>1 DEF TypeOK, Enqueue, UnitState
  <2>2. /\ lane' \in [Job -> Lane \cup {NoLane}]
        /\ status' \in [Job -> {"NONE"} \cup Active \cup Terminal]
        /\ revision' \in [Job -> Nat]
    BY <1>1 DEF TypeOK, Enqueue, Active
  <2> QED BY <1>1, <2>1, <2>2 DEF TypeOK, UnitHeld, Enqueue, workerVars
<1>2. ASSUME Cancel(j) PROVE TypeOK' /\ UnitHeld'
  <2>1. unitStatus' \in [Job -> [Key -> UnitState]]
    BY <1>2 DEF TypeOK, Cancel, UnitState
  <2>2. /\ status' \in [Job -> {"NONE"} \cup Active \cup Terminal]
        /\ lease' \in [Job -> {"none", "live", "expired"}]
        /\ revision' \in [Job -> Nat]
        /\ cancel' \in [Job -> BOOLEAN]
    BY <1>2 DEF TypeOK, Cancel, Terminal, Retryable
  <2> QED BY <1>2, <2>1, <2>2 DEF TypeOK, UnitHeld, Cancel, workerVars
<1>3. ASSUME Retry(j) PROVE TypeOK' /\ UnitHeld'
  <2>1. unitStatus' \in [Job -> [Key -> UnitState]]
    BY <1>3 DEF TypeOK, Retry, Reopened, UnitState
  <2>2. Cardinality(Succeeded(j)) \in 0..NUnits
    BY UnitCount DEF Succeeded, UnitsIn
  <2>3. /\ status' \in [Job -> {"NONE"} \cup Active \cup Terminal]
        /\ lease' \in [Job -> {"none", "live", "expired"}]
        /\ revision' \in [Job -> Nat]
        /\ cancel' \in [Job -> BOOLEAN]
        /\ completed' \in [Job -> 0..NUnits]
    BY <1>3, <2>2 DEF TypeOK, Retry, Active
  <2>4. attempt' \in [Job -> 0..MaxAttempts]
    BY <1>3, AttemptsAssumption DEF TypeOK, Retry
  <2> QED BY <1>3, <2>1, <2>3, <2>4 DEF TypeOK, UnitHeld, Retry, workerVars
<1> QED BY <1>1, <1>2, <1>3

\* A claim keeps the types, together with the sweep that it commits.
LEMMA ClaimType == ASSUME TypeOK, UnitHeld, NEW w \in Worker, NEW j \in Job,
                          ClaimNext(w, j)
                   PROVE  TypeOK' /\ UnitHeld'
<1>1. status' \in [Job -> {"NONE"} \cup Active \cup Terminal]
  BY DEF TypeOK, ClaimNext, Active, Terminal, Retryable
<1>2. revision' \in [Job -> Nat] /\ lease' \in [Job -> {"none", "live", "expired"}]
  BY DEF TypeOK, ClaimNext
<1>3. attempt[j] + 1 \in 0..MaxAttempts
  BY AttemptsAssumption DEF TypeOK, ClaimNext, Claimable
<1>4. attempt' \in [Job -> 0..MaxAttempts]
  BY <1>3 DEF TypeOK, ClaimNext
<1>5. unitStatus' \in [Job -> [Key -> UnitState]]
  <2> SUFFICES ASSUME NEW i \in Job, NEW k \in Key
               PROVE  (IF i = j /\ k = Operation THEN "RUNNING"
                       ELSE IF Exhausted(i) /\ unitStatus[i][k] = "RUNNING" THEN "FAILED"
                       ELSE unitStatus[i][k]) \in UnitState
    BY DEF ClaimNext
  <2> QED BY DEF TypeOK, UnitState
<1>6. unitAttempt' \in [Job -> [Key -> Nat]]
  BY Keys DEF TypeOK, ClaimNext
<1>7. [job |-> j, revision |-> revision[j] + 1, attempt |-> attempt[j] + 1,
       unitAttempt |-> unitAttempt[j][Operation] + 1] \in Claim
  <2>1. attempt[j] + 1 \in Nat
    BY <1>3, AttemptsAssumption
  <2>2. revision[j] + 1 \in Nat /\ unitAttempt[j][Operation] + 1 \in Nat
    BY Keys DEF TypeOK
  <2> QED BY <2>1, <2>2 DEF Claim
<1>8. /\ claim' \in [Worker -> Claim]
      /\ pc' \in [Worker -> {"idle", "publish", "fail"} \cup Processing]
  BY <1>7 DEF TypeOK, ClaimNext, Processing
<1>9. \A v \in Worker : pc'[v] # "idle" => claim'[v].job \in Job
  BY DEF TypeOK, ClaimNext
<1>10. UnitHeld'
  BY DEF TypeOK, UnitHeld, ClaimNext
<1> QED
  BY <1>1, <1>2, <1>4, <1>5, <1>6, <1>8, <1>9, <1>10 DEF TypeOK, ClaimNext

-----------------------------------------------------------------------------
\* What a worker holds in memory, as far as types go.
WorkersTyped ==
    /\ pc \in [Worker -> {"idle", "publish", "fail"} \cup Processing]
    /\ claim \in [Worker -> Claim]
    /\ next \in [Worker -> 1..(NUnits + 1)]
    /\ error \in [Worker -> {"none", "retryable", "permanent", "canceled"}]
    /\ \A w \in Worker : pc[w] # "idle" => claim[w].job \in Job
    /\ UnitHeld

\* The rows of the jobs and of their units, as far as types go.
RowsTyped ==
    /\ lane \in [Job -> Lane \cup {NoLane}]
    /\ status \in [Job -> {"NONE"} \cup Active \cup Terminal]
    /\ revision \in [Job -> Nat]
    /\ attempt \in [Job -> 0..MaxAttempts]
    /\ lease \in [Job -> {"none", "live", "expired"}]
    /\ cancel \in [Job -> BOOLEAN]
    /\ completed \in [Job -> 0..NUnits]
    /\ unitStatus \in [Job -> [Key -> UnitState]]
    /\ unitAttempt \in [Job -> [Key -> Nat]]

\* The type invariant splits into the rows and the workers.
LEMMA TypeParts == TypeOK /\ UnitHeld <=> RowsTyped /\ WorkersTyped
BY DEF TypeOK, RowsTyped, WorkersTyped

\* The same split after a step.
LEMMA TypePartsPrime == TypeOK' /\ UnitHeld' <=> RowsTyped' /\ WorkersTyped'
BY DEF TypeOK, RowsTyped, WorkersTyped

\* A worker that gives up keeps the types.
LEMMA StopKeeps == ASSUME WorkersTyped, NEW w \in Worker, pc[w] # "idle",
                          NEW e \in {"none", "retryable", "permanent", "canceled"},
                          StopWith(w, e)
                   PROVE  WorkersTyped'
BY DEF WorkersTyped, StopWith, UnitHeld

\* A worker that goes idle keeps the types.
LEMMA IdleKeeps == ASSUME WorkersTyped, NEW w \in Worker, BecomeIdle(w)
                   PROVE  WorkersTyped'
<1>1. claim' \in [Worker -> Claim] /\ next' \in [Worker -> 1..(NUnits + 1)]
  BY UnitsAssumption DEF WorkersTyped, BecomeIdle, NoClaim, Claim
<1> QED
  BY <1>1 DEF WorkersTyped, BecomeIdle, UnitHeld

\* The end of a unit keeps the types of the unit rows and of the worker.
LEMMA EndUnitKeeps == ASSUME RowsTyped, WorkersTyped, NEW w \in Worker, pc[w] = "unit",
                             NEW s \in UnitState, EndUnit(w, s)
                      PROVE  /\ WorkersTyped'
                             /\ unitStatus' \in [Job -> [Key -> UnitState]]
                             /\ unitAttempt' \in [Job -> [Key -> Nat]]
<1>1. claim[w].job \in Job /\ next[w] \in Unit
  BY DEF WorkersTyped, UnitHeld
<1>2. next[w] \in Key
  BY <1>1, Keys
<1>3. unitStatus' \in [Job -> [Key -> UnitState]]
  BY <1>1, <1>2 DEF RowsTyped, EndUnit
<1>4. next[w] + 1 \in 1..(NUnits + 1)
  BY <1>1, UnitsAssumption DEF Unit
<1>5. WorkersTyped'
  BY <1>4 DEF WorkersTyped, EndUnit, UnitHeld, Processing
<1> QED
  BY <1>3, <1>5 DEF EndUnit, RowsTyped

\* Every step of a busy worker keeps the types.
LEMMA WorkerType ==
    ASSUME RowsTyped, WorkersTyped, NEW w \in Worker,
           \/ BeginUnit(w) \/ SaveProposals(w) \/ FailUnit(w) \/ FinishProcess(w)
           \/ CompleteGeneration(w) \/ CompleteOperation(w) \/ PublishFails(w)
           \/ Fail(w) \/ Heartbeat(w) \/ StopProcess(w) \/ Crash(w)
           \/ \E e \in {"retryable", "permanent"} : ProcessFails(w, e)
    PROVE  RowsTyped' /\ WorkersTyped'
<1>0. pc[w] # "idle" => claim[w].job \in Job
  BY DEF WorkersTyped
<1>1. CASE BeginUnit(w)
  <2>1. claim[w].job \in Job /\ next[w] \in Unit
    BY <1>0, <1>1 DEF BeginUnit, HasUnit
  <2>2. next[w] \in Key
    BY <2>1, Keys
  <2>3. next[w] + 1 \in 1..(NUnits + 1)
    BY <2>1, UnitsAssumption DEF Unit
  <2>4. RowsTyped'
    <3>1. CASE UNCHANGED unitVars
      BY <1>1, <3>1 DEF RowsTyped, BeginUnit, jobVars, unitVars
    <3>2. CASE /\ unitStatus' = [unitStatus EXCEPT ![claim[w].job][next[w]] = "RUNNING"]
               /\ unitAttempt' = [unitAttempt EXCEPT ![claim[w].job][next[w]] = @ + 1]
      BY <1>1, <2>1, <2>2, <3>2 DEF RowsTyped, BeginUnit, jobVars, UnitState
    <3> QED BY <1>1, <3>1, <3>2 DEF BeginUnit
  <2>5. CASE StopWith(w, "retryable")
    BY <1>1, <2>4, <2>5, StopKeeps DEF BeginUnit
  <2>6. CASE next' = [next EXCEPT ![w] = @ + 1] /\ UNCHANGED <<pc, claim, error>>
    BY <1>1, <2>3, <2>4, <2>6 DEF WorkersTyped, BeginUnit, UnitHeld
  <2>7. CASE Goto(w, "unit")
    BY <2>1, <2>4, <2>7 DEF WorkersTyped, Goto, UnitHeld, Processing
  <2> QED BY <1>1, <2>5, <2>6, <2>7 DEF BeginUnit
<1>2. CASE SaveProposals(w)
  <2>1. claim[w].job \in Job /\ pc[w] = "unit"
    BY <1>0, <1>2 DEF SaveProposals
  <2>2. CASE /\ EndUnit(w, "SUCCEEDED")
             /\ completed' = [completed EXCEPT ![claim[w].job] =
                                 Cardinality(Succeeded(claim[w].job) \cup {next[w]})]
    <3>1. next[w] \in Unit
      BY <2>1 DEF WorkersTyped, UnitHeld
    <3>2. Cardinality(Succeeded(claim[w].job) \cup {next[w]}) \in 0..NUnits
      BY <3>1, UnitCount DEF Succeeded, UnitsIn
    <3>3. completed' \in [Job -> 0..NUnits]
      BY <2>1, <2>2, <3>2 DEF RowsTyped
    <3> QED BY <1>2, <2>1, <2>2, <3>3, EndUnitKeeps DEF RowsTyped, SaveProposals, UnitState
  <2>3. CASE StopWith(w, "permanent") /\ UNCHANGED <<unitVars, completed>>
    <3>1. WorkersTyped'
      BY <2>1, <2>3, StopKeeps
    <3> QED BY <1>2, <2>3, <3>1 DEF RowsTyped, SaveProposals, unitVars
  <2> QED BY <1>2, <2>2, <2>3 DEF SaveProposals
<1>3. CASE FailUnit(w)
  <2>1. pc[w] = "unit"
    BY <1>3 DEF FailUnit
  <2>2. CASE EndUnit(w, "FAILED")
    BY <1>3, <2>1, <2>2, EndUnitKeeps DEF RowsTyped, FailUnit, UnitState, jobVars
  <2>3. CASE StopWith(w, "retryable") /\ UNCHANGED unitVars
    <3>1. WorkersTyped'
      BY <2>1, <2>3, StopKeeps
    <3> QED BY <1>3, <2>3, <3>1 DEF RowsTyped, FailUnit, unitVars, jobVars
  <2> QED BY <1>3, <2>2, <2>3 DEF FailUnit
<1>4. CASE FinishProcess(w)
  BY <1>4 DEF FinishProcess, Goto, RowsTyped, WorkersTyped, UnitHeld, jobVars, unitVars
<1>5. CASE CompleteGeneration(w)
  <2>1. claim[w].job \in Job
    BY <1>0, <1>5 DEF CompleteGeneration
  <2>2. Cardinality(Succeeded(claim[w].job)) \in 0..NUnits
    BY UnitCount DEF Succeeded, UnitsIn
  <2>3. unitStatus' \in [Job -> [Key -> UnitState]]
    BY <1>5, <2>1, Keys DEF CompleteGeneration, RowsTyped, UnitState
  <2>4. status' \in [Job -> {"NONE"} \cup Active \cup Terminal]
    BY <1>5, <2>1 DEF CompleteGeneration, RowsTyped, Outcome, Terminal, Retryable
  <2>5. WorkersTyped'
    BY <1>5, IdleKeeps DEF CompleteGeneration
  <2> QED BY <1>5, <2>1, <2>2, <2>3, <2>4, <2>5 DEF CompleteGeneration, RowsTyped
<1>6. CASE CompleteOperation(w)
  <2>1. claim[w].job \in Job
    BY <1>0, <1>6 DEF CompleteOperation
  <2>2. 1 \in 0..NUnits
    BY UnitsAssumption
  <2>3. unitStatus' \in [Job -> [Key -> UnitState]]
    BY <1>6, <2>1, Keys DEF CompleteOperation, RowsTyped, UnitState
  <2>4. status' \in [Job -> {"NONE"} \cup Active \cup Terminal]
    BY <1>6, <2>1 DEF CompleteOperation, RowsTyped, Terminal
  <2>5. WorkersTyped'
    BY <1>6, IdleKeeps DEF CompleteOperation
  <2> QED BY <1>6, <2>1, <2>2, <2>3, <2>4, <2>5 DEF CompleteOperation, RowsTyped
<1>7. CASE Fail(w)
  <2>1. claim[w].job \in Job
    BY <1>0, <1>7 DEF Fail
  <2>2. FailedStatus(w) \in {"CANCELED", "QUEUED", "FAILED"}
    BY DEF FailedStatus
  <2>3. WorkersTyped'
    BY <1>7, IdleKeeps DEF Fail
  <2>4. CASE FailFence(w)
    <3> DEFINE j == claim[w].job
    <3>0. /\ unitStatus' = [unitStatus EXCEPT ![j][Operation] =
                IF unitAttempt[j][Operation] = claim[w].unitAttempt
                THEN FailedStatus(w) ELSE @]
          /\ status' = [status EXCEPT ![j] = FailedStatus(w)]
          /\ revision' = [revision EXCEPT ![j] = @ + 1]
          /\ lease' = [lease EXCEPT ![j] = "none"]
      BY <1>7, <2>4 DEF Fail
    <3>1. unitStatus' \in [Job -> [Key -> UnitState]]
      BY <2>1, <2>2, <3>0, Keys DEF RowsTyped, UnitState
    <3>2. status' \in [Job -> {"NONE"} \cup Active \cup Terminal]
      BY <2>1, <2>2, <3>0 DEF RowsTyped, Active, Terminal, Retryable
    <3> QED BY <1>7, <2>1, <2>3, <3>0, <3>1, <3>2 DEF Fail, RowsTyped
  <2>5. CASE ~FailFence(w)
    BY <1>7, <2>3, <2>5 DEF Fail, RowsTyped
  <2> QED BY <2>4, <2>5
<1>8. CASE PublishFails(w)
  <2>1. WorkersTyped'
    BY <1>8, StopKeeps DEF PublishFails
  <2> QED BY <1>8, <2>1 DEF PublishFails, RowsTyped, jobVars, unitVars
<1>9. CASE Heartbeat(w)
  BY <1>9 DEF Heartbeat, RowsTyped, WorkersTyped, UnitHeld, unitVars, workerVars
<1>10. CASE StopProcess(w)
  <2>1. WorkersTyped'
    BY <1>10, StopKeeps DEF StopProcess, Processing
  <2> QED BY <1>10, <2>1 DEF StopProcess, RowsTyped, jobVars, unitVars
<1>11. CASE Crash(w)
  <2>1. WorkersTyped'
    BY <1>11, IdleKeeps DEF Crash
  <2> QED BY <1>11, <2>1 DEF Crash, RowsTyped, jobVars, unitVars
<1>12. ASSUME NEW e \in {"retryable", "permanent"}, ProcessFails(w, e)
       PROVE  RowsTyped' /\ WorkersTyped'
  <2>1. WorkersTyped'
    BY <1>12, StopKeeps DEF ProcessFails, Processing
  <2> QED BY <1>12, <2>1 DEF ProcessFails, RowsTyped, jobVars, unitVars
<1> QED BY <1>1, <1>2, <1>3, <1>4, <1>5, <1>6, <1>7, <1>8, <1>9, <1>10, <1>11, <1>12

\* Every step keeps the types.
LEMMA NextType == TypeOK /\ UnitHeld /\ [Next]_vars => TypeOK' /\ UnitHeld'
<1> SUFFICES ASSUME TypeOK, UnitHeld, [Next]_vars PROVE TypeOK' /\ UnitHeld'
  OBVIOUS
<1>1. CASE User
  BY <1>1, UserType
<1>2. ASSUME NEW w \in Worker, NEW j \in Job, ClaimNext(w, j) PROVE TypeOK' /\ UnitHeld'
  BY <1>2, ClaimType
<1>3. ASSUME NEW j \in Job, LeaseExpires(j) PROVE TypeOK' /\ UnitHeld'
  BY <1>3 DEF LeaseExpires, TypeOK, UnitHeld, unitVars, workerVars
<1>4. ASSUME NEW w \in Worker,
             \/ BeginUnit(w) \/ SaveProposals(w) \/ FailUnit(w) \/ FinishProcess(w)
             \/ CompleteGeneration(w) \/ CompleteOperation(w) \/ PublishFails(w)
             \/ Fail(w) \/ Heartbeat(w) \/ StopProcess(w) \/ Crash(w)
             \/ \E e \in {"retryable", "permanent"} : ProcessFails(w, e)
      PROVE  TypeOK' /\ UnitHeld'
  BY <1>4, WorkerType, TypeParts, TypePartsPrime
<1>5. CASE UNCHANGED vars
  BY <1>5 DEF TypeOK, UnitHeld, vars, jobVars, unitVars, workerVars
<1> QED BY <1>1, <1>2, <1>3, <1>4, <1>5 DEF Next, Environment, Progress

\* Every row and every worker always holds values of its type: no counter of
\* attempts or units leaves its range, and a busy worker always has a job.
THEOREM TypeCorrect == Spec => []TypeOK
<1>1. Init => TypeOK /\ UnitHeld
  BY InitType
<1>2. TypeOK /\ UnitHeld /\ [Next]_vars => (TypeOK /\ UnitHeld)'
  BY NextType
<1> QED BY <1>1, <1>2, PTL DEF Spec

-----------------------------------------------------------------------------
(* The steps, as the safety proofs see them.                               *)

\* Nothing but leases, attempt counters and the memory of workers changes.
Quiet == UNCHANGED <<lane, status, revision, cancel, completed, unitStatus, unitAttempt>>

\* One generation unit of a job that runs, and is not canceled, moves on.
UnitStep ==
    \E j \in Job, k \in Unit, s \in {"RUNNING", "SUCCEEDED", "FAILED"} :
        /\ status[j] = "RUNNING" /\ ~cancel[j] /\ unitStatus[j][k] # "SUCCEEDED"
        /\ unitStatus' = [unitStatus EXCEPT ![j][k] = s]
        /\ \/ UNCHANGED unitAttempt
           \/ unitAttempt' = [unitAttempt EXCEPT ![j][k] = @ + 1]
        /\ IF s = "SUCCEEDED"
           THEN completed' = [completed EXCEPT ![j] = Cardinality(Succeeded(j) \cup {k})]
           ELSE completed' = completed
        /\ UNCHANGED <<lane, status, revision, cancel>>

\* The steps of a worker inside its units are quiet or move one unit.
LEMMA UnitSteps == ASSUME TypeOK, UnitHeld, NEW w \in Worker,
                          BeginUnit(w) \/ SaveProposals(w) \/ FailUnit(w)
                   PROVE  Quiet \/ UnitStep
<1>1. CASE BeginUnit(w)
  <2>1. claim[w].job \in Job /\ next[w] \in Unit
    BY <1>1 DEF TypeOK, BeginUnit, HasUnit
  <2>2. UNCHANGED jobVars
    BY <1>1 DEF BeginUnit
  <2>3. CASE UNCHANGED unitVars
    BY <2>2, <2>3 DEF Quiet, jobVars, unitVars
  <2>4. CASE /\ RevisionFence(w) /\ unitStatus[claim[w].job][next[w]] # "SUCCEEDED"
             /\ unitStatus' = [unitStatus EXCEPT ![claim[w].job][next[w]] = "RUNNING"]
             /\ unitAttempt' = [unitAttempt EXCEPT ![claim[w].job][next[w]] = @ + 1]
    BY <2>1, <2>2, <2>4 DEF UnitStep, RevisionFence, HeartbeatFence, jobVars
  <2> QED BY <1>1, <2>3, <2>4 DEF BeginUnit
<1>2. CASE SaveProposals(w)
  <2>1. claim[w].job \in Job /\ next[w] \in Unit
    BY <1>2 DEF TypeOK, SaveProposals, UnitHeld
  <2>2. CASE UNCHANGED <<unitVars, completed>>
    BY <1>2, <2>2 DEF SaveProposals, Quiet, unitVars
  <2>3. CASE /\ RevisionFence(w) /\ unitStatus[claim[w].job][next[w]] = "RUNNING"
             /\ EndUnit(w, "SUCCEEDED")
             /\ completed' = [completed EXCEPT ![claim[w].job] =
                                 Cardinality(Succeeded(claim[w].job) \cup {next[w]})]
    BY <1>2, <2>1, <2>3
       DEF UnitStep, RevisionFence, HeartbeatFence, EndUnit, SaveProposals
  <2> QED BY <1>2, <2>2, <2>3 DEF SaveProposals
<1>3. CASE FailUnit(w)
  <2>1. claim[w].job \in Job /\ next[w] \in Unit
    BY <1>3 DEF TypeOK, FailUnit, UnitHeld
  <2>2. CASE UNCHANGED unitVars
    BY <1>3, <2>2 DEF FailUnit, Quiet, unitVars, jobVars
  <2>3. CASE /\ RevisionFence(w) /\ unitStatus[claim[w].job][next[w]] = "RUNNING"
             /\ EndUnit(w, "FAILED")
    BY <1>3, <2>1, <2>3
       DEF UnitStep, RevisionFence, HeartbeatFence, EndUnit, FailUnit, jobVars
  <2> QED BY <1>3, <2>2, <2>3 DEF FailUnit
<1> QED BY <1>1, <1>2, <1>3

\* The end of a claim that changes its job.
Ends(w) == CompleteGeneration(w) \/ CompleteOperation(w) \/ (Fail(w) /\ FailFence(w))

\* Every step is one of these.
LEMMA Steps ==
    ASSUME TypeOK, UnitHeld, [Next]_vars
    PROVE  \/ Quiet \/ UnitStep
           \/ \E j \in Job : (\E l \in Lane : Enqueue(j, l)) \/ Cancel(j) \/ Retry(j)
           \/ \E w \in Worker, j \in Job : ClaimNext(w, j)
           \/ \E w \in Worker : claim[w].job \in Job /\ pc[w] # "idle" /\ Ends(w)
<1>1. ASSUME NEW w \in Worker, BeginUnit(w) \/ SaveProposals(w) \/ FailUnit(w)
      PROVE  Quiet \/ UnitStep
  BY <1>1, UnitSteps
<1>2. ASSUME NEW w \in Worker,
             \/ FinishProcess(w) \/ PublishFails(w) \/ StopProcess(w) \/ Crash(w)
             \/ \E e \in {"retryable", "permanent"} : ProcessFails(w, e)
      PROVE  Quiet
  BY <1>2 DEF FinishProcess, PublishFails, StopProcess, Crash, ProcessFails, Quiet,
              jobVars, unitVars
<1>3. ASSUME NEW w \in Worker, Heartbeat(w) PROVE Quiet
  BY <1>3 DEF Heartbeat, Quiet, unitVars
<1>4. ASSUME NEW j \in Job, LeaseExpires(j) PROVE Quiet
  BY <1>4 DEF LeaseExpires, Quiet, unitVars
<1>5. ASSUME NEW w \in Worker, CompleteGeneration(w) \/ CompleteOperation(w)
      PROVE  claim[w].job \in Job /\ pc[w] # "idle" /\ Ends(w)
  BY <1>5 DEF TypeOK, CompleteGeneration, CompleteOperation, Ends
<1>6. ASSUME NEW w \in Worker, Fail(w)
      PROVE  Quiet \/ (claim[w].job \in Job /\ pc[w] # "idle" /\ Ends(w))
  <2>1. claim[w].job \in Job /\ pc[w] # "idle"
    BY <1>6 DEF Fail, TypeOK
  <2>2. CASE ~FailFence(w)
    BY <1>6, <2>2 DEF Fail, Quiet
  <2> QED BY <1>6, <2>1, <2>2 DEF Ends
<1>7. CASE UNCHANGED vars
  BY <1>7 DEF Quiet, vars, jobVars, unitVars
<1> QED BY <1>1, <1>2, <1>3, <1>4, <1>5, <1>6, <1>7 DEF Next, User, Environment, Progress

\* What a Fail within its fence does to the rows.
LEMMA FailRows ==
    ASSUME NEW w \in Worker, Fail(w), FailFence(w), NEW j, j = claim[w].job
    PROVE  /\ status[j] = "RUNNING"
           /\ unitStatus' = [unitStatus EXCEPT ![j][Operation] =
                 IF unitAttempt[j][Operation] = claim[w].unitAttempt
                 THEN FailedStatus(w) ELSE @]
           /\ status' = [status EXCEPT ![j] = FailedStatus(w)]
           /\ revision' = [revision EXCEPT ![j] = @ + 1]
           /\ FailedStatus(w) \in {"CANCELED", "QUEUED", "FAILED"}
           /\ cancel[j] => FailedStatus(w) = "CANCELED"
           /\ UNCHANGED <<lane, cancel, completed, unitAttempt>>
<1>1. FailedStatus(w) \in {"CANCELED", "QUEUED", "FAILED"}
  BY DEF FailedStatus
<1>2. cancel[j] => FailedStatus(w) = "CANCELED"
  BY DEF FailedStatus
<1>3. status[j] = "RUNNING"
  BY DEF FailFence
<1> QED BY <1>1, <1>2, <1>3 DEF Fail

-----------------------------------------------------------------------------
(* The invariant is inductive.                                             *)

\* No step but a claim gives a worker a claim, lowers a revision or counts an
\* attempt of the operation unit.
LEMMA KeepsRows ==
    ASSUME TypeOK, UnitHeld,
           \/ Quiet \/ UnitStep
           \/ \E j \in Job : (\E l \in Lane : Enqueue(j, l)) \/ Cancel(j) \/ Retry(j)
           \/ \E w \in Worker : claim[w].job \in Job /\ Ends(w)
    PROVE  \A j \in Job : status[j] # "NONE" =>
                /\ status'[j] # "NONE"
                /\ revision'[j] >= revision[j]
                /\ unitAttempt'[j][Operation] = unitAttempt[j][Operation]
<1> SUFFICES ASSUME NEW j \in Job, status[j] # "NONE"
             PROVE  /\ status'[j] # "NONE"
                    /\ revision'[j] >= revision[j]
                    /\ unitAttempt'[j][Operation] = unitAttempt[j][Operation]
  OBVIOUS
<1>0. revision[j] \in Nat
  BY DEF TypeOK
<1>1. CASE Quiet
  BY <1>0, <1>1 DEF Quiet
<1>2. CASE UnitStep
  <2> PICK i \in Job, k \in Unit :
        /\ \/ UNCHANGED unitAttempt
           \/ unitAttempt' = [unitAttempt EXCEPT ![i][k] = @ + 1]
        /\ UNCHANGED <<status, revision>>
    BY <1>2 DEF UnitStep
  <2>1. k # Operation /\ Operation \in Key /\ k \in Key
    BY Keys
  <2>2. unitAttempt \in [Job -> [Key -> Nat]]
    BY DEF TypeOK
  <2>3. CASE unitAttempt' = [unitAttempt EXCEPT ![i][k] = @ + 1]
    <3>1. unitAttempt'[j] = IF i = j THEN [unitAttempt[j] EXCEPT ![k] = @ + 1]
                            ELSE unitAttempt[j]
      BY <2>2, <2>3
    <3>2. unitAttempt'[j][Operation] = unitAttempt[j][Operation]
      BY <2>1, <2>2, <3>1
    <3> QED BY <1>0, <3>2
  <2> QED BY <1>0, <2>3
<1>3. ASSUME NEW i \in Job, NEW l \in Lane, Enqueue(i, l)
      PROVE  /\ status'[j] # "NONE" /\ revision'[j] >= revision[j]
             /\ unitAttempt'[j][Operation] = unitAttempt[j][Operation]
  BY <1>0, <1>3 DEF Enqueue, TypeOK
<1>4. ASSUME NEW i \in Job, Cancel(i) \/ Retry(i)
      PROVE  /\ status'[j] # "NONE" /\ revision'[j] >= revision[j]
             /\ unitAttempt'[j][Operation] = unitAttempt[j][Operation]
  BY <1>0, <1>4 DEF Cancel, Retry, TypeOK
<1>5. ASSUME NEW w \in Worker, claim[w].job \in Job, Ends(w)
      PROVE  /\ status'[j] # "NONE" /\ revision'[j] >= revision[j]
             /\ unitAttempt'[j][Operation] = unitAttempt[j][Operation]
  <2>1. CASE CompleteGeneration(w)
    BY <1>0, <1>5, <2>1 DEF CompleteGeneration, Outcome, TypeOK
  <2>2. CASE CompleteOperation(w)
    BY <1>0, <1>5, <2>2 DEF CompleteOperation, TypeOK
  <2>3. CASE Fail(w) /\ FailFence(w)
    <3> DEFINE i == claim[w].job
    <3>1. /\ status' = [status EXCEPT ![i] = FailedStatus(w)]
          /\ revision' = [revision EXCEPT ![i] = @ + 1]
          /\ FailedStatus(w) \in {"CANCELED", "QUEUED", "FAILED"}
          /\ UNCHANGED unitAttempt
      BY <2>3, FailRows
    <3> QED BY <1>0, <1>5, <3>1 DEF TypeOK
  <2> QED BY <1>5, <2>1, <2>2, <2>3 DEF Ends
<1> QED BY <1>1, <1>2, <1>3, <1>4, <1>5

\* A worker gets a claim by ClaimNext only.
LEMMA KeepsClaims ==
    ASSUME TypeOK, [Next]_vars, ~ \E w \in Worker, j \in Job : ClaimNext(w, j)
    PROVE  \A w \in Worker : pc'[w] # "idle" => pc[w] # "idle" /\ claim'[w] = claim[w]
<1> SUFFICES ASSUME NEW w \in Worker, pc'[w] # "idle"
             PROVE  pc[w] # "idle" /\ claim'[w] = claim[w]
  OBVIOUS
<1>1. CASE User
  BY <1>1 DEF User, Enqueue, Cancel, Retry, workerVars
<1>2. ASSUME NEW v \in Worker, NEW e, StopWith(v, e), pc[v] # "idle"
      PROVE  pc[w] # "idle" /\ claim'[w] = claim[w]
  BY <1>2 DEF StopWith, TypeOK
<1>3. ASSUME NEW v \in Worker, BecomeIdle(v)
      PROVE  pc[w] # "idle" /\ claim'[w] = claim[w]
  BY <1>3 DEF BecomeIdle, TypeOK
<1>4. ASSUME NEW v \in Worker, NEW l, Goto(v, l), pc[v] # "idle"
      PROVE  pc[w] # "idle" /\ claim'[w] = claim[w]
  BY <1>4 DEF Goto, TypeOK
<1>5. ASSUME NEW v \in Worker, NEW s, EndUnit(v, s), pc[v] # "idle"
      PROVE  pc[w] # "idle" /\ claim'[w] = claim[w]
  BY <1>5 DEF EndUnit, TypeOK
<1>6. ASSUME NEW v \in Worker, BeginUnit(v)
      PROVE  pc[w] # "idle" /\ claim'[w] = claim[w]
  <2>1. pc[v] # "idle"
    BY <1>6 DEF BeginUnit
  <2>2. \/ StopWith(v, "retryable") \/ Goto(v, "unit") \/ UNCHANGED <<pc, claim>>
    BY <1>6 DEF BeginUnit
  <2> QED BY <1>2, <1>4, <2>1, <2>2
<1>7. ASSUME NEW v \in Worker, SaveProposals(v) \/ FailUnit(v)
      PROVE  pc[w] # "idle" /\ claim'[w] = claim[w]
  <2>1. pc[v] # "idle"
    BY <1>7 DEF SaveProposals, FailUnit
  <2>2. \/ StopWith(v, "retryable") \/ StopWith(v, "permanent")
        \/ EndUnit(v, "SUCCEEDED") \/ EndUnit(v, "FAILED")
    BY <1>7 DEF SaveProposals, FailUnit
  <2> QED BY <1>2, <1>5, <2>1, <2>2
<1>8. ASSUME NEW v \in Worker, FinishProcess(v)
      PROVE  pc[w] # "idle" /\ claim'[w] = claim[w]
  BY <1>4, <1>8 DEF FinishProcess
<1>9. ASSUME NEW v \in Worker,
             CompleteGeneration(v) \/ CompleteOperation(v) \/ Fail(v) \/ Crash(v)
      PROVE  pc[w] # "idle" /\ claim'[w] = claim[w]
  <2>1. BecomeIdle(v)
    BY <1>9 DEF CompleteGeneration, CompleteOperation, Fail, Crash
  <2> QED BY <1>3, <2>1
<1>10. ASSUME NEW v \in Worker,
              \/ PublishFails(v) \/ StopProcess(v)
              \/ \E e \in {"retryable", "permanent"} : ProcessFails(v, e)
       PROVE  pc[w] # "idle" /\ claim'[w] = claim[w]
  <2>1. pc[v] # "idle"
    BY <1>10 DEF PublishFails, StopProcess, ProcessFails, Processing
  <2>2. \E x : StopWith(v, x)
    BY <1>10 DEF PublishFails, StopProcess, ProcessFails
  <2> QED BY <1>2, <2>1, <2>2
<1>11. CASE (\E v \in Worker : Heartbeat(v)) \/ (\E j \in Job : LeaseExpires(j))
  BY <1>11 DEF Heartbeat, LeaseExpires, workerVars
<1>12. CASE UNCHANGED vars
  BY <1>12 DEF vars, workerVars
<1>13. CASE User \/ Environment \/ \E v \in Worker : Progress(v)
  <2>1. CASE Environment
    BY <2>1, <1>9, <1>10, <1>11 DEF Environment
  <2>2. ASSUME NEW v \in Worker, Progress(v)
        PROVE  pc[w] # "idle" /\ claim'[w] = claim[w]
    BY <2>2, <1>6, <1>7, <1>8, <1>9, <1>10 DEF Progress
  <2> QED BY <1>1, <1>13, <2>1, <2>2
<1> QED BY <1>12, <1>13 DEF Next

\* No job and no claim: the relational parts of the invariant hold at first.
LEMMA ClaimsOrderedInit == Init => ClaimsOrdered /\ Fresh /\ CancelPending /\ JobUnitAgree
BY Keys DEF Init, ClaimsOrdered, Fresh, CancelPending, JobUnitAgree

\* The order of the claims survives a step that keeps rows and claims.
LEMMA OrderKept ==
    ASSUME TypeOK, TypeOK', ClaimsOrdered, Keeps PROVE ClaimsOrdered'
<1>1. ASSUME NEW w \in Worker, pc'[w] # "idle"
      PROVE  LET j == claim'[w].job IN
             /\ status'[j] # "NONE"
             /\ claim'[w].revision <= revision'[j]
             /\ claim'[w].unitAttempt <= unitAttempt'[j][Operation]
             /\ claim'[w].revision = revision'[j] =>
                   claim'[w].unitAttempt = unitAttempt'[j][Operation]
  <2>1. pc[w] # "idle" /\ claim'[w] = claim[w] /\ claim[w].job \in Job
    BY <1>1 DEF Keeps, TypeOK
  <2>2. claim[w] \in Claim
    BY DEF TypeOK
  <2>3. claim[w].revision \in Nat /\ revision[claim[w].job] \in Nat
        /\ revision'[claim[w].job] \in Nat
    BY <2>1, <2>2 DEF TypeOK, Claim
  <2> QED BY <2>1, <2>3 DEF Keeps, ClaimsOrdered
<1>2. ASSUME NEW v \in Worker, NEW w \in Worker, pc'[v] # "idle", pc'[w] # "idle", v # w,
             claim'[v].job = claim'[w].job
      PROVE  /\ claim'[v].revision # claim'[w].revision
             /\ claim'[v].unitAttempt # claim'[w].unitAttempt
  BY <1>2 DEF Keeps, ClaimsOrdered
<1> QED BY <1>1, <1>2 DEF ClaimsOrdered

\* A new claim is later than every other claim of its job.
LEMMA OrderClaimed ==
    ASSUME TypeOK, TypeOK', ClaimsOrdered, NEW w \in Worker, NEW j \in Job, ClaimNext(w, j)
    PROVE  ClaimsOrdered'
<1>1. /\ pc' = [pc EXCEPT ![w] = "process"] /\ claim'[w].job = j
      /\ claim'[w].revision = revision[j] + 1
      /\ claim'[w].unitAttempt = unitAttempt[j][Operation] + 1
      /\ \A v \in Worker \ {w} : claim'[v] = claim[v]
  BY DEF ClaimNext, TypeOK
<1>2. /\ revision'[j] = revision[j] + 1
      /\ unitAttempt'[j][Operation] = unitAttempt[j][Operation] + 1
      /\ status'[j] = "RUNNING"
  BY Keys DEF ClaimNext, TypeOK
<1>3. \A i \in Job \ {j} : /\ unitAttempt'[i] = unitAttempt[i]
                           /\ status[i] # "NONE" => status'[i] # "NONE"
                           /\ revision'[i] >= revision[i]
  BY DEF ClaimNext, TypeOK
<1>4. \A v \in Worker : /\ claim[v].revision \in Nat /\ claim[v].unitAttempt \in Nat
                        /\ pc[v] # "idle" => claim[v].job \in Job
  BY DEF TypeOK, Claim
<1>5. \A i \in Job : /\ revision[i] \in Nat /\ unitAttempt[i][Operation] \in Nat
                     /\ revision'[i] \in Nat
  BY Keys DEF TypeOK
<1>6. ASSUME NEW v \in Worker, pc'[v] # "idle"
      PROVE  LET i == claim'[v].job IN
             /\ status'[i] # "NONE"
             /\ claim'[v].revision <= revision'[i]
             /\ claim'[v].unitAttempt <= unitAttempt'[i][Operation]
             /\ claim'[v].revision = revision'[i] =>
                   claim'[v].unitAttempt = unitAttempt'[i][Operation]
  <2>1. CASE v = w
    BY <1>1, <1>2, <1>5, <2>1
  <2>2. CASE v # w
    <3>1. pc[v] # "idle" /\ claim'[v] = claim[v]
      BY <1>1, <1>6, <2>2 DEF TypeOK
    <3>2. CASE claim[v].job = j
      BY <1>2, <1>4, <1>5, <3>1, <3>2 DEF ClaimsOrdered
    <3>3. CASE claim[v].job # j
      BY <1>3, <1>4, <1>5, <3>1, <3>3 DEF ClaimsOrdered
    <3> QED BY <3>2, <3>3
  <2> QED BY <2>1, <2>2
<1>7. ASSUME NEW u \in Worker, NEW v \in Worker, pc'[u] # "idle", pc'[v] # "idle", u # v,
             claim'[u].job = claim'[v].job
      PROVE  /\ claim'[u].revision # claim'[v].revision
             /\ claim'[u].unitAttempt # claim'[v].unitAttempt
  <2>1. \A x \in Worker : x # w /\ pc'[x] # "idle" => pc[x] # "idle" /\ claim'[x] = claim[x]
    BY <1>1 DEF TypeOK
  <2>2. CASE u # w /\ v # w
    BY <1>7, <2>1, <2>2 DEF ClaimsOrdered
  <2>3. CASE u = w
    BY <1>1, <1>4, <1>5, <1>7, <2>1, <2>3 DEF ClaimsOrdered
  <2>4. CASE v = w
    BY <1>1, <1>4, <1>5, <1>7, <2>1, <2>4 DEF ClaimsOrdered
  <2> QED BY <2>2, <2>3, <2>4
<1> QED BY <1>6, <1>7 DEF ClaimsOrdered

\* Every step keeps the order of the claims.
LEMMA OrderInductive ==
    ASSUME TypeOK, TypeOK', UnitHeld, ClaimsOrdered, [Next]_vars PROVE ClaimsOrdered'
<1>1. ASSUME NEW w \in Worker, NEW j \in Job, ClaimNext(w, j) PROVE ClaimsOrdered'
  BY <1>1, OrderClaimed
<1>2. CASE ~ \E w \in Worker, j \in Job : ClaimNext(w, j)
  <2>1. \A w \in Worker : pc'[w] # "idle" => pc[w] # "idle" /\ claim'[w] = claim[w]
    BY <1>2, KeepsClaims
  <2>2. \A j \in Job : status[j] # "NONE" =>
          /\ status'[j] # "NONE"
          /\ revision'[j] >= revision[j]
          /\ unitAttempt'[j][Operation] = unitAttempt[j][Operation]
    BY <1>2, Steps, KeepsRows
  <2>3. Keeps
    BY <2>1, <2>2 DEF Keeps
  <2> QED BY <2>3, OrderKept
<1> QED BY <1>1, <1>2

-----------------------------------------------------------------------------
(* What a step does to one job.                                            *)

\* The columns of one job that the safety properties read.
Same(i) == /\ lane'[i] = lane[i] /\ status'[i] = status[i] /\ cancel'[i] = cancel[i]
           /\ completed'[i] = completed[i] /\ unitStatus'[i] = unitStatus[i]
           /\ unitAttempt'[i] = unitAttempt[i]

SetOperation(i, s) == unitStatus'[i] = [unitStatus[i] EXCEPT ![Operation] = s]

Enqueued(i) == /\ status[i] = "NONE" /\ status'[i] = "QUEUED" /\ LaneFree(lane'[i])
               /\ cancel'[i] = cancel[i] /\ completed'[i] = completed[i]
               /\ unitAttempt'[i] = unitAttempt[i]
               /\ unitStatus'[i][Operation] = "QUEUED"
               /\ \A k \in Unit : unitStatus'[i][k] \in {"NONE", "QUEUED"}
CancelRequested(i) ==
    /\ status[i] \in Active
    /\ status'[i] = IF status[i] = "QUEUED" THEN "CANCELED" ELSE "RUNNING"
    /\ cancel'[i] = TRUE
    /\ \A k \in Key : unitStatus'[i][k] =
          IF unitStatus[i][k] \in Active THEN "CANCELED" ELSE unitStatus[i][k]
    /\ lane'[i] = lane[i] /\ completed'[i] = completed[i] /\ unitAttempt'[i] = unitAttempt[i]
Retried(i) == /\ status[i] \in Retryable /\ status'[i] = "QUEUED" /\ cancel'[i] = FALSE
              /\ LaneFree(lane[i]) /\ lane'[i] = lane[i]
              /\ completed'[i] = Cardinality(Succeeded(i))
              /\ \A k \in Key : unitStatus'[i][k] = Reopened(unitStatus[i][k])
              /\ unitAttempt'[i] = unitAttempt[i]
Claimed(i) == /\ status[i] \in Active /\ ~cancel[i] /\ status'[i] = "RUNNING"
              /\ SetOperation(i, "RUNNING")
              /\ \A k \in Unit : unitAttempt'[i][k] = unitAttempt[i][k]
              /\ lane'[i] = lane[i] /\ cancel'[i] = cancel[i] /\ completed'[i] = completed[i]
Swept(i) == /\ status[i] = "RUNNING" /\ status'[i] = "FAILED"
            /\ \A k \in Key : unitStatus'[i][k] =
                  IF unitStatus[i][k] = "RUNNING" THEN "FAILED" ELSE unitStatus[i][k]
            /\ lane'[i] = lane[i] /\ cancel'[i] = cancel[i] /\ completed'[i] = completed[i]
            /\ unitAttempt'[i] = unitAttempt[i]
UnitMoved(i) ==
    \E k \in Unit, s \in {"RUNNING", "SUCCEEDED", "FAILED"} :
        /\ status[i] = "RUNNING" /\ ~cancel[i] /\ unitStatus[i][k] # "SUCCEEDED"
        /\ unitStatus'[i] = [unitStatus[i] EXCEPT ![k] = s]
        /\ \A x \in Key \ {k} : unitAttempt'[i][x] = unitAttempt[i][x]
        /\ completed'[i] = IF s = "SUCCEEDED" THEN Cardinality(Succeeded(i) \cup {k})
                           ELSE completed[i]
        /\ lane'[i] = lane[i] /\ status'[i] = status[i] /\ cancel'[i] = cancel[i]
Generated(i) ==
    LET failed == UnitsIn(i, "FAILED") IN
    /\ status[i] = "RUNNING" /\ ~cancel[i] /\ status'[i] = Outcome(failed)
    /\ failed \cup Succeeded(i) = Unit
    /\ SetOperation(i, IF failed = {} THEN "SUCCEEDED" ELSE "FAILED")
    /\ completed'[i] = Cardinality(Succeeded(i))
    /\ lane'[i] = lane[i] /\ cancel'[i] = cancel[i] /\ unitAttempt'[i] = unitAttempt[i]
Operated(i) == /\ ~Generates(i) /\ status[i] = "RUNNING" /\ ~cancel[i]
               /\ status'[i] = "SUCCEEDED" /\ SetOperation(i, "SUCCEEDED")
               /\ lane'[i] = lane[i] /\ cancel'[i] = cancel[i] /\ unitAttempt'[i] = unitAttempt[i]
Failed(i) == /\ status[i] = "RUNNING" /\ status'[i] \in {"CANCELED", "QUEUED", "FAILED"}
             /\ cancel[i] => status'[i] = "CANCELED"
             /\ SetOperation(i, status'[i]) \/ (cancel[i] /\ unitStatus'[i] = unitStatus[i])
             /\ lane'[i] = lane[i] /\ cancel'[i] = cancel[i] /\ completed'[i] = completed[i]
             /\ unitAttempt'[i] = unitAttempt[i]

Touched(i) == \/ Enqueued(i) \/ CancelRequested(i) \/ Retried(i) \/ Claimed(i) \/ Swept(i)
              \/ UnitMoved(i) \/ Generated(i) \/ Operated(i) \/ Failed(i)

\* The row types alone, which the lemmas below use.
LEMMA Rows == TypeOK => /\ lane \in [Job -> Lane \cup {NoLane}]
                        /\ status \in [Job -> {"NONE"} \cup Active \cup Terminal]
                        /\ cancel \in [Job -> BOOLEAN]
                        /\ completed \in [Job -> 0..NUnits]
                        /\ unitStatus \in [Job -> [Key -> UnitState]]
                        /\ unitAttempt \in [Job -> [Key -> Nat]]
BY DEF TypeOK

\* An insertion fills one row and leaves every other alone.
LEMMA EnqueueRow == ASSUME TypeOK, NEW j \in Job, NEW l \in Lane, Enqueue(j, l), NEW i \in Job
                    PROVE  Same(i) \/ Enqueued(i)
<1>1. CASE i = j
  <2>1. \A k \in Key : unitStatus'[i][k] =
            IF k = Operation \/ l \in GenerateLane THEN "QUEUED" ELSE "NONE"
    BY <1>1, Rows DEF Enqueue
  <2>2. /\ unitStatus'[i][Operation] = "QUEUED"
        /\ \A k \in Unit : unitStatus'[i][k] \in {"NONE", "QUEUED"}
    BY <2>1, Keys
  <2>3. lane'[i] = l /\ status'[i] = "QUEUED"
    BY <1>1, Rows DEF Enqueue
  <2> QED BY <1>1, <2>2, <2>3 DEF Enqueue, Enqueued
<1>2. CASE i # j
  BY <1>2, Rows DEF Enqueue, Same
<1> QED BY <1>1, <1>2

\* A cancel request touches one row.
LEMMA CancelRow == ASSUME TypeOK, NEW j \in Job, Cancel(j), NEW i \in Job
                   PROVE  Same(i) \/ CancelRequested(i)
<1>1. CASE i = j
  <2>1. \A k \in Key : unitStatus'[i][k] =
            IF unitStatus[i][k] \in Active THEN "CANCELED" ELSE unitStatus[i][k]
    BY <1>1, Rows DEF Cancel
  <2> QED BY <1>1, <2>1, Rows DEF Cancel, CancelRequested, Active
<1>2. CASE i # j
  BY <1>2, Rows DEF Cancel, Same
<1> QED BY <1>1, <1>2

\* A retry touches one row.
LEMMA RetryRow == ASSUME TypeOK, NEW j \in Job, Retry(j), NEW i \in Job
                  PROVE  Same(i) \/ Retried(i)
<1>1. CASE i = j
  <2>1. \A k \in Key : unitStatus'[i][k] = Reopened(unitStatus[i][k])
    BY <1>1, Rows DEF Retry
  <2> QED BY <1>1, <2>1, Rows DEF Retry, Retried
<1>2. CASE i # j
  BY <1>2, Rows DEF Retry, Same
<1> QED BY <1>1, <1>2

\* A claim touches its row, and the sweep the rows it found exhausted.
LEMMA ClaimRow == ASSUME TypeOK, NEW w \in Worker, NEW j \in Job, ClaimNext(w, j), NEW i \in Job
                  PROVE  Same(i) \/ Claimed(i) \/ Swept(i)
<1>1. \A k \in Key : unitStatus'[i][k] =
          IF i = j /\ k = Operation THEN "RUNNING"
          ELSE IF Exhausted(i) /\ unitStatus[i][k] = "RUNNING" THEN "FAILED"
          ELSE unitStatus[i][k]
  BY DEF ClaimNext
<1>2. unitStatus[i] \in [Key -> UnitState] /\ unitStatus'[i] = [k \in Key |-> unitStatus'[i][k]]
  BY Rows DEF ClaimNext
<1>3. CASE i = j
  <2>1. status[i] \in Active /\ ~cancel[i] /\ ~Exhausted(i)
    BY <1>3, AttemptsAssumption DEF ClaimNext, Claimable, Active, Exhausted, TypeOK
  <2>2. SetOperation(i, "RUNNING")
    BY <1>1, <1>2, <1>3, <2>1, Keys DEF SetOperation
  <2>3. \A k \in Unit : unitAttempt'[i][k] = unitAttempt[i][k]
    <3>1. unitAttempt'[i] = [unitAttempt[i] EXCEPT ![Operation] = @ + 1]
      BY <1>3, Rows DEF ClaimNext
    <3> QED BY <3>1, Keys, Rows
  <2> QED BY <1>3, <2>1, <2>2, <2>3, Rows DEF ClaimNext, Claimed
<1>4. CASE i # j /\ Exhausted(i)
  <2>1. unitAttempt'[i] = unitAttempt[i]
    BY <1>4, Rows DEF ClaimNext
  <2> QED BY <1>1, <1>4, <2>1, Rows DEF ClaimNext, Swept, Exhausted
<1>5. CASE i # j /\ ~Exhausted(i)
  <2>1. unitAttempt'[i] = unitAttempt[i]
    BY <1>5, Rows DEF ClaimNext
  <2>2. unitStatus'[i] = unitStatus[i]
    BY <1>1, <1>2, <1>5
  <2> QED BY <1>5, <2>1, <2>2, Rows DEF ClaimNext, Same
<1> QED BY <1>3, <1>4, <1>5

\* A unit step touches the row of its job.
LEMMA UnitRow == ASSUME TypeOK, UnitStep, NEW i \in Job
                 PROVE  Same(i) \/ UnitMoved(i)
<1> PICK j \in Job, k \in Unit, s \in {"RUNNING", "SUCCEEDED", "FAILED"} :
        /\ status[j] = "RUNNING" /\ ~cancel[j] /\ unitStatus[j][k] # "SUCCEEDED"
        /\ unitStatus' = [unitStatus EXCEPT ![j][k] = s]
        /\ \/ UNCHANGED unitAttempt
           \/ unitAttempt' = [unitAttempt EXCEPT ![j][k] = @ + 1]
        /\ IF s = "SUCCEEDED"
           THEN completed' = [completed EXCEPT ![j] = Cardinality(Succeeded(j) \cup {k})]
           ELSE completed' = completed
        /\ UNCHANGED <<lane, status, revision, cancel>>
  BY DEF UnitStep
<1>1. CASE i = j
  <2>1. unitStatus'[i] = [unitStatus[i] EXCEPT ![k] = s]
    BY <1>1, Rows
  <2>2. \A x \in Key \ {k} : unitAttempt'[i][x] = unitAttempt[i][x]
    <3>1. unitAttempt'[i] = unitAttempt[i]
          \/ unitAttempt'[i] = [unitAttempt[i] EXCEPT ![k] = @ + 1]
      BY <1>1, Rows
    <3> QED BY <3>1, Rows
  <2>3. completed'[i] = IF s = "SUCCEEDED" THEN Cardinality(Succeeded(i) \cup {k})
                        ELSE completed[i]
    BY <1>1, Rows
  <2> QED BY <1>1, <2>1, <2>2, <2>3 DEF UnitMoved
<1>2. CASE i # j
  <2>1. unitAttempt'[i] = unitAttempt[i] /\ unitStatus'[i] = unitStatus[i]
    BY <1>2, Rows
  <2>2. completed'[i] = completed[i]
    BY <1>2, Rows
  <2> QED BY <2>1, <2>2 DEF Same
<1> QED BY <1>1, <1>2

\* The end of a claim touches the row of its job; a Fail that its claim's
\* revision admits always moves the operation unit along.
LEMMA EndRow == ASSUME TypeOK, ClaimsOrdered, NEW w \in Worker, claim[w].job \in Job,
                       pc[w] # "idle", Ends(w), NEW i \in Job
                PROVE  Same(i) \/ Generated(i) \/ Operated(i) \/ Failed(i)
<1> DEFINE j == claim[w].job
<1>1. CASE CompleteGeneration(w)
  <2>1. CASE i = j
    <3>1. unitStatus'[i] = [unitStatus[i] EXCEPT ![Operation] =
               IF UnitsIn(i, "FAILED") = {} THEN "SUCCEEDED" ELSE "FAILED"]
      BY <1>1, <2>1, Rows DEF CompleteGeneration
    <3> QED BY <1>1, <2>1, <3>1, Rows
            DEF CompleteGeneration, Generated, SetOperation, RevisionFence, HeartbeatFence
  <2>2. CASE i # j
    BY <1>1, <2>2, Rows DEF CompleteGeneration, Same
  <2> QED BY <2>1, <2>2
<1>2. CASE CompleteOperation(w)
  <2>1. CASE i = j
    <3>1. unitStatus'[i] = [unitStatus[i] EXCEPT ![Operation] = "SUCCEEDED"]
      BY <1>2, <2>1, Rows DEF CompleteOperation
    <3> QED BY <1>2, <2>1, <3>1, Rows DEF CompleteOperation, Operated, SetOperation, UnitFence
  <2>2. CASE i # j
    BY <1>2, <2>2, Rows DEF CompleteOperation, Same
  <2> QED BY <2>1, <2>2
<1>3. CASE Fail(w) /\ FailFence(w)
  <2>1. /\ status[j] = "RUNNING"
        /\ unitStatus' = [unitStatus EXCEPT ![j][Operation] =
              IF unitAttempt[j][Operation] = claim[w].unitAttempt
              THEN FailedStatus(w) ELSE @]
        /\ status' = [status EXCEPT ![j] = FailedStatus(w)]
        /\ FailedStatus(w) \in {"CANCELED", "QUEUED", "FAILED"}
        /\ cancel[j] => FailedStatus(w) = "CANCELED"
        /\ UNCHANGED <<lane, cancel, completed, unitAttempt>>
    BY <1>3, FailRows
  <2>2. ~cancel[j] => unitAttempt[j][Operation] = claim[w].unitAttempt
    BY <1>3 DEF FailFence, ClaimsOrdered
  <2>3. CASE i = j
    <3>1. status'[i] = FailedStatus(w)
      BY <2>1, <2>3, Rows
    <3>2. CASE unitAttempt[j][Operation] = claim[w].unitAttempt
      <4>1. SetOperation(i, status'[i])
        BY <2>1, <2>3, <3>1, <3>2, Rows DEF SetOperation
      <4> QED BY <2>1, <2>3, <3>1, <4>1 DEF Failed
    <3>3. CASE unitAttempt[j][Operation] # claim[w].unitAttempt
      <4>1. unitStatus'[i] = unitStatus[i]
        BY <2>1, <2>3, <3>3, Rows
      <4> QED BY <2>1, <2>2, <2>3, <3>1, <3>3, <4>1 DEF Failed
    <3> QED BY <3>2, <3>3
  <2>4. CASE i # j
    <3>1. status'[i] = status[i] /\ unitStatus'[i] = unitStatus[i]
      BY <2>1, <2>4, Rows
    <3> QED BY <2>1, <3>1 DEF Same
  <2> QED BY <2>3, <2>4
<1> QED BY <1>1, <1>2, <1>3 DEF Ends

\* What any step does to any job.
LEMMA RowSteps == ASSUME TypeOK, UnitHeld, ClaimsOrdered, [Next]_vars, NEW i \in Job
                  PROVE  Same(i) \/ Touched(i)
<1>1. CASE Quiet
  BY <1>1 DEF Quiet, Same
<1>2. CASE UnitStep
  BY <1>2, UnitRow DEF Touched
<1>3. CASE \E j \in Job : (\E l \in Lane : Enqueue(j, l)) \/ Cancel(j) \/ Retry(j)
  BY <1>3, EnqueueRow, CancelRow, RetryRow DEF Touched
<1>4. CASE \E w \in Worker, j \in Job : ClaimNext(w, j)
  BY <1>4, ClaimRow DEF Touched
<1>5. CASE \E w \in Worker : claim[w].job \in Job /\ pc[w] # "idle" /\ Ends(w)
  BY <1>5, EndRow DEF Touched
<1> QED BY <1>1, <1>2, <1>3, <1>4, <1>5, Steps

-----------------------------------------------------------------------------
(* The rows agree, and the whole invariant is inductive.                   *)

\* JobUnitAgree for one job.
Agree(i) ==
    /\ status[i] = "RUNNING" =>
          unitStatus[i][Operation] = IF cancel[i] THEN "CANCELED" ELSE "RUNNING"
    /\ status[i] = "FAILED" =>
          unitStatus[i][Operation] = IF cancel[i] THEN "CANCELED" ELSE "FAILED"
    /\ status[i] = "PARTIAL_FAILED" => unitStatus[i][Operation] = "FAILED"
    /\ status[i] \in {"NONE", "QUEUED", "SUCCEEDED", "CANCELED"} =>
          unitStatus[i][Operation] = status[i]

\* JobUnitAgree, job by job.
LEMMA AgreeAll == JobUnitAgree <=> \A i \in Job : Agree(i)
BY DEF JobUnitAgree, Agree

\* JobUnitAgree after a step, job by job.
LEMMA AgreeAllPrime == JobUnitAgree' <=> \A i \in Job : Agree(i)'
BY DEF JobUnitAgree, Agree

\* Whatever a step does to a job, its operation unit follows.
LEMMA AgreeInductive ==
    ASSUME TypeOK, TypeOK', CancelPending, NEW i \in Job, Agree(i), Same(i) \/ Touched(i)
    PROVE  Agree(i)'
<1> USE Rows, Keys
<1>0. /\ unitStatus[i] \in [Key -> UnitState] /\ Operation \in Key
      /\ status[i] \in {"NONE"} \cup Active \cup Terminal
      /\ cancel[i] \in BOOLEAN
  OBVIOUS
<1>1. CASE Same(i)
  BY <1>1 DEF Same, Agree
<1>2. CASE Enqueued(i)
  BY <1>2 DEF Enqueued, Agree
<1>3. CASE CancelRequested(i)
  BY <1>0, <1>3 DEF CancelRequested, Agree, Active
<1>4. CASE Retried(i)
  BY <1>0, <1>4 DEF Retried, Agree, Retryable, Reopened
<1>5. CASE Claimed(i)
  BY <1>0, <1>5 DEF Claimed, Agree, SetOperation
<1>6. CASE Swept(i)
  BY <1>0, <1>6 DEF Swept, Agree
<1>7. CASE UnitMoved(i)
  <2>1. unitStatus'[i][Operation] = unitStatus[i][Operation]
    BY <1>0, <1>7 DEF UnitMoved
  <2> QED BY <1>7, <2>1 DEF UnitMoved, Agree
<1>8. CASE Generated(i)
  BY <1>0, <1>8 DEF Generated, Agree, SetOperation, Outcome
<1>9. CASE Operated(i)
  BY <1>0, <1>9 DEF Operated, Agree, SetOperation
<1>10. CASE Failed(i)
  <2>1. unitStatus'[i][Operation] = status'[i]
    <3>1. CASE SetOperation(i, status'[i])
      BY <1>0, <3>1 DEF SetOperation
    <3>2. CASE cancel[i] /\ unitStatus'[i] = unitStatus[i]
      BY <1>10, <3>2 DEF Failed, Agree
    <3> QED BY <1>10, <3>1, <3>2 DEF Failed
  <2> QED BY <1>10, <2>1 DEF Failed, Agree
<1> QED BY <1>1, <1>2, <1>3, <1>4, <1>5, <1>6, <1>7, <1>8, <1>9, <1>10 DEF Touched

\* Rows that no insertion has filled stay empty.
LEMMA FreshInductive ==
    ASSUME TypeOK, Fresh, NEW i \in Job, Same(i) \/ Touched(i), status'[i] = "NONE"
    PROVE  ~cancel'[i] /\ completed'[i] = 0 /\ \A k \in Key : unitStatus'[i][k] = "NONE"
<1>1. Same(i)
  BY DEF Touched, Enqueued, CancelRequested, Retried, Claimed, Swept, UnitMoved, Generated,
         Operated, Failed, Outcome
<1> QED BY <1>1 DEF Same, Fresh

\* A pending cancel request is never overtaken by a result.
LEMMA CancelInductive ==
    ASSUME TypeOK, Fresh, CancelPending, NEW i \in Job, Same(i) \/ Touched(i), cancel'[i]
    PROVE  status'[i] \in {"RUNNING", "CANCELED", "FAILED"}
BY DEF Same, Touched, Enqueued, CancelRequested, Retried, Claimed, Swept, UnitMoved,
       Generated, Operated, Failed, CancelPending, Fresh

\* Every step keeps the invariant.
LEMMA Inductive == IInv /\ [Next]_vars => IInv'
<1> SUFFICES ASSUME IInv, [Next]_vars PROVE IInv'
  OBVIOUS
<1>1. TypeOK' /\ UnitHeld'
  BY NextType DEF IInv
<1>2. ClaimsOrdered'
  BY <1>1, OrderInductive DEF IInv
<1>3. \A i \in Job : Same(i) \/ Touched(i)
  BY RowSteps DEF IInv
<1>4. Fresh'
  BY <1>3, FreshInductive DEF IInv, Fresh
<1>5. CancelPending'
  BY <1>3, CancelInductive DEF IInv, CancelPending
<1>6. JobUnitAgree'
  BY <1>1, <1>3, AgreeInductive, AgreeAll, AgreeAllPrime DEF IInv
<1> QED BY <1>1, <1>2, <1>4, <1>5, <1>6 DEF IInv

\* The invariant holds of every behavior.
LEMMA Invariant == Spec => []IInv
<1>1. Init => IInv
  BY InitType, ClaimsOrderedInit DEF IInv
<1> QED BY <1>1, Inductive, PTL DEF Spec

-----------------------------------------------------------------------------
(* The safety properties.                                                  *)

\* Two claims within a fence would share the operation unit's last attempt.
LEMMA OnePublisherFollows == IInv => OnePublisher
<1> SUFFICES ASSUME IInv, NEW j \in Job, NEW v \in Worker, NEW w \in Worker,
                    Claims(v, j), HeartbeatFence(v) \/ UnitFence(v),
                    Claims(w, j), HeartbeatFence(w) \/ UnitFence(w), v # w
             PROVE  FALSE
  BY DEF OnePublisher
<1>1. ASSUME NEW u \in Worker, Claims(u, j), HeartbeatFence(u) \/ UnitFence(u)
      PROVE  claim[u].unitAttempt = unitAttempt[j][Operation]
  BY <1>1 DEF IInv, ClaimsOrdered, Claims, HeartbeatFence, UnitFence
<1>2. claim[v].unitAttempt = claim[w].unitAttempt
  BY <1>1
<1> QED BY <1>2 DEF IInv, ClaimsOrdered, Claims

\* At most one worker holds a claim of a job that can still publish or renew,
\* although a takeover leaves the older worker running and Retry resets the
\* attempt counter that the job's fences compare.
THEOREM Publication == Spec => []OnePublisher
BY Invariant, OnePublisherFollows, PTL

\* The job row and its operation unit agree in every reachable state, whichever
\* of the seven transactions that write them came last.
THEOREM Agreement == Spec => []JobUnitAgree
<1>1. IInv => JobUnitAgree
  BY DEF IInv
<1> QED BY <1>1, Invariant, PTL

\* A claimable job is QUEUED or RUNNING and not canceled, and so is its unit.
LEMMA NoPoisonFollows == IInv => NoPoisonedJob
BY Rows DEF IInv, NoPoisonedJob, JobUnitAgree, Claimable

\* ClaimNext never meets a candidate whose operation unit it cannot begin.
THEOREM NoPoison == Spec => []NoPoisonedJob
BY Invariant, NoPoisonFollows, PTL

\* No two jobs of a lane are ever active together.
LEMMA LaneInductive == IInv /\ OneActivePerLane /\ [Next]_vars => OneActivePerLane'
<1> SUFFICES ASSUME IInv, OneActivePerLane, [Next]_vars,
                    NEW i \in Job, NEW j \in Job,
                    status'[i] \in Active, status'[j] \in Active, lane'[i] = lane'[j]
             PROVE  i = j
  BY DEF OneActivePerLane
<1> USE Rows DEF IInv
<1>1. \A x \in Job : Same(x) \/ Touched(x)
  BY RowSteps
<1>2. \A x \in Job : status'[x] \in Active /\ ~Enqueued(x) /\ ~Retried(x)
                     => status[x] \in Active /\ lane'[x] = lane[x]
  BY <1>1 DEF Same, Touched, CancelRequested, Claimed, Swept, UnitMoved, Generated,
              Operated, Failed, Outcome, Active
<1>3. ASSUME NEW x \in Job, NEW l \in Lane, Enqueue(x, l) PROVE i = j
  <2>1. /\ \A y \in Job : y # x => status'[y] = status[y] /\ lane'[y] = lane[y]
        /\ lane'[x] = l /\ LaneFree(l)
    BY <1>3 DEF Enqueue
  <2> QED BY <2>1 DEF LaneFree, OneActivePerLane
<1>4. ASSUME NEW x \in Job, Retry(x) PROVE i = j
  <2>1. /\ \A y \in Job : y # x => status'[y] = status[y]
        /\ lane' = lane /\ LaneFree(lane[x])
    BY <1>4 DEF Retry
  <2> QED BY <2>1 DEF LaneFree, OneActivePerLane
<1>5. ASSUME \A x \in Job : status'[x] \in Active => status[x] \in Active /\ lane'[x] = lane[x]
      PROVE  i = j
  BY <1>5 DEF OneActivePerLane
<1>6. CASE Quiet \/ UnitStep \/ \E x \in Job : Cancel(x)
  <2>1. ASSUME NEW x \in Job, Cancel(x)
        PROVE  lane' = lane /\ \A y \in Job : status'[y] \in Active => status[y] \in Active
    BY <2>1 DEF Cancel
  <2> QED BY <1>5, <1>6, <2>1 DEF Quiet, UnitStep
<1>7. ASSUME NEW w \in Worker, NEW x \in Job, ClaimNext(w, x) PROVE i = j
  BY <1>5, <1>7, ClaimRow DEF Same, Claimed, Swept, Active
<1>8. ASSUME NEW w \in Worker, claim[w].job \in Job, pc[w] # "idle", Ends(w) PROVE i = j
  BY <1>5, <1>8, EndRow DEF Same, Generated, Operated, Failed, Outcome, Active
<1> QED BY <1>3, <1>4, <1>6, <1>7, <1>8, Steps

\* Whatever order the enqueues, retries, sweeps and failures of the jobs of a
\* document set come in, one job of an operation is active at a time.
THEOREM Lanes == Spec => []OneActivePerLane
<1>1. Init => OneActivePerLane
  BY DEF Init, OneActivePerLane, Active
<1> QED BY <1>1, LaneInductive, Invariant, PTL DEF Spec

\* No step takes a SUCCEEDED unit or job back.
LEMMA CheckpointStep ==
    ASSUME IInv, [Next]_vars, NEW i \in Job
    PROVE  /\ status[i] = "SUCCEEDED" => status'[i] = "SUCCEEDED"
           /\ \A k \in Unit : unitStatus[i][k] = "SUCCEEDED" =>
                 /\ unitStatus'[i][k] = "SUCCEEDED"
                 /\ unitAttempt'[i][k] = unitAttempt[i][k]
<1>1. Same(i) \/ Touched(i)
  BY RowSteps DEF IInv
<1>2. status[i] = "SUCCEEDED" => status'[i] = "SUCCEEDED"
  BY <1>1 DEF Same, Touched, Enqueued, CancelRequested, Retried, Claimed, Swept, UnitMoved,
              Generated, Operated, Failed, Active, Retryable
<1>3. ASSUME NEW k \in Unit, unitStatus[i][k] = "SUCCEEDED"
      PROVE  unitStatus'[i][k] = "SUCCEEDED" /\ unitAttempt'[i][k] = unitAttempt[i][k]
  <2>0. k \in Key /\ k # Operation /\ unitStatus[i] \in [Key -> UnitState]
    BY Keys, Rows DEF IInv
  <2>1. ~Enqueued(i)
    BY <1>3, <2>0 DEF Enqueued, IInv, Fresh
  <2>2. CASE Same(i)
    BY <1>3, <2>2 DEF Same
  <2>3. CASE CancelRequested(i)
    BY <1>3, <2>0, <2>3 DEF CancelRequested, Active
  <2>4. CASE Retried(i)
    BY <1>3, <2>0, <2>4 DEF Retried, Reopened
  <2>5. CASE Swept(i)
    BY <1>3, <2>0, <2>5 DEF Swept
  <2>6. CASE UnitMoved(i)
    BY <1>3, <2>0, <2>6 DEF UnitMoved
  <2>7. CASE Claimed(i) \/ Generated(i) \/ Operated(i)
    BY <1>3, <2>0, <2>7 DEF Claimed, Generated, Operated, SetOperation
  <2>8. CASE Failed(i)
    BY <1>3, <2>0, <2>8 DEF Failed, SetOperation
  <2> QED BY <1>1, <2>1, <2>2, <2>3, <2>4, <2>5, <2>6, <2>7, <2>8 DEF Touched
<1> QED BY <1>2, <1>3

\* A SUCCEEDED unit or job is never taken back nor attempted again, by no retry,
\* takeover, sweep or late failure of an older attempt.
THEOREM Checkpoints == Spec => CheckpointsAreFinal
<1>1. IInv /\ [Next]_vars =>
        [\A j \in Job :
          /\ status[j] = "SUCCEEDED" => status'[j] = "SUCCEEDED"
          /\ \A k \in Unit : unitStatus[j][k] = "SUCCEEDED" =>
                /\ unitStatus'[j][k] = "SUCCEEDED"
                /\ unitAttempt'[j][k] = unitAttempt[j][k]]_vars
  BY CheckpointStep
<1> QED BY <1>1, Invariant, PTL DEF Spec, CheckpointsAreFinal

\* No step publishes for a job whose cancel request is pending.
LEMMA CancelStep ==
    ASSUME IInv, [Next]_vars, NEW i \in Job, cancel[i], cancel'[i]
    PROVE  /\ status'[i] \in {"RUNNING", "CANCELED", "FAILED"}
           /\ \A k \in Unit : unitStatus'[i][k] = "SUCCEEDED" => unitStatus[i][k] = "SUCCEEDED"
<1>1. Same(i) \/ Touched(i)
  BY RowSteps DEF IInv
<1>2. status'[i] \in {"RUNNING", "CANCELED", "FAILED"}
  BY <1>1, CancelInductive DEF IInv
<1>3. ASSUME NEW k \in Unit, unitStatus'[i][k] = "SUCCEEDED"
      PROVE  unitStatus[i][k] = "SUCCEEDED"
  <2>0. k \in Key /\ k # Operation /\ unitStatus[i] \in [Key -> UnitState]
    BY Keys, Rows DEF IInv
  <2>1. ~Enqueued(i) /\ ~Retried(i) /\ ~Claimed(i) /\ ~UnitMoved(i) /\ ~Generated(i)
        /\ ~Operated(i)
    BY DEF Enqueued, Retried, Claimed, UnitMoved, Generated, Operated, IInv, Fresh
  <2>2. CASE Same(i)
    BY <1>3, <2>2 DEF Same
  <2>3. CASE CancelRequested(i) \/ Swept(i)
    BY <1>3, <2>0, <2>3 DEF CancelRequested, Swept
  <2>4. CASE Failed(i)
    BY <1>3, <2>0, <2>4 DEF Failed, SetOperation
  <2> QED BY <1>1, <2>1, <2>2, <2>3, <2>4 DEF Touched
<1> QED BY <1>2, <1>3

\* Between a cancel request and a retry no proposal and no outcome of the job is
\* published, by whichever worker still runs it.
THEOREM Cancellation == Spec => CancelBlocksPublication
<1>1. IInv /\ [Next]_vars =>
        [\A j \in Job : cancel[j] /\ cancel'[j] =>
          /\ status'[j] \in {"RUNNING", "CANCELED", "FAILED"}
          /\ \A k \in Unit : unitStatus'[j][k] = "SUCCEEDED" =>
                                unitStatus[j][k] = "SUCCEEDED"]_vars
  BY CancelStep
<1> QED BY <1>1, Invariant, PTL DEF Spec, CancelBlocksPublication

-----------------------------------------------------------------------------
\* OutcomeMatchesUnits for one job.
Matches(i) ==
    Generates(i) =>
        /\ completed[i] = Cardinality(Succeeded(i))
        /\ status[i] = "SUCCEEDED" => Succeeded(i) = Unit
        /\ status[i] = "PARTIAL_FAILED" =>
              Succeeded(i) # {} /\ Succeeded(i) \cup UnitsIn(i, "FAILED") = Unit

\* OutcomeMatchesUnits, job by job.
LEMMA MatchesAll == /\ OutcomeMatchesUnits <=> \A i \in Job : Matches(i)
                    /\ OutcomeMatchesUnits' <=> \A i \in Job : Matches(i)'
BY DEF OutcomeMatchesUnits, Matches

\* A step that leaves the SUCCEEDED units of a job alone.
LEMMA MatchesKept ==
    ASSUME NEW i \in Job, Matches(i), lane'[i] = lane[i],
           \A k \in Unit : unitStatus'[i][k] = "SUCCEEDED" <=> unitStatus[i][k] = "SUCCEEDED",
           completed'[i] \in {completed[i], Cardinality(Succeeded(i))},
           status'[i] \notin {"SUCCEEDED", "PARTIAL_FAILED"}
    PROVE  Matches(i)'
<1>1. Succeeded(i)' = Succeeded(i)
  BY DEF Succeeded, UnitsIn
<1> QED BY <1>1 DEF Matches, Generates

\* Every step keeps the outcome of a job equal to what its units show.
LEMMA MatchesStep == ASSUME IInv, [Next]_vars, NEW i \in Job, Matches(i) PROVE Matches(i)'
<1>0. /\ unitStatus[i] \in [Key -> UnitState] /\ Unit \subseteq Key /\ Operation \notin Unit
      /\ Same(i) \/ Touched(i)
  BY Rows, Keys, RowSteps DEF IInv
<1>1. CASE Same(i)
  BY <1>1 DEF Same, Matches, Generates, Succeeded, UnitsIn
<1>2. CASE Enqueued(i)
  <2>1. Succeeded(i)' = {}
    BY <1>2 DEF Enqueued, Succeeded, UnitsIn
  <2>2. completed'[i] = 0
    BY <1>2 DEF Enqueued, IInv, Fresh
  <2> QED BY <1>2, <2>1, <2>2, FS_EmptySet DEF Enqueued, Matches
<1>3. CASE CancelRequested(i)
  <2>1. \A k \in Unit : unitStatus'[i][k] = "SUCCEEDED" <=> unitStatus[i][k] = "SUCCEEDED"
    BY <1>0, <1>3 DEF CancelRequested, Active
  <2> QED BY <1>3, <2>1, MatchesKept DEF CancelRequested
<1>4. CASE Retried(i)
  <2>1. \A k \in Unit : unitStatus'[i][k] = "SUCCEEDED" <=> unitStatus[i][k] = "SUCCEEDED"
    BY <1>0, <1>4 DEF Retried, Reopened
  <2> QED BY <1>4, <2>1, MatchesKept DEF Retried
<1>5. CASE Claimed(i)
  <2>1. \A k \in Unit : unitStatus'[i][k] = "SUCCEEDED" <=> unitStatus[i][k] = "SUCCEEDED"
    BY <1>0, <1>5 DEF Claimed, SetOperation
  <2> QED BY <1>5, <2>1, MatchesKept DEF Claimed
<1>6. CASE Swept(i)
  <2>1. \A k \in Unit : unitStatus'[i][k] = "SUCCEEDED" <=> unitStatus[i][k] = "SUCCEEDED"
    BY <1>0, <1>6 DEF Swept
  <2> QED BY <1>6, <2>1, MatchesKept DEF Swept
<1>7. CASE UnitMoved(i)
  <2> PICK k \in Unit, s \in {"RUNNING", "SUCCEEDED", "FAILED"} :
        /\ status[i] = "RUNNING" /\ unitStatus[i][k] # "SUCCEEDED"
        /\ unitStatus'[i] = [unitStatus[i] EXCEPT ![k] = s]
        /\ completed'[i] = IF s = "SUCCEEDED" THEN Cardinality(Succeeded(i) \cup {k})
                           ELSE completed[i]
        /\ lane'[i] = lane[i] /\ status'[i] = status[i]
    BY <1>7 DEF UnitMoved
  <2>1. CASE s # "SUCCEEDED"
    <3>1. \A x \in Unit : unitStatus'[i][x] = "SUCCEEDED" <=> unitStatus[i][x] = "SUCCEEDED"
      BY <1>0, <2>1
    <3> QED BY <2>1, <3>1, MatchesKept
  <2>2. CASE s = "SUCCEEDED"
    <3>1. Succeeded(i)' = Succeeded(i) \cup {k}
      BY <1>0, <2>2 DEF Succeeded, UnitsIn
    <3> QED BY <2>2, <3>1 DEF Matches
  <2> QED BY <2>1, <2>2
<1>8. CASE Generated(i)
  <2>1. \A s : UnitsIn(i, s)' = UnitsIn(i, s)
    BY <1>0, <1>8 DEF Generated, SetOperation, UnitsIn
  <2>2. Succeeded(i)' = Succeeded(i)
    BY <2>1 DEF Succeeded
  <2>3. status'[i] = Outcome(UnitsIn(i, "FAILED")) /\ UnitsIn(i, "FAILED") \cup Succeeded(i) = Unit
        /\ completed'[i] = Cardinality(Succeeded(i))
    BY <1>8 DEF Generated
  <2> QED BY <2>1, <2>2, <2>3 DEF Matches, Outcome
<1>9. CASE Operated(i)
  BY <1>9 DEF Operated, Matches, Generates
<1>10. CASE Failed(i)
  <2>1. \A k \in Unit : unitStatus'[i][k] = "SUCCEEDED" <=> unitStatus[i][k] = "SUCCEEDED"
    BY <1>0, <1>10 DEF Failed, SetOperation
  <2> QED BY <1>10, <2>1, MatchesKept DEF Failed
<1> QED BY <1>0, <1>1, <1>2, <1>3, <1>4, <1>5, <1>6, <1>7, <1>8, <1>9, <1>10 DEF Touched

\* However many attempts, takeovers and retries a generation job takes, its
\* outcome and its progress counter are what its persisted units show.
THEOREM Outcomes == Spec => []OutcomeMatchesUnits
<1>1. Init => OutcomeMatchesUnits
  <2> SUFFICES ASSUME Init, NEW i \in Job PROVE Matches(i)
    BY MatchesAll
  <2>1. Succeeded(i) = {}
    BY Keys DEF Init, Succeeded, UnitsIn
  <2> QED BY <2>1, FS_EmptySet DEF Init, Matches
<1>2. IInv /\ OutcomeMatchesUnits /\ [Next]_vars => OutcomeMatchesUnits'
  BY MatchesStep, MatchesAll
<1> QED BY <1>1, <1>2, Invariant, PTL DEF Spec

=============================================================================
