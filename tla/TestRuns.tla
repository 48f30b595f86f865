------------------------------ MODULE TestRuns ------------------------------
(***************************************************************************)
(* One document test run: the queue of executions (execution.Repository,     *)
(* execution.Worker), the automation artifacts its items are run with, the   *)
(* queue of artifact repairs (automation.Repository, RepairWorker) and the   *)
(* reviews that send a repaired item back to the first queue.                *)
(*                                                                           *)
(* An analysis has one run (unique index of migration 17) and every          *)
(* statement names one run, so one run is enough.  An action is a committed  *)
(* transaction or a step of a worker between two of them.  Neither queue     *)
(* takes over an expired lease, so leases and their renewals change nothing. *)
(* Left out: automation_status of a test case, the recorded provider calls,  *)
(* expected-result hashes (immutable, so always equal), and the trigger that *)
(* refuses artifacts of a case that is no longer approved: it only keeps     *)
(* steps from happening that nothing here forces.                            *)
(***************************************************************************)
EXTENDS Integers, FiniteSets, Sequences

CONSTANTS
    Case,              \* test cases of the release
    Runner, Repairer,  \* worker goroutines of the two queues
    MaxRunAttempts,    \* MaxAttempts of the execution worker
    MaxQueueAttempts,  \* MaxAttempts of the repair worker
    MaxRepairs,        \* MAX_REPAIR_ATTEMPTS of a case in a run
    ArtifactBound,     \* bound on artifacts: no generation beyond it
    Seen               \* the verdicts that executions and reviewers give

ASSUME RunAttemptsAssumption == MaxRunAttempts \in Nat \ {0}
ASSUME QueueAttemptsAssumption == MaxQueueAttempts \in Nat \ {0}
ASSUME RepairsAssumption == MaxRepairs \in Nat
ASSUME ArtifactAssumption == ArtifactBound \in Nat

VARIABLES
    run,       \* the row of test_runs
    item,      \* test_run_items: (case, attempt_number) -> row, for rows that exist
    scope,     \* analysis_test_scope_items: the reviewers' choice for each case
    artifact,  \* automation_artifacts, by id
    repair,    \* automation_repair_jobs, by id
    runner,    \* what each execution worker holds
    repairer   \* what each repair worker holds

runsVars == <<run, item, scope, artifact, repair, runner, repairer>>

Verdict == {"PASSED", "PRODUCT_FAILED", "AUTOMATION_ERROR", "INFRA_ERROR", "TIMED_OUT", "BLOCKED"}
ASSUME SeenAssumption == Seen \subseteq Verdict

ActiveRepair == {"PENDING", "RUNNING", "WAITING_REVIEW"}
Item == [status : {"NOT_RUN"} \cup Verdict, artifact : 0..ArtifactBound]
Planned == [status |-> "NOT_RUN", artifact |-> 0]
NoRunner == [phase |-> "idle", attempt |-> 0, pick |-> << >>]
NoRepairer == [phase |-> "idle", job |-> 0, claims |-> 0]

AttemptItems(n) == {i \in DOMAIN item : i[2] = n}
RepairsOf(c) == {j \in DOMAIN repair : repair[j].case = c}
ApprovedFor(c) == {a \in DOMAIN artifact : artifact[a].case = c /\ artifact[a].status = "APPROVED"}
Latest(S) == IF S = {} THEN 0 ELSE CHOOSE a \in S : \A b \in S : b <= a
LastAttempt == Latest({i[2] : i \in DOMAIN item})

RunsTypeOK ==
    /\ run \in [status : {"NONE", "PENDING", "RUNNING", "COMPLETED", "FAILED"},
                requested : BOOLEAN, attempt : Nat]
    /\ \A i \in DOMAIN item : i \in Case \X (Nat \ {0}) /\ item[i] \in Item
    /\ scope \in [Case -> [included : BOOLEAN, manual : BOOLEAN]]
    /\ artifact \in Seq([case : Case, status : {"DRAFT", "APPROVED", "REJECTED"}])
    /\ \A j \in DOMAIN repair : repair[j] \in
          [case : Case, item : Nat, source : Nat, repaired : Nat, claims : 0..MaxQueueAttempts,
           status : ActiveRepair \cup {"APPROVED", "REJECTED", "UNREPAIRABLE", "FAILED"}]
    /\ \A w \in Runner : runner[w].phase \in {"idle", "claimed", "loaded"}
    /\ \A p \in Repairer : repairer[p].phase \in {"idle", "claimed", "loaded"}

RunsInit ==
    /\ run = [status |-> "NONE", requested |-> FALSE, attempt |-> 0]
    /\ item = << >>
    /\ scope = [c \in Case |-> [included |-> FALSE, manual |-> FALSE]]
    /\ artifact = << >>
    /\ repair = << >>
    /\ runner = [w \in Runner |-> NoRunner]
    /\ repairer = [p \in Repairer |-> NoRepairer]

-----------------------------------------------------------------------------
(* The execution queue. *)

\* scope.Repository creates the run with an item for every included case.
Create(included) ==
    /\ run.status = "NONE"
    /\ run' = [run EXCEPT !.status = "PENDING"]
    /\ item' = [i \in included \X {1} |-> Planned]
    /\ scope' = [c \in Case |-> [included |-> c \in included, manual |-> FALSE]]
    /\ UNCHANGED <<artifact, repair, runner, repairer>>

\* A reviewer takes a case into the run, or out of it, whatever the run is at:
\* a case taken in gets the item of a first attempt unless it has had one; one
\* taken out loses its items without a verdict, of which there has to be one.
Include(c) ==
    /\ run.status # "NONE"
    /\ ~scope[c].included
    /\ item' = [i \in DOMAIN item \cup {<<c, 1>>} |-> IF i \in DOMAIN item THEN item[i] ELSE Planned]
    /\ scope' = [scope EXCEPT ![c] = [included |-> TRUE, manual |-> TRUE]]
    /\ UNCHANGED <<run, artifact, repair, runner, repairer>>

Removable_Any(c) == {i \in DOMAIN item : i[1] = c}
Removable(c) == {i \in DOMAIN item : i[1] = c /\ item[i].status = "NOT_RUN"}
Exclude(c) ==
    /\ run.status # "NONE"
    /\ scope[c].included
    /\ Removable(c) # {}
    /\ item' = [i \in DOMAIN item \ Removable(c) |-> item[i]]
    /\ scope' = [scope EXCEPT ![c] = [included |-> FALSE, manual |-> TRUE]]
    /\ UNCHANGED <<run, artifact, repair, runner, repairer>>

\* The decision repeated, as it is: only marked as the reviewer's.
Confirm(c) ==
    /\ run.status # "NONE"
    /\ scope' = [scope EXCEPT ![c].manual = TRUE]
    /\ UNCHANGED <<run, item, artifact, repair, runner, repairer>>

Request ==
    /\ run.status = "PENDING"
    /\ ~run.requested
    /\ run' = [run EXCEPT !.requested = TRUE]
    /\ UNCHANGED <<scope, item, artifact, repair, runner, repairer>>

Startable == run.status = "PENDING" /\ run.requested
ClaimRun(w) ==
    /\ runner[w].phase = "idle"
    /\ Startable
    /\ run' = [run EXCEPT !.status = "RUNNING", !.attempt = @ + 1]
    /\ runner' = [runner EXCEPT ![w] = [phase |-> "claimed", attempt |-> run.attempt + 1, pick |-> << >>]]
    /\ UNCHANGED <<scope, item, artifact, repair, repairer>>

\* The artifact an item is run with: the one it is bound to, else the newest
\* approved one of its case; 0 when there is none.
Pick(i) == IF item[i].artifact # 0 THEN item[i].artifact ELSE Latest(ApprovedFor(i[1]))
LoadAttempt(w) ==
    /\ runner[w].phase = "claimed"
    /\ AttemptItems(runner[w].attempt) # {}
    /\ runner' = [runner EXCEPT ![w].phase = "loaded",
                                ![w].pick = [i \in AttemptItems(runner[w].attempt) |-> Pick(i)]]
    /\ UNCHANGED <<scope, run, item, artifact, repair, repairer>>

\* What Process makes of an item: without an artifact it is BLOCKED; when the
\* sandbox image cannot be described it is INFRA_ERROR and names no artifact.
ItemOutcome(w, i, verdict, described) ==
    CASE runner[w].pick[i] = 0 -> [status |-> "BLOCKED", artifact |-> 0]
      [] runner[w].pick[i] # 0 /\ ~described -> [status |-> "INFRA_ERROR", artifact |-> 0]
      [] OTHER -> [status |-> verdict, artifact |-> runner[w].pick[i]]

\* The trigger on test_run_items: an artifact is bound once, to an approved one.
Binds(old, new) == new.artifact # old.artifact =>
    /\ old.status = "NOT_RUN" /\ old.artifact = 0
    /\ new.artifact # 0 /\ artifact[new.artifact].status = "APPROVED"

Held(w) == run.status = "RUNNING" /\ run.attempt = runner[w].attempt
NextItem(new) == [status |-> "NOT_RUN", artifact |-> new.artifact]
Retried(new, n) == {i \in DOMAIN new : new[i].status = "INFRA_ERROR" /\ n < MaxRunAttempts}
Save(w, verdicts, described) ==
    LET n == runner[w].attempt
        new == [i \in DOMAIN runner[w].pick |-> ItemOutcome(w, i, verdicts[i], described)]
        again == Retried(new, n)
        queued == {<<i[1], n + 1>> : i \in again}
    IN  /\ runner[w].phase = "loaded"
        /\ Held(w)
        /\ \A i \in DOMAIN new : i \in DOMAIN item /\ item[i].status = "NOT_RUN" /\ Binds(item[i], new[i])
        /\ item' = [i \in DOMAIN item \cup queued |->
                      IF i \in DOMAIN new THEN new[i]
                      ELSE IF i \in queued THEN NextItem(new[<<i[1], n>>])
                      ELSE item[i]]
        /\ run' = [run EXCEPT !.status = IF again # {} THEN "PENDING" ELSE "COMPLETED"]
        /\ runner' = [runner EXCEPT ![w] = NoRunner]
        /\ UNCHANGED <<scope, artifact, repair, repairer>>

\* Process failed, in Save too: RetryOrFail gives the attempt back below the limit.
GivenBack == run.attempt - 1
RetryOrFail(w) ==
    /\ runner[w].phase # "idle"
    /\ run' = IF ~Held(w) THEN run
              ELSE IF run.attempt < MaxRunAttempts
              THEN [run EXCEPT !.status = "PENDING", !.attempt = GivenBack]
              ELSE [run EXCEPT !.status = "FAILED"]
    /\ runner' = [runner EXCEPT ![w] = NoRunner]
    /\ UNCHANGED <<scope, item, artifact, repair, repairer>>

\* The process is killed, or RetryOrFail fails too.
RunnerStops(w) ==
    /\ runner[w].phase # "idle"
    /\ runner' = [runner EXCEPT ![w] = NoRunner]
    /\ UNCHANGED <<scope, run, item, artifact, repair, repairer>>

Reclassifiable_WhileRunning(i) == item[i].status # "NOT_RUN"
Reclassifiable(i) == item[i].status # "NOT_RUN" /\ run.status # "RUNNING"
ReviewClassification(i, v) ==
    /\ Reclassifiable(i)
    /\ item' = [item EXCEPT ![i].status = v]
    /\ UNCHANGED <<scope, run, artifact, repair, runner, repairer>>

-----------------------------------------------------------------------------
(* Artifacts and their review. *)

Draft(c) == Append(artifact, [case |-> c, status |-> "DRAFT"])
\* Service.Generate ends in SaveArtifact when the answer is valid; the case may
\* have left the scope since it was read, which is not checked again.
SaveArtifact(c) ==
    /\ Len(artifact) < ArtifactBound
    /\ artifact' = Draft(c)
    /\ UNCHANGED <<scope, run, item, repair, runner, repairer>>

\* Every case of the first attempt has an approved artifact.
AllAutomated(artifacts) == \A i \in AttemptItems(1) :
    \E a \in DOMAIN artifacts : artifacts[a].case = i[1] /\ artifacts[a].status = "APPROVED"

Waiting(a) == {j \in DOMAIN repair : repair[j].repaired = a /\ repair[j].status = "WAITING_REVIEW"}
Undecided_Any(a) == TRUE
Undecided(a) == artifact[a].status = "DRAFT"
Decide_ArtifactOnly(a, decision) ==
    /\ Undecided(a)
    /\ artifact' = [artifact EXCEPT ![a].status = decision]
    /\ repair' = repair
Decide(a, decision) ==
    /\ Undecided(a)
    /\ artifact' = [artifact EXCEPT ![a].status = decision]
    /\ repair' = [j \in DOMAIN repair |->
                    IF j \in Waiting(a) THEN [repair[j] EXCEPT !.status = decision] ELSE repair[j]]

Reject(a) ==
    /\ Decide(a, "REJECTED")
    /\ UNCHANGED <<scope, run, item, runner, repairer>>

\* An approved artifact of a fully automated run requests it.
Approve(a) ==
    /\ Waiting(a) = {}
    /\ Decide(a, "APPROVED")
    /\ run' = IF run.status = "PENDING" /\ AllAutomated(artifact')
              THEN [run EXCEPT !.requested = TRUE] ELSE run
    /\ UNCHANGED <<scope, item, runner, repairer>>

\* An approved repair adds an item behind the last attempt and queues the run.
RequeueAttempt_Same(n) == n
RequeueAttempt(n) == n - 1
Requeueable_Any == run.status # "NONE"
Requeueable == run.status \in {"COMPLETED", "FAILED"}
ApproveRepair(a, j) ==
    LET source == <<repair[j].case, repair[j].item>>
        n == LastAttempt + 1
    IN  /\ j \in Waiting(a)
        /\ Decide(a, "APPROVED")
        /\ item[source].status = "AUTOMATION_ERROR"
        /\ Requeueable
        /\ item' = [i \in DOMAIN item \cup {<<repair[j].case, n>>} |->
                      IF i = <<repair[j].case, n>> THEN [status |-> "NOT_RUN", artifact |-> a] ELSE item[i]]
        /\ run' = [status |-> "PENDING", requested |-> TRUE, attempt |-> RequeueAttempt(n)]
        /\ UNCHANGED <<scope, runner, repairer>>

-----------------------------------------------------------------------------
(* The repair queue. *)

NoActiveRepair(i) == ~\E j \in RepairsOf(i[1]) : repair[j].status \in ActiveRepair
RepairsUsed(i) == Cardinality(RepairsOf(i[1]))
RequestRepair(i) ==
    /\ item[i].artifact # 0
    /\ artifact[item[i].artifact].status = "APPROVED"
    /\ item[i].status = "AUTOMATION_ERROR"
    /\ NoActiveRepair(i)
    /\ RepairsUsed(i) < MaxRepairs
    /\ repair' = Append(repair, [case |-> i[1], item |-> i[2], source |-> item[i].artifact,
                                 repaired |-> 0, claims |-> 0, status |-> "PENDING"])
    /\ UNCHANGED <<scope, run, item, artifact, runner, repairer>>

ClaimRepair(p, j) ==
    /\ repairer[p].phase = "idle"
    /\ repair[j].status = "PENDING"
    /\ repair' = [repair EXCEPT ![j].status = "RUNNING", ![j].claims = @ + 1]
    /\ repairer' = [repairer EXCEPT ![p] = [phase |-> "claimed", job |-> j, claims |-> repair[j].claims + 1]]
    /\ UNCHANGED <<scope, run, item, artifact, runner>>

RepairHeld(p) ==
    LET j == repairer[p].job IN repair[j].status = "RUNNING" /\ repair[j].claims = repairer[p].claims
LoadRepairSubject(p) ==
    LET j == repairer[p].job IN
    /\ repairer[p].phase = "claimed"
    /\ RepairHeld(p)
    /\ item[<<repair[j].case, repair[j].item>>].status = "AUTOMATION_ERROR"
    /\ repairer' = [repairer EXCEPT ![p].phase = "loaded"]
    /\ UNCHANGED <<scope, run, item, artifact, repair, runner>>

\* The answer keeps file, assertions and contract and changes the source.
CompleteRepair(p) ==
    LET j == repairer[p].job IN
    /\ repairer[p].phase = "loaded"
    /\ RepairHeld(p)
    /\ Len(artifact) < ArtifactBound
    /\ artifact' = Draft(repair[j].case)
    /\ repair' = [repair EXCEPT ![j].status = "WAITING_REVIEW", ![j].repaired = Len(artifact) + 1]
    /\ repairer' = [repairer EXCEPT ![p] = NoRepairer]
    /\ UNCHANGED <<scope, run, item, runner>>

\* The answer breaks the contract, or the budget or the cost limit is reached.
MarkRepairUnrepairable(p) ==
    /\ repairer[p].phase = "loaded"
    /\ RepairHeld(p)
    /\ repair' = [repair EXCEPT ![repairer[p].job].status = "UNREPAIRABLE"]
    /\ repairer' = [repairer EXCEPT ![p] = NoRepairer]
    /\ UNCHANGED <<scope, run, item, artifact, runner>>

RepairGoesOn_Always(j) == TRUE
RepairGoesOn(j) == repair[j].claims < MaxQueueAttempts
RetryOrFailRepair(p) ==
    LET j == repairer[p].job IN
    /\ repairer[p].phase # "idle"
    /\ repair' = IF ~RepairHeld(p) THEN repair
                 ELSE [repair EXCEPT ![j].status = IF RepairGoesOn(j) THEN "PENDING" ELSE "FAILED"]
    /\ repairer' = [repairer EXCEPT ![p] = NoRepairer]
    /\ UNCHANGED <<scope, run, item, artifact, runner>>

\* The process is killed, or stops: runOne saves the failure under the context
\* that a shutdown has already canceled.
RepairerStops(p) ==
    /\ repairer[p].phase # "idle"
    /\ repairer' = [repairer EXCEPT ![p] = NoRepairer]
    /\ UNCHANGED <<scope, run, item, artifact, repair, runner>>

-----------------------------------------------------------------------------
RunnerStep(w) ==
    \/ LoadAttempt(w)
    \/ \E v \in [DOMAIN runner[w].pick -> Seen], described \in BOOLEAN : Save(w, v, described)
    \/ RetryOrFail(w)
RepairerStep(p) ==
    LoadRepairSubject(p) \/ CompleteRepair(p) \/ MarkRepairUnrepairable(p) \/ RetryOrFailRepair(p)

RunsNext ==
    \/ \E included \in (SUBSET Case) \ {{}} : Create(included)
    \/ Request
    \/ \E c \in Case : Include(c) \/ Exclude(c) \/ Confirm(c)
    \/ \E w \in Runner : ClaimRun(w) \/ RunnerStep(w) \/ RunnerStops(w)
    \/ \E i \in DOMAIN item : RequestRepair(i) \/ \E v \in Seen : ReviewClassification(i, v)
    \/ \E c \in Case : SaveArtifact(c)
    \/ \E a \in DOMAIN artifact :
          Reject(a) \/ Approve(a) \/ \E j \in DOMAIN repair : ApproveRepair(a, j)
    \/ \E p \in Repairer :
          \/ \E j \in DOMAIN repair : ClaimRepair(p, j)
          \/ RepairerStep(p)
          \/ RepairerStops(p)

RunsSpec == RunsInit /\ [][RunsNext]_runsVars

\* The two goroutines poll for as long as their process runs, and a process
\* that was killed is started again.
RunsFairness ==
    /\ \A w \in Runner : WF_runsVars(ClaimRun(w)) /\ WF_runsVars(RunnerStep(w))
    /\ \A p \in Repairer :
          /\ WF_runsVars(\E j \in DOMAIN repair : ClaimRepair(p, j))
          /\ WF_runsVars(RepairerStep(p))
RunsFairSpec == RunsSpec /\ RunsFairness

-----------------------------------------------------------------------------
(* Properties. *)

\* The attempt that runs, or that the next claim will run.
Queued == run.attempt + IF run.status = "PENDING" THEN 1 ELSE 0

\* The counters of three handlers agree: the attempt that a claim will load
\* has items to run, unless a reviewer took cases out or in, and none of a
\* running attempt is saved already, which would make Save refuse the whole
\* result.
ClaimFindsItems ==
    run.status \in {"PENDING", "RUNNING"} =>
        /\ AttemptItems(Queued) = {} => \E c \in Case : scope[c].manual
        /\ \A i \in AttemptItems(Queued) : item[i].status = "NOT_RUN"

\* What is queued is executed, or its attempt fails for good: the handlers
\* move the run on to a later attempt only when a worker has saved a verdict of
\* all it had loaded, and none is left but what a reviewer took in meanwhile.
Loaded == {w \in Runner : runner[w].phase = "loaded" /\ Held(w)}
QueuedIsExecuted == [][run.status \in {"PENDING", "RUNNING"} /\ Queued' # Queued =>
    /\ \E w \in Loaded : \A i \in DOMAIN runner[w].pick : item'[i].status # "NOT_RUN"
    /\ \A i \in AttemptItems(Queued) : item'[i].status = "NOT_RUN" => scope[i[1]].manual]_runsVars

\* What runs is what a reviewer approved: items are bound to approved artifacts
\* of their own case, one that came out of a repair only if the repair was
\* approved; and a repair waits for a review exactly while its artifact is
\* undecided, and then both are decided alike.
RunsWhatWasApproved ==
    /\ \A i \in DOMAIN item : item[i].artifact # 0 =>
          /\ item[i].artifact \in ApprovedFor(i[1])
          /\ \A j \in DOMAIN repair : repair[j].repaired = item[i].artifact => repair[j].status = "APPROVED"
    /\ \A j \in DOMAIN repair :
          LET a == repair[j].repaired IN
          IF a = 0 THEN repair[j].status \notin {"WAITING_REVIEW", "APPROVED", "REJECTED"}
          ELSE repair[j].status = IF artifact[a].status = "DRAFT" THEN "WAITING_REVIEW" ELSE artifact[a].status

\* A verdict once saved is changed by a reviewer only, while no worker runs,
\* and never comes to name another artifact.
VerdictsAreFinal == [][\A i \in DOMAIN item : item[i].status # "NOT_RUN" =>
    /\ i \in DOMAIN item'
    /\ item'[i].artifact = item[i].artifact
    /\ item'[i].status # item[i].status => run.status # "RUNNING" /\ UNCHANGED <<run, artifact>>]_runsVars

\* "A worker crash does not block a job for good": a claimed run leaves RUNNING.
ClaimedRunEnds == run.status = "RUNNING" ~> run.status # "RUNNING"
=============================================================================
