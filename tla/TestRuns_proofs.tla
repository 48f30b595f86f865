--------------------------- MODULE TestRuns_proofs ---------------------------
(***************************************************************************)
(* Proofs about one test run: the attempt counters of the handlers agree     *)
(* with the items that are there, what is executed is what a reviewer        *)
(* approved, verdicts are earned and final, and no queued attempt is passed  *)
(* over.  For any cases, workers, attempts, repairs and artifacts (RunsInv). *)
(* Last, what holds of a behaviour of this module next to those about        *)
(* requirements and test cases, as the runs check them (MCTests).            *)
(***************************************************************************)
EXTENDS MCTests, RequirementReview_proofs, TestCatalog_proofs, FiniteSetTheorems, SequenceTheorems, WellFoundedInduction, TLAPS

ArtifactRow == [case : Case, status : {"DRAFT", "APPROVED", "REJECTED"}]
RepairRow == [case : Case, item : Nat, source : Nat, repaired : Nat, claims : 0..MaxQueueAttempts,
              status : ActiveRepair \cup {"APPROVED", "REJECTED", "UNREPAIRABLE", "FAILED"}]

RunRowsTyped ==
    /\ run \in [status : {"NONE", "PENDING", "RUNNING", "COMPLETED", "FAILED"},
                requested : BOOLEAN, attempt : Nat]
    /\ DOMAIN item \subseteq Case \X (Nat \ {0}) /\ \A i \in DOMAIN item : item[i] \in Item
    /\ scope \in [Case -> [included : BOOLEAN, manual : BOOLEAN]]
    /\ artifact \in Seq(ArtifactRow) /\ Len(artifact) <= ArtifactBound
    /\ repair \in Seq(RepairRow)
    /\ \A j \in DOMAIN repair : repair[j].status = "PENDING" => repair[j].claims < MaxQueueAttempts

\* A worker runs an attempt that was claimed, with artifacts of the cases.
WorkersTyped ==
    /\ DOMAIN runner = Runner /\ DOMAIN repairer = Repairer
    /\ \A w \in Runner :
          /\ DOMAIN runner[w] = {"phase", "attempt", "pick"}
          /\ runner[w].phase \in {"idle", "claimed", "loaded"} /\ runner[w].attempt \in Nat
          /\ runner[w].phase # "idle" => runner[w].attempt # 0
          /\ runner[w].phase = "loaded" =>
                /\ DOMAIN runner[w].pick # {}
                /\ \A i \in DOMAIN runner[w].pick :
                      /\ i \in Case \X {runner[w].attempt}
                      /\ runner[w].pick[i] \in 0..Len(artifact)
                      /\ runner[w].pick[i] # 0 => artifact[runner[w].pick[i]].case = i[1]
    /\ \A p \in Repairer :
          /\ DOMAIN repairer[p] = {"phase", "job", "claims"}
          /\ repairer[p].phase \in {"idle", "claimed", "loaded"}
          /\ repairer[p].phase # "idle" => repairer[p].job \in DOMAIN repair

HasVerdict(i) == i \in DOMAIN item /\ item[i].status # "NOT_RUN"

\* What is bound is approved; a repair is of an item with a verdict, and its
\* artifact is of the same case and decided as the repair is.
ArtifactsBound ==
    /\ \A i \in DOMAIN item : item[i].artifact # 0 => item[i].artifact \in ApprovedFor(i[1])
    /\ \A j \in DOMAIN repair :
          LET a == repair[j].repaired IN
          /\ a \in 0..Len(artifact)
          /\ HasVerdict(<<repair[j].case, repair[j].item>>)
          /\ a # 0 => artifact[a].case = repair[j].case
          /\ IF a = 0 THEN repair[j].status \notin {"WAITING_REVIEW", "APPROVED", "REJECTED"}
             ELSE repair[j].status = IF artifact[a].status = "DRAFT" THEN "WAITING_REVIEW" ELSE artifact[a].status

VerdictAt(n) == \E i \in DOMAIN item : i[2] = n /\ item[i].status # "NOT_RUN"

\* No item is of a later attempt than the queued one; an attempt that ended
\* leaves a verdict, unless it is one that fails for good.
AttemptsCounted ==
    /\ run.status = "NONE" => DOMAIN item = {} /\ run.attempt = 0
    /\ run.status \in {"RUNNING", "COMPLETED", "FAILED"} => run.attempt # 0
    /\ run.status = "COMPLETED" => VerdictAt(run.attempt)
    /\ run.status = "FAILED" => MaxRunAttempts <= run.attempt
    /\ \A i \in DOMAIN item : i[2] <= Queued
    /\ \A m \in 1..(Queued - 1) : m < MaxRunAttempts => VerdictAt(m)

\* A worker that is late by an attempt, or that was overtaken when items were
\* taken out, never saves what would pass over an item.
PicksStand == \A w \in Runner :
    /\ runner[w].phase # "idle" /\ Queued < runner[w].attempt => MaxRunAttempts <= Queued
    /\ runner[w].phase = "loaded" =>
          \/ \A i \in AttemptItems(runner[w].attempt) \ DOMAIN runner[w].pick : scope[i[1]].manual
          \/ runner[w].attempt # 1 /\ ~(DOMAIN runner[w].pick \subseteq DOMAIN item)

RunsInv == RunRowsTyped /\ WorkersTyped /\ ArtifactsBound /\ AttemptsCounted /\ PicksStand /\ ClaimFindsItems

-----------------------------------------------------------------------------
(* Numbers.                                                                 *)

Below == {p \in Nat \X Nat : p[1] < p[2]}

\* A set of numbers has a least one.
LEMMA Least ==
  ASSUME NEW S \in SUBSET Nat, S # {}
  PROVE  \E m \in S : \A n \in S : m <= n
<1>1. IsWellFoundedOn(Below, Nat)  BY NatLessThanWellFounded DEF OpToRel, Below
<1>2. PICK m \in S : \A n \in S : ~(<<n, m>> \in Below)  BY <1>1, WFMin
<1>3. \A n \in Nat : n < m => <<n, m>> \in Below  BY DEF Below
<1>4. \A n \in S : m <= n
  <2> TAKE n \in S
  <2>1. m \in Nat /\ n \in Nat  OBVIOUS
  <2>2. ~(n < m)  BY <1>2, <1>3, <2>1
  <2> QED  BY <2>1, <2>2
<1> QED  BY <1>4

\* What the newest of a bounded set is.
LEMMA LatestIs ==
  ASSUME NEW N \in Nat, NEW S \in SUBSET (0..N)
  PROVE  /\ S = {} => Latest(S) = 0
         /\ S # {} => Latest(S) \in S /\ \A b \in S : b <= Latest(S)
<1>1. CASE S = {}  BY <1>1 DEF Latest
<1>2. CASE S # {}
  <2> DEFINE U == {k \in Nat : k <= N /\ N - k \in S}
  <2>1. PICK t \in S : TRUE  BY <1>2
  <2>2. N - t \in U  OBVIOUS
  <2>3. PICK k \in U : \A l \in U : k <= l  BY <2>2, Least
  <2>4. \A n \in S : N - n \in U  OBVIOUS
  <2>5. N - k \in S /\ \A n \in S : n <= N - k  BY <2>3, <2>4
  <2> QED  BY <1>2, <2>5 DEF Latest
<1> QED  BY <1>1, <1>2

\* What the counters say in one place.
LEMMA Counters ==
  ASSUME RunsInv
  PROVE  /\ run.attempt \in Nat /\ Queued \in Nat /\ MaxRunAttempts \in Nat \ {0}
         /\ Queued = IF run.status = "PENDING" THEN run.attempt + 1 ELSE run.attempt
         /\ \A i \in DOMAIN item : /\ i \in Case \X (Nat \ {0}) /\ i[1] \in Case /\ i[2] \in 1..Queued
                                   /\ i = <<i[1], i[2]>> /\ item[i] \in Item
BY RunAttemptsAssumption DEF RunsInv, RunRowsTyped, AttemptsCounted, Queued

-----------------------------------------------------------------------------
(* Steps that leave the items or the artifacts alone.                       *)

\* Neither the run nor its items move.
LEMMA RunStays ==
  ASSUME RunsInv, UNCHANGED <<item, scope, runner>>,
         run'.status = run.status, run'.attempt = run.attempt
  PROVE  AttemptsCounted' /\ PicksStand' /\ ClaimFindsItems'
<1>1. Queued' = Queued  BY DEF Queued
<1>2. \A n : AttemptItems(n)' = AttemptItems(n) /\ VerdictAt(n)' = VerdictAt(n)
  BY DEF AttemptItems, VerdictAt
<1>3. AttemptsCounted'  BY <1>1, <1>2 DEF RunsInv, AttemptsCounted
<1>4. PicksStand'  BY <1>1, <1>2 DEF RunsInv, PicksStand
<1>5. ClaimFindsItems'  BY <1>1, <1>2 DEF RunsInv, ClaimFindsItems
<1> QED  BY <1>3, <1>4, <1>5

\* Items change, artifacts and repairs do not.
LEMMA ItemsMove ==
  ASSUME RunsInv, UNCHANGED <<artifact, repair>>,
         \A i \in DOMAIN item' : item'[i].artifact # 0 => item'[i].artifact \in ApprovedFor(i[1]),
         \A i \in DOMAIN item : HasVerdict(i) => HasVerdict(i)'
  PROVE  ArtifactsBound'
<1>1. \A c : ApprovedFor(c)' = ApprovedFor(c)  BY DEF ApprovedFor
<1>2. \A i : HasVerdict(i) => HasVerdict(i)'  BY DEF HasVerdict
<1> QED  BY <1>1, <1>2 DEF RunsInv, ArtifactsBound

\* A worker that becomes idle.
LEMMA RunnerIdles ==
  ASSUME RunsInv, NEW w \in Runner, runner' = [runner EXCEPT ![w] = NoRunner],
         UNCHANGED <<artifact, repair, repairer>>
  PROVE  /\ WorkersTyped'
         /\ \A v \in Runner : runner'[v].phase # "idle" => v # w /\ runner'[v] = runner[v]
BY DEF RunsInv, WorkersTyped, NoRunner

-----------------------------------------------------------------------------
(* The run and its items.                                                   *)

\* No run, no items.
LEMMA RunsStart == RunsInit => RunsInv
<1> SUFFICES ASSUME RunsInit PROVE RunsInv  OBVIOUS
<1> USE DEF RunsInit
<1>1. DOMAIN item = {} /\ DOMAIN repair = {} /\ Len(artifact) = 0 /\ Len(repair) = 0
  BY EmptySeq
<1>2. RunRowsTyped  BY <1>1, EmptySeq, ArtifactAssumption DEF RunRowsTyped
<1>3. WorkersTyped  BY <1>1 DEF WorkersTyped, NoRunner, NoRepairer
<1>4. Queued = 0  BY DEF Queued
<1> QED  BY <1>1, <1>2, <1>3, <1>4 DEF RunsInv, ArtifactsBound, AttemptsCounted, PicksStand, NoRunner, ClaimFindsItems

\* Before the run is created nobody works on it.
LEMMA RunIsCreated ==
  ASSUME RunsInv, NEW included \in (SUBSET Case) \ {{}}, Create(included)
  PROVE  RunsInv'
<1>1. /\ run.status = "NONE" /\ DOMAIN item = {} /\ Queued = 0
      /\ run' = [run EXCEPT !.status = "PENDING"] /\ run'.attempt = 0 /\ run'.status = "PENDING"
      /\ UNCHANGED <<artifact, repair, runner, repairer>>
  BY Counters DEF Create, RunsInv, RunRowsTyped, AttemptsCounted
<1>2. Queued' = 1  BY <1>1 DEF Queued
<1>3. /\ DOMAIN item' = included \X {1}
      /\ \A i \in DOMAIN item' : item'[i] = Planned /\ i[1] \in included /\ i[2] = 1
  BY DEF Create
<1>4. Planned \in Item /\ Planned.status = "NOT_RUN" /\ Planned.artifact = 0
  BY ArtifactAssumption DEF Planned, Item
<1>5. RunRowsTyped'
  <2>1. DOMAIN item' \subseteq Case \X (Nat \ {0}) /\ \A i \in DOMAIN item' : item'[i] \in Item
    BY <1>3, <1>4
  <2>2. scope' \in [Case -> [included : BOOLEAN, manual : BOOLEAN]]  BY DEF Create
  <2> QED  BY <1>1, <2>1, <2>2 DEF RunsInv, RunRowsTyped
<1>6. WorkersTyped'  BY <1>1 DEF RunsInv, WorkersTyped
<1>7. ArtifactsBound'
  BY <1>1, <1>3, <1>4, ItemsMove DEF HasVerdict
<1>8. AttemptsCounted'  BY <1>1, <1>2, <1>3 DEF AttemptsCounted
<1>9. PicksStand'
  <2>1. \A w \in Runner : runner[w].phase = "idle"
    BY <1>1, Counters DEF RunsInv, WorkersTyped, PicksStand
  <2> QED  BY <1>1, <2>1 DEF PicksStand
<1>10. ClaimFindsItems'
  <2>1. PICK c \in included : TRUE  OBVIOUS
  <2>2. <<c, 1>> \in AttemptItems(1)'  BY <1>3, <2>1 DEF AttemptItems
  <2>3. \A i \in AttemptItems(1)' : item'[i].status = "NOT_RUN"  BY <1>3, <1>4 DEF AttemptItems
  <2> QED  BY <1>1, <1>2, <2>2, <2>3 DEF ClaimFindsItems
<1> QED  BY <1>5, <1>6, <1>7, <1>8, <1>9, <1>10 DEF RunsInv

\* A case that is taken in adds a first attempt that nothing was loaded of.
LEMMA CaseTakenIn ==
  ASSUME RunsInv, NEW c \in Case, Include(c)
  PROVE  RunsInv'
<1>1. run.status # "NONE" /\ UNCHANGED <<run, artifact, repair, runner, repairer>>  BY DEF Include
<1>2. Queued' = Queued /\ Queued \in Nat /\ 1 <= Queued
  BY <1>1, Counters DEF RunsInv, RunRowsTyped, AttemptsCounted, Queued
<1>3. /\ DOMAIN item' = DOMAIN item \cup {<<c, 1>>}
      /\ \A i \in DOMAIN item : item'[i] = item[i]
      /\ <<c, 1>> \notin DOMAIN item => item'[<<c, 1>>] = Planned
  BY DEF Include
<1>4. Planned \in Item /\ Planned.status = "NOT_RUN" /\ Planned.artifact = 0
  BY ArtifactAssumption DEF Planned, Item
<1>5. /\ scope' \in [Case -> [included : BOOLEAN, manual : BOOLEAN]] /\ scope'[c].manual
      /\ \A d \in Case : scope[d].manual => scope'[d].manual
  BY DEF Include, RunsInv, RunRowsTyped
<1>6. RunRowsTyped'
  <2>1. <<c, 1>> \in Case \X (Nat \ {0})  OBVIOUS
  <2>2. DOMAIN item \subseteq Case \X (Nat \ {0}) /\ \A i \in DOMAIN item : item[i] \in Item
    BY DEF RunsInv, RunRowsTyped
  <2>3. DOMAIN item' \subseteq Case \X (Nat \ {0})  BY <1>3, <2>1, <2>2
  <2>4. \A i \in DOMAIN item' : item'[i] \in Item
    <3> SUFFICES ASSUME NEW i \in DOMAIN item' PROVE item'[i] \in Item  OBVIOUS
    <3>1. CASE i \in DOMAIN item  BY <1>3, <2>2, <3>1
    <3>2. CASE i \notin DOMAIN item  BY <1>3, <1>4, <3>2
    <3> QED  BY <3>1, <3>2
  <2> QED  BY <1>1, <1>5, <2>3, <2>4 DEF RunsInv, RunRowsTyped
<1>7. WorkersTyped'  BY <1>1 DEF RunsInv, WorkersTyped
<1>8. ArtifactsBound'
  BY <1>1, <1>3, <1>4, ItemsMove DEF HasVerdict, RunsInv, ArtifactsBound
<1>9. AttemptsCounted'
  <2>1. \A m : VerdictAt(m) => VerdictAt(m)'  BY <1>3 DEF VerdictAt
  <2>2. \A i \in DOMAIN item' : i[2] <= Queued  BY <1>2, <1>3 DEF RunsInv, AttemptsCounted
  <2> QED  BY <1>1, <1>2, <2>1, <2>2 DEF RunsInv, AttemptsCounted
<1>10. PicksStand'
  <2>1. SUFFICES ASSUME NEW w \in Runner, runner[w].phase = "loaded"
                 PROVE  \/ \A i \in AttemptItems(runner[w].attempt)' \ DOMAIN runner[w].pick : scope'[i[1]].manual
                        \/ runner[w].attempt # 1 /\ ~(DOMAIN runner[w].pick \subseteq DOMAIN item')
    BY <1>1, <1>2 DEF RunsInv, PicksStand
  <2>2. \A i \in AttemptItems(runner[w].attempt)' : i \in AttemptItems(runner[w].attempt) \/ i = <<c, 1>>
    BY <1>1, <1>3 DEF AttemptItems
  <2>3. \A i \in AttemptItems(runner[w].attempt) : i[1] \in Case  BY Counters DEF AttemptItems
  <2>4. CASE \A i \in AttemptItems(runner[w].attempt) \ DOMAIN runner[w].pick : scope[i[1]].manual
    BY <1>5, <2>2, <2>3, <2>4
  <2>5. CASE runner[w].attempt # 1 /\ ~(DOMAIN runner[w].pick \subseteq DOMAIN item)
    <3>1. <<c, 1>> \notin DOMAIN runner[w].pick  BY <2>1, <2>5 DEF RunsInv, WorkersTyped
    <3> QED  BY <1>3, <2>5, <3>1
  <2> QED  BY <2>1, <2>4, <2>5 DEF RunsInv, PicksStand
<1>11. ClaimFindsItems'
  <2>1. \A i \in AttemptItems(Queued)' : i \in AttemptItems(Queued) \/ item'[i].status = "NOT_RUN"
    BY <1>2, <1>3, <1>4 DEF AttemptItems
  <2>2. \A i \in AttemptItems(Queued) : item'[i] = item[i]  BY <1>3 DEF AttemptItems
  <2> QED  BY <1>1, <1>2, <1>5, <2>1, <2>2 DEF RunsInv, ClaimFindsItems
<1> QED  BY <1>6, <1>7, <1>8, <1>9, <1>10, <1>11 DEF RunsInv

\* A case that is taken out loses what has no verdict.
LEMMA CaseTakenOut ==
  ASSUME RunsInv, NEW c \in Case, Exclude(c)
  PROVE  RunsInv'
<1>1. run.status # "NONE" /\ UNCHANGED <<run, artifact, repair, runner, repairer>>  BY DEF Exclude
<1>2. Queued' = Queued  BY <1>1 DEF Queued
<1>3. /\ DOMAIN item' \subseteq DOMAIN item
      /\ \A i \in DOMAIN item' : item'[i] = item[i]
      /\ \A i \in DOMAIN item : item[i].status # "NOT_RUN" => i \in DOMAIN item'
  BY DEF Exclude, Removable
<1>5. /\ scope' \in [Case -> [included : BOOLEAN, manual : BOOLEAN]] /\ scope'[c].manual
      /\ \A d \in Case : scope[d].manual => scope'[d].manual
  BY DEF Exclude, RunsInv, RunRowsTyped
<1>6. RunRowsTyped'  BY <1>1, <1>3, <1>5 DEF RunsInv, RunRowsTyped
<1>7. WorkersTyped'  BY <1>1 DEF RunsInv, WorkersTyped
<1>8. ArtifactsBound'
  BY <1>1, <1>3, ItemsMove DEF HasVerdict, RunsInv, ArtifactsBound
<1>9. AttemptsCounted'
  <2>1. \A m : VerdictAt(m) => VerdictAt(m)'  BY <1>3 DEF VerdictAt
  <2> QED  BY <1>1, <1>2, <1>3, <2>1 DEF RunsInv, AttemptsCounted
<1>10. \A n : AttemptItems(n)' \subseteq AttemptItems(n)  BY <1>3 DEF AttemptItems
<1>11. PicksStand'
  <2>1. \A n : \A i \in AttemptItems(n)' : i[1] \in Case  BY <1>10, Counters DEF AttemptItems
  <2> QED  BY <1>1, <1>2, <1>3, <1>5, <1>10, <2>1 DEF RunsInv, PicksStand
<1>12. ClaimFindsItems'
  <2>1. \A i \in AttemptItems(Queued)' : i \in AttemptItems(Queued) /\ item'[i] = item[i]
    BY <1>2, <1>3 DEF AttemptItems
  <2> QED  BY <1>1, <1>2, <1>5, <2>1 DEF RunsInv, ClaimFindsItems
<1> QED  BY <1>6, <1>7, <1>8, <1>9, <1>11, <1>12 DEF RunsInv

\* The decision repeated.
LEMMA DecisionConfirmed ==
  ASSUME RunsInv, NEW c \in Case, Confirm(c)
  PROVE  RunsInv'
<1>1. UNCHANGED <<run, item, artifact, repair, runner, repairer>> /\ Queued' = Queued
  BY DEF Confirm, Queued
<1>2. /\ scope' \in [Case -> [included : BOOLEAN, manual : BOOLEAN]]
      /\ \A d \in Case : scope[d].manual => scope'[d].manual
  BY DEF Confirm, RunsInv, RunRowsTyped
<1>3. \A n : AttemptItems(n)' = AttemptItems(n) /\ VerdictAt(n)' = VerdictAt(n)
  BY <1>1 DEF AttemptItems, VerdictAt
<1>4. RunRowsTyped' /\ WorkersTyped'  BY <1>1, <1>2 DEF RunsInv, RunRowsTyped, WorkersTyped
<1>5. ArtifactsBound'  BY <1>1, ItemsMove DEF HasVerdict, RunsInv, ArtifactsBound
<1>6. AttemptsCounted'  BY <1>1, <1>3 DEF RunsInv, AttemptsCounted
<1>7. PicksStand'
  <2>1. \A n : \A i \in AttemptItems(n) : i[1] \in Case  BY Counters DEF AttemptItems
  <2> QED  BY <1>1, <1>2, <1>3, <2>1 DEF RunsInv, PicksStand
<1>8. ClaimFindsItems'  BY <1>1, <1>2, <1>3 DEF RunsInv, ClaimFindsItems
<1> QED  BY <1>4, <1>5, <1>6, <1>7, <1>8 DEF RunsInv

\* A request only marks the run.
LEMMA RunIsRequested ==
  ASSUME RunsInv, Request
  PROVE  RunsInv'
<1>1. /\ run' \in [status : {"NONE", "PENDING", "RUNNING", "COMPLETED", "FAILED"},
                   requested : BOOLEAN, attempt : Nat]
      /\ run'.status = run.status /\ run'.attempt = run.attempt
      /\ UNCHANGED <<scope, item, artifact, repair, runner, repairer>>
  BY DEF Request, RunsInv, RunRowsTyped
<1>2. RunRowsTyped' /\ WorkersTyped'  BY <1>1 DEF RunsInv, RunRowsTyped, WorkersTyped
<1>3. ArtifactsBound'  BY <1>1, ItemsMove DEF HasVerdict, RunsInv, ArtifactsBound
<1> QED  BY <1>1, <1>2, <1>3, RunStays DEF RunsInv

\* The attempt that is claimed is the queued one.
LEMMA RunIsClaimed ==
  ASSUME RunsInv, NEW w \in Runner, ClaimRun(w)
  PROVE  RunsInv'
<1>1. /\ run.status = "PENDING" /\ run'.status = "RUNNING" /\ run'.attempt = run.attempt + 1
      /\ run' \in [status : {"NONE", "PENDING", "RUNNING", "COMPLETED", "FAILED"},
                   requested : BOOLEAN, attempt : Nat]
      /\ UNCHANGED <<scope, item, artifact, repair, repairer>>
  BY Counters DEF ClaimRun, Startable, RunsInv, RunRowsTyped
<1>2. Queued' = Queued /\ Queued = run.attempt + 1 /\ Queued \in Nat  BY <1>1, Counters DEF Queued
<1>3. /\ runner' = [runner EXCEPT ![w] = [phase |-> "claimed", attempt |-> run.attempt + 1, pick |-> << >>]]
      /\ DOMAIN runner = Runner
  BY DEF ClaimRun, RunsInv, WorkersTyped
<1>4. /\ runner'[w].phase = "claimed" /\ runner'[w].attempt = Queued
      /\ \A u \in Runner : u # w => runner'[u] = runner[u]
  BY <1>2, <1>3
<1>5. \A n : AttemptItems(n)' = AttemptItems(n) /\ VerdictAt(n)' = VerdictAt(n)
  BY <1>1 DEF AttemptItems, VerdictAt
<1>6. RunRowsTyped'  BY <1>1 DEF RunsInv, RunRowsTyped
<1>7. WorkersTyped'
  <2>1. run.attempt + 1 \in Nat /\ run.attempt + 1 # 0  BY Counters
  <2> QED  BY <1>1, <1>3, <2>1 DEF RunsInv, WorkersTyped
<1>8. ArtifactsBound'  BY <1>1, ItemsMove DEF HasVerdict, RunsInv, ArtifactsBound
<1>9. AttemptsCounted'  BY <1>1, <1>2, <1>5, Counters DEF RunsInv, AttemptsCounted
<1>10. PicksStand'  BY <1>1, <1>2, <1>4, <1>5 DEF RunsInv, PicksStand
<1>11. ClaimFindsItems'  BY <1>1, <1>2, <1>5 DEF RunsInv, ClaimFindsItems
<1> QED  BY <1>6, <1>7, <1>8, <1>9, <1>10, <1>11 DEF RunsInv

\* What is picked for an item is an artifact of its case.
LEMMA PickIsOfCase ==
  ASSUME RunsInv, NEW i \in DOMAIN item
  PROVE  /\ Pick(i) \in 0..Len(artifact)
         /\ Pick(i) # 0 => artifact[Pick(i)].case = i[1]
<1>1. DOMAIN artifact = 1..Len(artifact) /\ Len(artifact) \in Nat
  BY LenProperties DEF RunsInv, RunRowsTyped
<1>2. ApprovedFor(i[1]) \in SUBSET (0..Len(artifact))  BY <1>1 DEF ApprovedFor
<1>3. CASE item[i].artifact # 0  BY <1>1, <1>3 DEF Pick, RunsInv, ArtifactsBound, ApprovedFor
<1>4. CASE item[i].artifact = 0
  <2>1. Pick(i) = Latest(ApprovedFor(i[1]))  BY <1>4 DEF Pick
  <2>2. CASE ApprovedFor(i[1]) = {}
    <3>1. Pick(i) = 0  BY <1>1, <1>2, <2>1, <2>2, LatestIs
    <3> QED  BY <1>1, <3>1
  <2>3. CASE ApprovedFor(i[1]) # {}
    <3>1. Pick(i) \in ApprovedFor(i[1])  BY <1>1, <1>2, <2>1, <2>3, LatestIs
    <3> QED  BY <1>1, <3>1 DEF ApprovedFor
  <2> QED  BY <2>2, <2>3
<1> QED  BY <1>3, <1>4

\* A worker that loads holds every item of the attempt.
LEMMA AttemptLoaded ==
  ASSUME RunsInv, NEW w \in Runner, LoadAttempt(w)
  PROVE  RunsInv'
<1> DEFINE n == runner[w].attempt
<1>1. /\ UNCHANGED <<scope, run, item, artifact, repair, repairer>>
      /\ runner[w].phase = "claimed" /\ AttemptItems(n) # {} /\ n \in Nat /\ n # 0
      /\ Queued' = Queued
  BY DEF LoadAttempt, RunsInv, WorkersTyped, Queued
<1>2. /\ DOMAIN runner' = Runner /\ \A u \in Runner : u # w => runner'[u] = runner[u]
      /\ DOMAIN runner'[w] = {"phase", "attempt", "pick"}
      /\ runner'[w].phase = "loaded" /\ runner'[w].attempt = n
      /\ runner'[w].pick = [i \in AttemptItems(n) |-> Pick(i)]
  BY DEF LoadAttempt, RunsInv, WorkersTyped
<1>3. \A m : AttemptItems(m)' = AttemptItems(m)  BY <1>1 DEF AttemptItems
<1>4. RunRowsTyped'  BY <1>1 DEF RunsInv, RunRowsTyped
<1>5. WorkersTyped'
  <2>1. \A i \in AttemptItems(n) : i \in Case \X {n}  BY Counters DEF AttemptItems
  <2>2. \A i \in AttemptItems(n) : Pick(i) \in 0..Len(artifact) /\ (Pick(i) # 0 => artifact[Pick(i)].case = i[1])
    BY PickIsOfCase DEF AttemptItems
  <2>3. DOMAIN runner'[w].pick = AttemptItems(n) /\ \A i \in AttemptItems(n) : runner'[w].pick[i] = Pick(i)
    BY <1>2
  <2>4. \A i \in DOMAIN runner'[w].pick :
           /\ i \in Case \X {runner'[w].attempt}
           /\ runner'[w].pick[i] \in 0..Len(artifact)
           /\ runner'[w].pick[i] # 0 => artifact[runner'[w].pick[i]].case = i[1]
    BY <1>2, <2>1, <2>2, <2>3
  <2> HIDE DEF n
  <2> QED  BY <1>1, <1>2, <2>3, <2>4 DEF RunsInv, WorkersTyped
<1>6. ArtifactsBound'  BY <1>1, ItemsMove DEF HasVerdict, RunsInv, ArtifactsBound
<1>7. AttemptsCounted' /\ ClaimFindsItems'
  <2>1. \A m : VerdictAt(m)' = VerdictAt(m)  BY <1>1 DEF VerdictAt
  <2> QED  BY <1>1, <1>3, <2>1 DEF RunsInv, AttemptsCounted, ClaimFindsItems
<1>8. PicksStand'
  <2>1. SUFFICES ASSUME NEW u \in Runner
                 PROVE  /\ runner'[u].phase # "idle" /\ Queued < runner'[u].attempt => MaxRunAttempts <= Queued
                        /\ runner'[u].phase = "loaded" =>
                              \/ \A i \in AttemptItems(runner'[u].attempt) \ DOMAIN runner'[u].pick : scope[i[1]].manual
                              \/ runner'[u].attempt # 1 /\ ~(DOMAIN runner'[u].pick \subseteq DOMAIN item)
    BY <1>1, <1>3 DEF PicksStand
  <2>2. CASE u # w  BY <1>2, <2>2 DEF RunsInv, PicksStand
  <2>3. CASE u = w
    <3>1. DOMAIN runner'[w].pick = AttemptItems(n)  BY <1>2
    <3> QED  BY <1>1, <1>2, <2>3, <3>1 DEF RunsInv, PicksStand
  <2> QED  BY <2>2, <2>3
<1> QED  BY <1>4, <1>5, <1>6, <1>7, <1>8 DEF RunsInv

\* A worker that stops leaves all rows as they are.
LEMMA RunnerLeaves ==
  ASSUME RunsInv, NEW w \in Runner, RunnerStops(w)
  PROVE  RunsInv'
<1>1. /\ UNCHANGED <<scope, run, item, artifact, repair, repairer>> /\ Queued' = Queued
      /\ runner' = [runner EXCEPT ![w] = NoRunner]
  BY DEF RunnerStops, Queued
<1>2. WorkersTyped' /\ \A v \in Runner : runner'[v].phase # "idle" => v # w /\ runner'[v] = runner[v]
  BY <1>1, RunnerIdles
<1>3. \A m : AttemptItems(m)' = AttemptItems(m) /\ VerdictAt(m)' = VerdictAt(m)
  BY <1>1 DEF AttemptItems, VerdictAt
<1>4. RunRowsTyped'  BY <1>1 DEF RunsInv, RunRowsTyped
<1>5. ArtifactsBound'  BY <1>1, ItemsMove DEF HasVerdict, RunsInv, ArtifactsBound
<1>6. AttemptsCounted' /\ ClaimFindsItems'  BY <1>1, <1>3 DEF RunsInv, AttemptsCounted, ClaimFindsItems
<1>7. PicksStand'  BY <1>1, <1>2, <1>3 DEF RunsInv, PicksStand
<1> QED  BY <1>2, <1>4, <1>5, <1>6, <1>7 DEF RunsInv

\* A failed attempt is queued again under its number, or for good.
LEMMA AttemptFails ==
  ASSUME RunsInv, NEW w \in Runner, RetryOrFail(w)
  PROVE  RunsInv'
<1>1. /\ UNCHANGED <<scope, item, artifact, repair, repairer>>
      /\ runner' = [runner EXCEPT ![w] = NoRunner]
  BY DEF RetryOrFail
<1>2. WorkersTyped' /\ \A v \in Runner : runner'[v].phase # "idle" => v # w /\ runner'[v] = runner[v]
  BY <1>1, RunnerIdles
<1>3. \A m : AttemptItems(m)' = AttemptItems(m) /\ VerdictAt(m)' = VerdictAt(m)
  BY <1>1 DEF AttemptItems, VerdictAt
<1>4. \/ UNCHANGED run
      \/ /\ run.status = "RUNNING" /\ run.attempt \in Nat \ {0}
         /\ \/ run' = [run EXCEPT !.status = "PENDING", !.attempt = run.attempt - 1]
            \/ run' = [run EXCEPT !.status = "FAILED"] /\ ~(run.attempt < MaxRunAttempts)
  BY DEF RetryOrFail, Held, GivenBack, RunsInv, RunRowsTyped, AttemptsCounted
<1>5. /\ Queued' = Queued /\ Queued \in Nat
      /\ run' \in [status : {"NONE", "PENDING", "RUNNING", "COMPLETED", "FAILED"},
                   requested : BOOLEAN, attempt : Nat]
      /\ \/ UNCHANGED run
         \/ run.status = "RUNNING" /\ run'.status = "PENDING"
         \/ /\ run.status = "RUNNING" /\ run'.status = "FAILED" /\ run'.attempt = run.attempt
            /\ run.attempt # 0 /\ MaxRunAttempts <= run.attempt
  <2>1. run \in [status : {"NONE", "PENDING", "RUNNING", "COMPLETED", "FAILED"},
                 requested : BOOLEAN, attempt : Nat]
    BY DEF RunsInv, RunRowsTyped
  <2>2. CASE UNCHANGED run  BY <2>1, <2>2, Counters DEF Queued
  <2>3. CASE run' = [run EXCEPT !.status = "PENDING", !.attempt = run.attempt - 1] /\ run.status = "RUNNING" /\ run.attempt \in Nat \ {0}
    <3>1. run'.status = "PENDING" /\ run'.attempt = run.attempt - 1  BY <2>1, <2>3
    <3>2. Queued' = Queued /\ Queued \in Nat
      <4>1. run.attempt \in Nat \ {0} /\ run.status = "RUNNING"  BY <2>3
      <4> QED  BY <3>1, <4>1 DEF Queued
    <3>3. run' \in [status : {"NONE", "PENDING", "RUNNING", "COMPLETED", "FAILED"},
                     requested : BOOLEAN, attempt : Nat]
      <4>1. run.attempt - 1 \in Nat  BY <2>3
      <4> QED  BY <2>1, <2>3, <4>1
    <3> QED  BY <2>3, <3>1, <3>2, <3>3
  <2>4. CASE run' = [run EXCEPT !.status = "FAILED"] /\ ~(run.attempt < MaxRunAttempts) /\ run.status = "RUNNING" /\ run.attempt \in Nat \ {0}
    <3>1. run'.status = "FAILED" /\ run'.attempt = run.attempt  BY <2>1, <2>4
    <3> QED  BY <2>1, <2>4, <3>1, RunAttemptsAssumption DEF Queued
  <2> QED  BY <1>4, <2>2, <2>3, <2>4
<1>6. RunRowsTyped'  BY <1>1, <1>5 DEF RunsInv, RunRowsTyped
<1>7. ArtifactsBound'  BY <1>1, ItemsMove DEF HasVerdict, RunsInv, ArtifactsBound
<1>8. AttemptsCounted'  BY <1>1, <1>3, <1>5 DEF RunsInv, AttemptsCounted
<1>9. ClaimFindsItems'  BY <1>1, <1>3, <1>5 DEF RunsInv, ClaimFindsItems
<1>10. PicksStand'  BY <1>1, <1>2, <1>3, <1>5 DEF RunsInv, PicksStand
<1> QED  BY <1>2, <1>6, <1>7, <1>8, <1>9, <1>10 DEF RunsInv

\* A reviewer gives another verdict to an item that has one.
LEMMA VerdictReviewed ==
  ASSUME RunsInv, NEW i \in DOMAIN item, NEW v \in Seen, ReviewClassification(i, v)
  PROVE  RunsInv'
<1>1. /\ UNCHANGED <<scope, run, artifact, repair, runner, repairer>> /\ Queued' = Queued
      /\ item[i].status # "NOT_RUN" /\ v \in Verdict /\ v # "NOT_RUN"
  BY SeenAssumption DEF ReviewClassification, Reclassifiable, Queued, Verdict
<1>2. /\ DOMAIN item' = DOMAIN item
      /\ \A k \in DOMAIN item : k # i => item'[k] = item[k]
      /\ item'[i].status = v /\ item'[i].artifact = item[i].artifact /\ item'[i] \in Item
  BY <1>1, Counters DEF ReviewClassification, Item
<1>3. \A m : AttemptItems(m)' = AttemptItems(m)  BY <1>2 DEF AttemptItems
<1>4. \A m : VerdictAt(m) => VerdictAt(m)'  BY <1>1, <1>2 DEF VerdictAt
<1>5. RunRowsTyped'  BY <1>1, <1>2 DEF RunsInv, RunRowsTyped
<1>6. WorkersTyped'  BY <1>1 DEF RunsInv, WorkersTyped
<1>7. ArtifactsBound'
  <2>1. \A k \in DOMAIN item' : item'[k].artifact # 0 => item'[k].artifact \in ApprovedFor(k[1])
    BY <1>2 DEF RunsInv, ArtifactsBound
  <2>2. \A k \in DOMAIN item : HasVerdict(k) => HasVerdict(k)'  BY <1>1, <1>2 DEF HasVerdict
  <2> QED  BY <1>1, <2>1, <2>2, ItemsMove
<1>8. AttemptsCounted'  BY <1>1, <1>2, <1>4 DEF RunsInv, AttemptsCounted
<1>9. PicksStand'  BY <1>1, <1>2, <1>3 DEF RunsInv, PicksStand
<1>10. ClaimFindsItems'
  <2>1. run.status \in {"PENDING", "RUNNING"} => i \notin AttemptItems(Queued)
    BY <1>1 DEF RunsInv, ClaimFindsItems
  <2>2. \A k \in AttemptItems(Queued) : k # i => item'[k] = item[k]  BY <1>2 DEF AttemptItems
  <2> QED  BY <1>1, <1>3, <2>1, <2>2 DEF RunsInv, ClaimFindsItems
<1> QED  BY <1>5, <1>6, <1>7, <1>8, <1>9, <1>10 DEF RunsInv

\* What is saved is a verdict, of the artifact that was picked or of none.
LEMMA OutcomeIsVerdict ==
  ASSUME NEW w, NEW i, NEW verdict \in Verdict, NEW described \in BOOLEAN
  PROVE  LET o == ItemOutcome(w, i, verdict, described) IN
         /\ o = [status |-> o.status, artifact |-> o.artifact]
         /\ o.status \in Verdict /\ o.artifact \in {0, runner[w].pick[i]}
BY DEF ItemOutcome, Verdict

\* What the transaction that saves attempt n writes: the loaded items get
\* verdicts, and those that run again an item of the next attempt.
SavesAs(n, pick, again) ==
    /\ again # {} => n < MaxRunAttempts
    /\ run' = [run EXCEPT !.status = IF again # {} THEN "PENDING" ELSE "COMPLETED"]
    /\ DOMAIN item' = DOMAIN item \cup {<<i[1], n + 1>> : i \in again}
    /\ \A i \in DOMAIN pick :
          /\ i \in DOMAIN item /\ item[i].status = "NOT_RUN" /\ item'[i].status \in Verdict
          /\ item'[i] = [status |-> item'[i].status, artifact |-> item'[i].artifact]
          /\ \/ item'[i].artifact = item[i].artifact
             \/ item'[i].artifact = pick[i] /\ pick[i] # 0 /\ artifact[pick[i]].status = "APPROVED"
    /\ \A i \in again : <<i[1], n + 1>> \notin DOMAIN pick =>
          item'[<<i[1], n + 1>>] = [status |-> "NOT_RUN", artifact |-> item'[i].artifact]
    /\ \A i \in DOMAIN item : i \notin DOMAIN pick /\ i[2] # n + 1 => item'[i] = item[i]

\* What a worker's save leaves in the tables.
LEMMA SaveWrites ==
  ASSUME RunsInv, NEW w \in Runner, NEW v \in [DOMAIN runner[w].pick -> Seen], NEW d \in BOOLEAN, Save(w, v, d)
  PROVE  /\ runner[w].phase = "loaded" /\ run.status = "RUNNING" /\ run.attempt = runner[w].attempt
         /\ runner' = [runner EXCEPT ![w] = NoRunner] /\ UNCHANGED <<scope, artifact, repair, repairer>>
         /\ \E again \in SUBSET DOMAIN runner[w].pick : SavesAs(runner[w].attempt, runner[w].pick, again)
<1> DEFINE n == runner[w].attempt
           pick == runner[w].pick
           new == [i \in DOMAIN pick |-> ItemOutcome(w, i, v[i], d)]
           again == Retried(new, n)
           queued == {<<i[1], n + 1>> : i \in again}
<1>1. /\ runner[w].phase = "loaded" /\ Held(w)
      /\ \A i \in DOMAIN new : i \in DOMAIN item /\ item[i].status = "NOT_RUN" /\ Binds(item[i], new[i])
      /\ item' = [i \in DOMAIN item \cup queued |->
                    IF i \in DOMAIN new THEN new[i]
                    ELSE IF i \in queued THEN NextItem(new[<<i[1], n>>])
                    ELSE item[i]]
      /\ run' = [run EXCEPT !.status = IF again # {} THEN "PENDING" ELSE "COMPLETED"]
      /\ runner' = [runner EXCEPT ![w] = NoRunner] /\ UNCHANGED <<scope, artifact, repair, repairer>>
  BY DEF Save
<1>2. DOMAIN new = DOMAIN pick /\ again \subseteq DOMAIN pick
  BY DEF Retried
<1>3. again # {} => n < MaxRunAttempts  BY DEF Retried
<1>4. \A i \in DOMAIN pick : /\ new[i] = [status |-> new[i].status, artifact |-> new[i].artifact]
                             /\ new[i].status \in Verdict /\ new[i].artifact \in {0, pick[i]}
  <2> SUFFICES ASSUME NEW i \in DOMAIN pick
               PROVE  /\ new[i] = [status |-> new[i].status, artifact |-> new[i].artifact]
                      /\ new[i].status \in Verdict /\ new[i].artifact \in {0, pick[i]}
    OBVIOUS
  <2>1. v[i] \in Verdict  BY SeenAssumption
  <2>2. new[i] = ItemOutcome(w, i, v[i], d)  OBVIOUS
  <2> HIDE DEF new
  <2> QED  BY <2>1, <2>2, OutcomeIsVerdict
<1>5. \A i \in DOMAIN pick : i \in Case \X {n}  BY <1>1 DEF RunsInv, WorkersTyped
<1> HIDE DEF new, again
<1>6. \A i \in DOMAIN pick : i \in DOMAIN item /\ item'[i] = new[i]  BY <1>1, <1>2
<1>7. \A i \in DOMAIN pick :
         \/ new[i].artifact = item[i].artifact
         \/ new[i].artifact = pick[i] /\ pick[i] # 0 /\ artifact[pick[i]].status = "APPROVED"
  <2> HIDE DEF n, pick
  <2> SUFFICES ASSUME NEW i \in DOMAIN pick, new[i].artifact # item[i].artifact
               PROVE  new[i].artifact = pick[i] /\ pick[i] # 0 /\ artifact[pick[i]].status = "APPROVED"
    OBVIOUS
  <2>1. Binds(item[i], new[i])  BY <1>1, <1>2
  <2>2. new[i].artifact # 0 /\ artifact[new[i].artifact].status = "APPROVED"  BY <2>1 DEF Binds
  <2>3. new[i].artifact \in {0, pick[i]}  BY <1>4
  <2> QED  BY <2>2, <2>3
<1>8. \A i \in again : i = <<i[1], n>> /\ <<i[1], n + 1>> \in queued /\ <<i[1], n + 1>>[1] = i[1]
  BY <1>2, <1>5
<1>9. \A i \in again : <<i[1], n + 1>> \notin DOMAIN pick => item'[<<i[1], n + 1>>] = NextItem(new[i])
  <2> HIDE DEF n, pick
  <2> SUFFICES ASSUME NEW i \in again, <<i[1], n + 1>> \notin DOMAIN pick
               PROVE  item'[<<i[1], n + 1>>] = NextItem(new[i])
    OBVIOUS
  <2>1. <<i[1], n + 1>> \in queued  BY <1>8
  <2> HIDE DEF queued
  <2>2. item'[<<i[1], n + 1>>] = NextItem(new[<<(<<i[1], n + 1>>)[1], n>>])  BY <1>1, <1>2, <2>1
  <2> QED  BY <1>8, <2>2
<1>10. \A i \in queued : i[2] = n + 1  OBVIOUS
<1>11. \A i \in DOMAIN item : i \notin DOMAIN pick /\ i[2] # n + 1 => item'[i] = item[i]
  BY <1>1, <1>2, <1>10
<1>12. DOMAIN item' = DOMAIN item \cup queued  BY <1>1
<1>13. \A i \in again : NextItem(new[i]) = [status |-> "NOT_RUN", artifact |-> item'[i].artifact]
  BY <1>2, <1>6 DEF NextItem
<1>14. \A i \in DOMAIN pick :
          /\ i \in DOMAIN item /\ item[i].status = "NOT_RUN" /\ item'[i].status \in Verdict
          /\ item'[i] = [status |-> item'[i].status, artifact |-> item'[i].artifact]
          /\ \/ item'[i].artifact = item[i].artifact
             \/ item'[i].artifact = pick[i] /\ pick[i] # 0 /\ artifact[pick[i]].status = "APPROVED"
  <2> HIDE DEF n, pick
  <2> QED  BY <1>1, <1>2, <1>4, <1>6, <1>7
<1>15. SavesAs(n, pick, again)
  <2>1. run' = [run EXCEPT !.status = IF again # {} THEN "PENDING" ELSE "COMPLETED"]  BY <1>1
  <2> HIDE DEF n, pick
  <2>2. \A i \in again : <<i[1], n + 1>> \notin DOMAIN pick =>
           item'[<<i[1], n + 1>>] = [status |-> "NOT_RUN", artifact |-> item'[i].artifact]
    BY <1>9, <1>13
  <2> QED  BY <1>3, <1>11, <1>12, <1>14, <2>1, <2>2 DEF SavesAs
<1> QED  BY <1>1, <1>2, <1>15 DEF Held

\* The rows that hold an attempt's result.
LEMMA AttemptSaved ==
  ASSUME RunsInv, NEW w \in Runner, NEW v \in [DOMAIN runner[w].pick -> Seen], NEW d \in BOOLEAN, Save(w, v, d)
  PROVE  RunsInv'
<1>0. PICK n, pick : n = runner[w].attempt /\ pick = runner[w].pick  OBVIOUS
<1>a. PICK again \in SUBSET DOMAIN pick :
        /\ runner[w].phase = "loaded" /\ run.status = "RUNNING" /\ run.attempt = n
        /\ runner' = [runner EXCEPT ![w] = NoRunner] /\ UNCHANGED <<scope, artifact, repair, repairer>>
        /\ SavesAs(n, pick, again)
  BY <1>0, SaveWrites
<1>1. /\ runner[w].phase = "loaded" /\ run.status = "RUNNING" /\ run.attempt = n
      /\ runner' = [runner EXCEPT ![w] = NoRunner] /\ UNCHANGED <<scope, artifact, repair, repairer>>
      /\ again # {} => n < MaxRunAttempts
      /\ run' = [run EXCEPT !.status = IF again # {} THEN "PENDING" ELSE "COMPLETED"]
      /\ DOMAIN item' = DOMAIN item \cup {<<i[1], n + 1>> : i \in again}
      /\ \A i \in DOMAIN pick :
            /\ i \in DOMAIN item /\ item[i].status = "NOT_RUN" /\ item'[i].status \in Verdict
            /\ item'[i] = [status |-> item'[i].status, artifact |-> item'[i].artifact]
            /\ \/ item'[i].artifact = item[i].artifact
               \/ item'[i].artifact = pick[i] /\ pick[i] # 0 /\ artifact[pick[i]].status = "APPROVED"
      /\ \A i \in again : <<i[1], n + 1>> \notin DOMAIN pick =>
            item'[<<i[1], n + 1>>] = [status |-> "NOT_RUN", artifact |-> item'[i].artifact]
      /\ \A i \in DOMAIN item : i \notin DOMAIN pick /\ i[2] # n + 1 => item'[i] = item[i]
  BY <1>a DEF SavesAs
<1>2. /\ WorkersTyped'
      /\ \A u \in Runner : runner'[u].phase # "idle" => u # w /\ runner'[u] = runner[u]
  BY <1>1, RunnerIdles
<1>3. /\ n \in Nat \ {0} /\ Queued = n /\ DOMAIN pick # {}
      /\ \A i \in DOMAIN pick : /\ i \in Case \X {n} /\ i[1] \in Case /\ i[2] = n /\ i = <<i[1], n>>
                                /\ pick[i] \in 0..Len(artifact)
                                /\ pick[i] # 0 => artifact[pick[i]].case = i[1]
      /\ \A i \in DOMAIN item : i \in Case \X (Nat \ {0}) /\ i[2] \in 1..n /\ item[i] \in Item
  BY <1>0, <1>1, Counters DEF RunsInv, WorkersTyped, AttemptsCounted
<1> DEFINE queued == {<<i[1], n + 1>> : i \in again}
<1>4. /\ \A i \in queued : i \in Case \X {n + 1} /\ i[2] = n + 1 /\ i \notin DOMAIN item /\ i \notin DOMAIN pick
      /\ DOMAIN item' = DOMAIN item \cup queued
      /\ \A i \in DOMAIN item : i[2] # n + 1
  <2>1. \A i \in DOMAIN item : i[2] # n + 1  BY <1>3
  <2>2. n + 1 # n  BY <1>3
  <2>3. \A i \in queued : i \in Case \X {n + 1} /\ i[2] = n + 1  BY <1>3
  <2> QED  BY <1>1, <1>3, <2>1, <2>2, <2>3
<1>5. /\ \A i \in DOMAIN item \ DOMAIN pick : item'[i] = item[i]
      /\ \A i \in DOMAIN pick : item'[i].status # "NOT_RUN"
  BY <1>1, <1>4 DEF Verdict
<1>6. \A i \in queued :
         /\ item'[i].status = "NOT_RUN" /\ item'[i] = [status |-> item'[i].status, artifact |-> item'[i].artifact]
         /\ <<i[1], n>> \in DOMAIN pick /\ item'[i].artifact = item'[<<i[1], n>>].artifact
  <2> SUFFICES ASSUME NEW i \in queued
               PROVE  /\ item'[i].status = "NOT_RUN"
                      /\ item'[i] = [status |-> item'[i].status, artifact |-> item'[i].artifact]
                      /\ <<i[1], n>> \in DOMAIN pick /\ item'[i].artifact = item'[<<i[1], n>>].artifact
    OBVIOUS
  <2>1. PICK k \in again : i = <<k[1], n + 1>>  OBVIOUS
  <2>2. i \notin DOMAIN pick  BY <1>4
  <2>3. item'[i] = [status |-> "NOT_RUN", artifact |-> item'[k].artifact]  BY <1>1, <2>1, <2>2
  <2>4. i[1] = k[1] /\ k = <<i[1], n>> /\ k \in DOMAIN pick  BY <1>3, <2>1
  <2> QED  BY <2>3, <2>4
<1>7. \A i \in DOMAIN item' : item'[i].artifact # 0 => item'[i].artifact \in ApprovedFor(i[1])
  <2>1. \A i \in DOMAIN item : item[i].artifact # 0 => item[i].artifact \in ApprovedFor(i[1])
    BY DEF RunsInv, ArtifactsBound
  <2>2. DOMAIN artifact = 1..Len(artifact) /\ Len(artifact) \in Nat
    BY LenProperties DEF RunsInv, RunRowsTyped
  <2>3. \A i \in DOMAIN pick : item'[i].artifact # 0 => item'[i].artifact \in ApprovedFor(i[1])
    <3> SUFFICES ASSUME NEW i \in DOMAIN pick, item'[i].artifact # 0
                 PROVE  item'[i].artifact \in ApprovedFor(i[1])
      OBVIOUS
    <3>1. CASE item'[i].artifact = item[i].artifact  BY <1>1, <2>1, <3>1
    <3>2. CASE item'[i].artifact = pick[i] /\ pick[i] # 0 /\ artifact[pick[i]].status = "APPROVED"
      BY <1>3, <2>2, <3>2 DEF ApprovedFor
    <3> QED  BY <1>1, <3>1, <3>2
  <2>4. \A i \in queued : item'[i].artifact # 0 => item'[i].artifact \in ApprovedFor(i[1])
    <3> SUFFICES ASSUME NEW i \in queued, item'[i].artifact # 0
                 PROVE  item'[i].artifact \in ApprovedFor(i[1])
      OBVIOUS
    <3>1. <<i[1], n>> \in DOMAIN pick /\ item'[i].artifact = item'[<<i[1], n>>].artifact  BY <1>6
    <3>2. item'[<<i[1], n>>].artifact \in ApprovedFor(<<i[1], n>>[1])  BY <2>3, <3>1
    <3> QED  BY <3>1, <3>2
  <2> QED  BY <1>4, <1>5, <2>1, <2>3, <2>4
<1>8. RunRowsTyped'
  <2>1. \A i \in DOMAIN item' : item'[i].artifact \in 0..ArtifactBound
    <3>1. DOMAIN artifact = 1..Len(artifact) /\ Len(artifact) \in Nat /\ Len(artifact) <= ArtifactBound
      BY LenProperties DEF RunsInv, RunRowsTyped
    <3>2. \A c : ApprovedFor(c) \subseteq 1..ArtifactBound  BY <3>1, ArtifactAssumption DEF ApprovedFor
    <3> QED  BY <1>7, <3>2, ArtifactAssumption
  <2>2. \A i \in DOMAIN item' : item'[i] \in Item
    <3> SUFFICES ASSUME NEW i \in DOMAIN item' PROVE item'[i] \in Item  OBVIOUS
    <3>1. CASE i \in DOMAIN item \ DOMAIN pick  BY <1>3, <1>5, <3>1
    <3>2. CASE i \in DOMAIN pick
      <4>1. /\ item'[i].status \in Verdict
            /\ item'[i] = [status |-> item'[i].status, artifact |-> item'[i].artifact]
        BY <1>1, <3>2
      <4> QED  BY <2>1, <4>1 DEF Item
    <3>3. CASE i \in queued
      <4>1. /\ item'[i].status = "NOT_RUN"
            /\ item'[i] = [status |-> item'[i].status, artifact |-> item'[i].artifact]
        BY <1>6, <3>3
      <4> QED  BY <2>1, <4>1 DEF Item
    <3> QED  BY <1>4, <3>1, <3>2, <3>3
  <2>3. DOMAIN item' \subseteq Case \X (Nat \ {0})
    <3>1. n + 1 \in Nat \ {0}  BY <1>3
    <3> QED  BY <1>3, <1>4, <3>1
  <2>4. run' \in [status : {"NONE", "PENDING", "RUNNING", "COMPLETED", "FAILED"},
                  requested : BOOLEAN, attempt : Nat]
    BY <1>1 DEF RunsInv, RunRowsTyped
  <2> QED  BY <1>1, <2>2, <2>3, <2>4 DEF RunsInv, RunRowsTyped
<1>9. ArtifactsBound'
  <2>1. \A i \in DOMAIN item : HasVerdict(i) => HasVerdict(i)'  BY <1>1, <1>4, <1>5 DEF HasVerdict
  <2> QED  BY <1>1, <1>7, <2>1, ItemsMove
<1>10. /\ run'.attempt = n /\ n <= Queued' /\ Queued' \in Nat
       /\ again = {} => run'.status = "COMPLETED" /\ Queued' = n
       /\ again # {} => run'.status = "PENDING" /\ Queued' = n + 1
  <2>1. /\ run'.attempt = n
        /\ run'.status = IF again # {} THEN "PENDING" ELSE "COMPLETED"
    BY <1>1 DEF RunsInv, RunRowsTyped
  <2> QED  BY <1>3, <2>1 DEF Queued
<1>11. AttemptsCounted'
  <2>1. \A m : VerdictAt(m) => VerdictAt(m)'
    <3> SUFFICES ASSUME NEW m, NEW i \in DOMAIN item, i[2] = m, item[i].status # "NOT_RUN"
                 PROVE  VerdictAt(m)'
      BY DEF VerdictAt
    <3>1. i \in DOMAIN item' /\ item'[i].status # "NOT_RUN"  BY <1>4, <1>5
    <3> QED  BY <3>1 DEF VerdictAt
  <2>2. VerdictAt(n)'
    <3>1. PICK i \in DOMAIN pick : TRUE  BY <1>3
    <3>2. i \in DOMAIN item' /\ i[2] = n /\ item'[i].status # "NOT_RUN"  BY <1>1, <1>3, <1>4, <1>5
    <3> QED  BY <3>2 DEF VerdictAt
  <2>3. \A i \in DOMAIN item' : i[2] <= Queued'
    <3> SUFFICES ASSUME NEW i \in DOMAIN item' PROVE i[2] <= Queued'  OBVIOUS
    <3>1. CASE i \in DOMAIN item  BY <1>3, <1>10, <3>1
    <3>2. CASE i \in queued  BY <1>4, <1>10, <3>2
    <3> QED  BY <1>4, <3>1, <3>2
  <2>4. \A m \in 1..(Queued' - 1) : m < MaxRunAttempts => VerdictAt(m)'
    <3> SUFFICES ASSUME NEW m \in 1..(Queued' - 1), m < MaxRunAttempts PROVE VerdictAt(m)'  OBVIOUS
    <3>1. m = n \/ m \in 1..(Queued - 1)
      <4>1. Queued = n /\ n \in Nat /\ (Queued' = n \/ Queued' = n + 1)  BY <1>3, <1>10
      <4> QED  BY <4>1
    <3> QED  BY <2>1, <2>2, <3>1 DEF RunsInv, AttemptsCounted
  <2> QED  BY <1>3, <1>10, <2>2, <2>3, <2>4 DEF AttemptsCounted
<1>12. PicksStand'
  <2>1. SUFFICES ASSUME NEW u \in Runner, runner[u].phase # "idle", runner'[u] = runner[u]
                 PROVE  /\ Queued' < runner[u].attempt => MaxRunAttempts <= Queued'
                        /\ runner[u].phase = "loaded" =>
                              \/ \A i \in {k \in DOMAIN item' : k[2] = runner[u].attempt} \ DOMAIN runner[u].pick : scope[i[1]].manual
                              \/ runner[u].attempt # 1 /\ ~(DOMAIN runner[u].pick \subseteq DOMAIN item')
    BY <1>1, <1>2 DEF PicksStand, AttemptItems
  <2>2. runner[u].attempt \in Nat /\ MaxRunAttempts \in Nat  BY RunAttemptsAssumption DEF RunsInv, WorkersTyped
  <2>3. n < runner[u].attempt => MaxRunAttempts <= n  BY <1>0, <1>3, <2>1 DEF RunsInv, PicksStand
  <2>4. Queued' < runner[u].attempt => MaxRunAttempts <= Queued'  BY <1>3, <1>10, <2>2, <2>3
  <2>5. ASSUME runner[u].phase = "loaded"
        PROVE  \/ \A i \in {k \in DOMAIN item' : k[2] = runner[u].attempt} \ DOMAIN runner[u].pick : scope[i[1]].manual
               \/ runner[u].attempt # 1 /\ ~(DOMAIN runner[u].pick \subseteq DOMAIN item')
    <3>1. runner[u].attempt = n + 1 => again = {}  BY <1>1, <1>3, <2>2, <2>3
    <3>2. {k \in DOMAIN item' : k[2] = runner[u].attempt} = AttemptItems(runner[u].attempt)
      BY <1>4, <3>1 DEF AttemptItems
    <3>3. \A i \in DOMAIN runner[u].pick : i[2] = runner[u].attempt  BY <2>5 DEF RunsInv, WorkersTyped
    <3>4. DOMAIN runner[u].pick \subseteq DOMAIN item' => DOMAIN runner[u].pick \subseteq DOMAIN item
      BY <1>4, <3>1, <3>3
    <3> QED  BY <2>5, <3>2, <3>4 DEF RunsInv, PicksStand
  <2> QED  BY <2>4, <2>5
<1>13. ClaimFindsItems'
  <2>1. CASE again = {}  BY <1>10, <2>1 DEF ClaimFindsItems
  <2>2. CASE again # {}
    <3>1. \A i \in AttemptItems(Queued)' : i \in queued  BY <1>4, <1>10, <2>2 DEF AttemptItems
    <3>2. PICK k \in again : TRUE  BY <2>2
    <3>3. <<k[1], n + 1>> \in AttemptItems(Queued)'  BY <1>4, <1>10, <2>2 DEF AttemptItems
    <3> QED  BY <1>6, <3>1, <3>3 DEF ClaimFindsItems
  <2> QED  BY <2>1, <2>2
<1> QED  BY <1>2, <1>8, <1>9, <1>11, <1>12, <1>13 DEF RunsInv

-----------------------------------------------------------------------------
(* Artifacts and their repairs.                                             *)

\* A step of the artifacts and repairs that leaves the attempt, its items and
\* its workers alone.
LEMMA RunUntouched ==
  ASSUME RunsInv, UNCHANGED <<item, scope, runner>>, run'.status = run.status, run'.attempt = run.attempt,
         Len(artifact) <= Len(artifact'), \A a \in 1..Len(artifact) : artifact'[a].case = artifact[a].case,
         DOMAIN repairer' = Repairer,
         \A p \in Repairer :
            /\ DOMAIN repairer'[p] = {"phase", "job", "claims"}
            /\ repairer'[p].phase \in {"idle", "claimed", "loaded"}
            /\ repairer'[p].phase # "idle" => repairer'[p].job \in DOMAIN repair'
  PROVE  WorkersTyped' /\ AttemptsCounted' /\ PicksStand' /\ ClaimFindsItems'
<1>1. AttemptsCounted' /\ PicksStand' /\ ClaimFindsItems'  BY RunStays
<1>2. \A w \in Runner : \A i \in DOMAIN runner[w].pick : runner[w].phase = "loaded" =>
         /\ runner[w].pick[i] \in 0..Len(artifact')
         /\ runner[w].pick[i] # 0 => artifact'[runner[w].pick[i]].case = i[1]
  <2> SUFFICES ASSUME NEW w \in Runner, NEW i \in DOMAIN runner[w].pick, runner[w].phase = "loaded"
               PROVE  /\ runner[w].pick[i] \in 0..Len(artifact')
                      /\ runner[w].pick[i] # 0 => artifact'[runner[w].pick[i]].case = i[1]
    OBVIOUS
  <2>1. /\ runner[w].pick[i] \in 0..Len(artifact)
        /\ runner[w].pick[i] # 0 => artifact[runner[w].pick[i]].case = i[1]
    BY DEF RunsInv, WorkersTyped
  <2>2. runner[w].pick[i] # 0 => runner[w].pick[i] \in 1..Len(artifact)  BY <2>1
  <2> QED  BY <2>1, <2>2
<1>3. WorkersTyped'  BY <1>2 DEF RunsInv, WorkersTyped
<1> QED  BY <1>1, <1>3

\* What a repair's row says of its artifact.
RepairShown(r, artifacts) ==
    /\ r.repaired \in 0..Len(artifacts)
    /\ r.repaired # 0 => artifacts[r.repaired].case = r.case
    /\ IF r.repaired = 0 THEN r.status \notin {"WAITING_REVIEW", "APPROVED", "REJECTED"}
       ELSE r.status = IF artifacts[r.repaired].status = "DRAFT" THEN "WAITING_REVIEW"
                       ELSE artifacts[r.repaired].status

\* Repairs and their artifacts agree, row by row.
LEMMA RepairsShown ==
  ASSUME RunsInv
  PROVE  \A j \in DOMAIN repair : /\ RepairShown(repair[j], artifact) /\ repair[j] \in RepairRow
                                  /\ HasVerdict(<<repair[j].case, repair[j].item>>)
<1>1. \A j \in DOMAIN repair : repair[j] \in RepairRow  BY ElementOfSeq, LenProperties DEF RunsInv, RunRowsTyped
<1> QED  BY <1>1 DEF RunsInv, ArtifactsBound, RepairShown

\* Items stay, artifacts grow or are decided, repairs are shown.
LEMMA ItemsStayBound ==
  ASSUME RunsInv, UNCHANGED item,
         \A c : ApprovedFor(c) \subseteq ApprovedFor(c)',
         \A j \in DOMAIN repair' : /\ RepairShown(repair'[j], artifact')
                                   /\ HasVerdict(<<repair'[j].case, repair'[j].item>>)
  PROVE  ArtifactsBound'
<1>1. \A i : HasVerdict(i)' = HasVerdict(i)  BY DEF HasVerdict
<1> QED  BY <1>1 DEF RunsInv, ArtifactsBound, RepairShown

\* A draft behind the others.
LEMMA DraftAppended ==
  ASSUME RunsInv, NEW c \in Case, Len(artifact) < ArtifactBound, artifact' = Draft(c)
  PROVE  /\ artifact' \in Seq(ArtifactRow) /\ Len(artifact') = Len(artifact) + 1 /\ Len(artifact) \in Nat
         /\ Len(artifact') <= ArtifactBound /\ Len(artifact) <= Len(artifact')
         /\ \A a \in 1..Len(artifact) : artifact'[a] = artifact[a]
         /\ artifact'[Len(artifact) + 1] = [case |-> c, status |-> "DRAFT"]
         /\ \A d : ApprovedFor(d) \subseteq ApprovedFor(d)'
         /\ \A r : RepairShown(r, artifact) => RepairShown(r, artifact')
<1>1. artifact \in Seq(ArtifactRow) /\ [case |-> c, status |-> "DRAFT"] \in ArtifactRow
  BY DEF RunsInv, RunRowsTyped, ArtifactRow
<1>2. /\ artifact' \in Seq(ArtifactRow) /\ Len(artifact') = Len(artifact) + 1 /\ Len(artifact) \in Nat
      /\ \A a \in 1..Len(artifact) : artifact'[a] = artifact[a]
      /\ artifact'[Len(artifact) + 1] = [case |-> c, status |-> "DRAFT"]
      /\ DOMAIN artifact = 1..Len(artifact) /\ DOMAIN artifact' = 1..Len(artifact')
  BY <1>1, AppendProperties, LenProperties DEF Draft
<1>3. Len(artifact') <= ArtifactBound /\ Len(artifact) <= Len(artifact')  BY <1>2, ArtifactAssumption
<1>4. \A d : ApprovedFor(d) \subseteq ApprovedFor(d)'  BY <1>2 DEF ApprovedFor
<1>5. \A r : RepairShown(r, artifact) => RepairShown(r, artifact')
  <2> SUFFICES ASSUME NEW r, RepairShown(r, artifact) PROVE RepairShown(r, artifact')  OBVIOUS
  <2>1. r.repaired \in 0..Len(artifact) /\ r.repaired \in 0..Len(artifact')  BY <1>2 DEF RepairShown
  <2>2. r.repaired # 0 => artifact'[r.repaired] = artifact[r.repaired]  BY <1>2, <2>1
  <2> QED  BY <2>1, <2>2 DEF RepairShown
<1> QED  BY <1>2, <1>3, <1>4, <1>5

\* A generated artifact is a draft.
LEMMA ArtifactSaved ==
  ASSUME RunsInv, NEW c \in Case, SaveArtifact(c)
  PROVE  RunsInv'
<1>1. /\ Len(artifact) < ArtifactBound /\ artifact' = Draft(c)
      /\ UNCHANGED <<scope, run, item, repair, runner, repairer>>
  BY DEF SaveArtifact
<1>2. /\ artifact' \in Seq(ArtifactRow) /\ Len(artifact') <= ArtifactBound
      /\ Len(artifact) <= Len(artifact') /\ \A a \in 1..Len(artifact) : artifact'[a] = artifact[a]
      /\ \A d : ApprovedFor(d) \subseteq ApprovedFor(d)'
      /\ \A r : RepairShown(r, artifact) => RepairShown(r, artifact')
  BY <1>1, DraftAppended
<1>3. RunRowsTyped'  BY <1>1, <1>2 DEF RunsInv, RunRowsTyped
<1>4. WorkersTyped' /\ AttemptsCounted' /\ PicksStand' /\ ClaimFindsItems'
  BY <1>1, <1>2, RunUntouched DEF RunsInv, WorkersTyped
<1>5. ArtifactsBound'  BY <1>1, <1>2, RepairsShown, ItemsStayBound
<1> QED  BY <1>3, <1>4, <1>5 DEF RunsInv

\* A decision of a draft is that of the repair that made it.
LEMMA DraftDecided ==
  ASSUME RunsInv, NEW a \in DOMAIN artifact, NEW decision \in {"APPROVED", "REJECTED"}, Decide(a, decision)
  PROVE  /\ artifact' \in Seq(ArtifactRow) /\ Len(artifact') = Len(artifact) /\ Len(artifact) \in Nat
         /\ a \in 1..Len(artifact)
         /\ \A b \in 1..Len(artifact) : artifact'[b].case = artifact[b].case
         /\ artifact'[a].status = decision
         /\ repair' \in Seq(RepairRow) /\ Len(repair') = Len(repair) /\ DOMAIN repair' = DOMAIN repair
         /\ \A j \in DOMAIN repair : repair'[j].case = repair[j].case /\ repair'[j].item = repair[j].item
         /\ \A j \in DOMAIN repair : repair'[j].status = "PENDING" =>
               repair[j].status = "PENDING" /\ repair'[j].claims = repair[j].claims
         /\ \A d : ApprovedFor(d) \subseteq ApprovedFor(d)'
         /\ \A j \in DOMAIN repair : RepairShown(repair'[j], artifact')
<1>1. /\ artifact \in Seq(ArtifactRow) /\ DOMAIN artifact = 1..Len(artifact) /\ Len(artifact) \in Nat
      /\ \A b \in DOMAIN artifact : artifact[b] \in ArtifactRow
      /\ artifact[a].status = "DRAFT"
      /\ artifact' = [artifact EXCEPT ![a].status = decision]
  BY ElementOfSeq, LenProperties DEF Decide, Undecided, RunsInv, RunRowsTyped
<1>2. /\ DOMAIN artifact' = DOMAIN artifact
      /\ \A b \in DOMAIN artifact : /\ artifact'[b] \in ArtifactRow /\ artifact'[b].case = artifact[b].case
                                    /\ b # a => artifact'[b] = artifact[b]
      /\ artifact'[a].status = decision
  BY <1>1 DEF ArtifactRow
<1>3. artifact' \in Seq(ArtifactRow) /\ Len(artifact') = Len(artifact)
  <2>1. artifact' \in [1..Len(artifact) -> ArtifactRow]  BY <1>1, <1>2
  <2> QED  BY <1>1, <2>1, SeqDef, LenProperties
<1>4. /\ repair \in Seq(RepairRow) /\ DOMAIN repair = 1..Len(repair) /\ Len(repair) \in Nat
      /\ \A j \in DOMAIN repair : repair[j] \in RepairRow
      /\ repair' = [j \in DOMAIN repair |->
                      IF j \in Waiting(a) THEN [repair[j] EXCEPT !.status = decision] ELSE repair[j]]
  BY ElementOfSeq, LenProperties DEF Decide, RunsInv, RunRowsTyped
<1>5. \A j \in DOMAIN repair :
         /\ repair'[j] \in RepairRow /\ repair'[j].case = repair[j].case /\ repair'[j].item = repair[j].item
         /\ repair'[j].repaired = repair[j].repaired
         /\ j \in Waiting(a) => repair'[j].status = decision
         /\ j \notin Waiting(a) => repair'[j] = repair[j]
  BY <1>4 DEF RepairRow
<1>6. repair' \in Seq(RepairRow) /\ Len(repair') = Len(repair) /\ DOMAIN repair' = DOMAIN repair
  <2>1. repair' \in [1..Len(repair) -> RepairRow]  BY <1>4, <1>5
  <2> QED  BY <1>4, <2>1, SeqDef, LenProperties
<1>7. \A d : ApprovedFor(d) \subseteq ApprovedFor(d)'  BY <1>1, <1>2 DEF ApprovedFor
<1>8. \A j \in DOMAIN repair : RepairShown(repair'[j], artifact')
  <2> SUFFICES ASSUME NEW j \in DOMAIN repair PROVE RepairShown(repair'[j], artifact')  OBVIOUS
  <2>1. RepairShown(repair[j], artifact)  BY RepairsShown
  <2>2. repair[j].repaired # 0 => repair[j].repaired \in DOMAIN artifact  BY <1>1, <2>1 DEF RepairShown
  <2>3. j \in Waiting(a) <=> repair[j].repaired = a  BY <1>1, <2>1 DEF Waiting, RepairShown
  <2>4. CASE repair[j].repaired = a  BY <1>1, <1>2, <1>3, <1>5, <2>1, <2>3, <2>4 DEF RepairShown
  <2>5. CASE repair[j].repaired # a  BY <1>1, <1>2, <1>3, <1>5, <2>1, <2>2, <2>3, <2>5 DEF RepairShown
  <2> QED  BY <2>4, <2>5
<1>9. \A j \in DOMAIN repair : repair'[j].status = "PENDING" =>
         repair[j].status = "PENDING" /\ repair'[j].claims = repair[j].claims
  BY <1>5
<1> QED  BY <1>1, <1>2, <1>3, <1>5, <1>6, <1>7, <1>8, <1>9

\* A rejected artifact runs nothing.
LEMMA ArtifactRejected ==
  ASSUME RunsInv, NEW a \in DOMAIN artifact, Reject(a)
  PROVE  RunsInv'
<1>1. Decide(a, "REJECTED") /\ UNCHANGED <<scope, run, item, runner, repairer>>  BY DEF Reject
<1>2. /\ artifact' \in Seq(ArtifactRow) /\ Len(artifact') = Len(artifact) /\ Len(artifact) \in Nat
      /\ \A b \in 1..Len(artifact) : artifact'[b].case = artifact[b].case
      /\ repair' \in Seq(RepairRow) /\ DOMAIN repair' = DOMAIN repair
      /\ \A j \in DOMAIN repair : repair'[j].case = repair[j].case /\ repair'[j].item = repair[j].item
      /\ \A j \in DOMAIN repair : repair'[j].status = "PENDING" =>
            repair[j].status = "PENDING" /\ repair'[j].claims = repair[j].claims
      /\ \A d : ApprovedFor(d) \subseteq ApprovedFor(d)'
      /\ \A j \in DOMAIN repair : RepairShown(repair'[j], artifact')
  BY <1>1, DraftDecided
<1>3. RunRowsTyped'  BY <1>1, <1>2 DEF RunsInv, RunRowsTyped
<1>4. WorkersTyped' /\ AttemptsCounted' /\ PicksStand' /\ ClaimFindsItems'
  BY <1>1, <1>2, RunUntouched DEF RunsInv, WorkersTyped
<1>5. ArtifactsBound'  BY <1>1, <1>2, RepairsShown, ItemsStayBound
<1> QED  BY <1>3, <1>4, <1>5 DEF RunsInv

\* An approved artifact may request the run.
LEMMA ArtifactApproved ==
  ASSUME RunsInv, NEW a \in DOMAIN artifact, Approve(a)
  PROVE  RunsInv'
<1>1. Decide(a, "APPROVED") /\ UNCHANGED <<scope, item, runner, repairer>>  BY DEF Approve
<1>2. /\ artifact' \in Seq(ArtifactRow) /\ Len(artifact') = Len(artifact) /\ Len(artifact) \in Nat
      /\ \A b \in 1..Len(artifact) : artifact'[b].case = artifact[b].case
      /\ repair' \in Seq(RepairRow) /\ DOMAIN repair' = DOMAIN repair
      /\ \A j \in DOMAIN repair : repair'[j].case = repair[j].case /\ repair'[j].item = repair[j].item
      /\ \A j \in DOMAIN repair : repair'[j].status = "PENDING" =>
            repair[j].status = "PENDING" /\ repair'[j].claims = repair[j].claims
      /\ \A d : ApprovedFor(d) \subseteq ApprovedFor(d)'
      /\ \A j \in DOMAIN repair : RepairShown(repair'[j], artifact')
  BY <1>1, DraftDecided
<1>3. /\ run'.status = run.status /\ run'.attempt = run.attempt
      /\ run' \in [status : {"NONE", "PENDING", "RUNNING", "COMPLETED", "FAILED"},
                   requested : BOOLEAN, attempt : Nat]
  <2>1. run' = run \/ run' = [run EXCEPT !.requested = TRUE]  BY DEF Approve
  <2> QED  BY <2>1 DEF RunsInv, RunRowsTyped
<1>4. RunRowsTyped'  BY <1>1, <1>2, <1>3 DEF RunsInv, RunRowsTyped
<1>5. WorkersTyped' /\ AttemptsCounted' /\ PicksStand' /\ ClaimFindsItems'
  BY <1>1, <1>2, <1>3, RunUntouched DEF RunsInv, WorkersTyped
<1>6. ArtifactsBound'  BY <1>1, <1>2, RepairsShown, ItemsStayBound
<1> QED  BY <1>4, <1>5, <1>6 DEF RunsInv

\* The last attempt that has an item.
LEMMA LastAttemptIs ==
  ASSUME RunsInv
  PROVE  /\ LastAttempt \in 0..Queued
         /\ \A i \in DOMAIN item : i[2] <= LastAttempt
<1> DEFINE S == {i[2] : i \in DOMAIN item}
<1>1. Queued \in Nat /\ S \in SUBSET (0..Queued)  BY Counters
<1>2. S = {} => LastAttempt = 0  BY <1>1, LatestIs DEF LastAttempt
<1>3. S # {} => LastAttempt \in S /\ \A b \in S : b <= LastAttempt  BY <1>1, LatestIs DEF LastAttempt
<1> HIDE DEF S
<1>4. LastAttempt \in 0..Queued
  <2>1. CASE S = {}  BY <1>1, <1>2, <2>1
  <2>2. CASE S # {}  BY <1>1, <1>3, <2>2
  <2> QED  BY <2>1, <2>2
<1>5. \A i \in DOMAIN item : i[2] <= LastAttempt  BY <1>3 DEF S
<1> QED  BY <1>4, <1>5

\* An approved repair queues exactly one item, behind all that are there.
LEMMA RepairApproved ==
  ASSUME RunsInv, NEW a \in DOMAIN artifact, NEW j \in DOMAIN repair, ApproveRepair(a, j)
  PROVE  RunsInv'
<1>0. PICK n, c : n = LastAttempt + 1 /\ c = repair[j].case  OBVIOUS
<1>1. /\ Decide(a, "APPROVED") /\ j \in Waiting(a) /\ run.status \in {"COMPLETED", "FAILED"}
      /\ UNCHANGED <<scope, runner, repairer>>
      /\ item' = [i \in DOMAIN item \cup {<<c, n>>} |->
                    IF i = <<c, n>> THEN [status |-> "NOT_RUN", artifact |-> a] ELSE item[i]]
      /\ run' = [status |-> "PENDING", requested |-> TRUE, attempt |-> n - 1]
  BY <1>0 DEF ApproveRepair, Requeueable, RequeueAttempt
<1>2. /\ artifact' \in Seq(ArtifactRow) /\ Len(artifact') = Len(artifact) /\ Len(artifact) \in Nat
      /\ a \in 1..Len(artifact) /\ artifact'[a].status = "APPROVED"
      /\ \A b \in 1..Len(artifact) : artifact'[b].case = artifact[b].case
      /\ repair' \in Seq(RepairRow) /\ DOMAIN repair' = DOMAIN repair
      /\ \A k \in DOMAIN repair : repair'[k].case = repair[k].case /\ repair'[k].item = repair[k].item
      /\ \A k \in DOMAIN repair : repair'[k].status = "PENDING" =>
            repair[k].status = "PENDING" /\ repair'[k].claims = repair[k].claims
      /\ \A d : ApprovedFor(d) \subseteq ApprovedFor(d)'
      /\ \A k \in DOMAIN repair : RepairShown(repair'[k], artifact')
  BY <1>1, DraftDecided
<1>3. /\ c \in Case /\ HasVerdict(<<c, repair[j].item>>) /\ repair[j].repaired = a /\ artifact[a].case = c
  BY <1>0, <1>1, <1>2, RepairsShown DEF Waiting, RepairShown, RepairRow
<1>4. /\ n \in Nat /\ 2 <= n /\ n <= Queued + 1 /\ Queued = run.attempt /\ Queued \in Nat
      /\ \A i \in DOMAIN item : i[2] <= n - 1 /\ i[2] \in 1..Queued /\ i \in Case \X (Nat \ {0})
  <2>1. LastAttempt \in 0..Queued /\ \A i \in DOMAIN item : i[2] <= LastAttempt  BY LastAttemptIs
  <2>2. <<c, repair[j].item>>[2] \in 1..Queued  BY <1>3, Counters DEF HasVerdict
  <2>3. <<c, repair[j].item>>[2] <= LastAttempt  BY <1>3, <2>1 DEF HasVerdict
  <2>4. 1 <= LastAttempt /\ LastAttempt \in Nat /\ LastAttempt <= Queued /\ Queued \in Nat
    BY <2>1, <2>2, <2>3, Counters
  <2>5. Queued = run.attempt  BY <1>1, Counters
  <2> QED  BY <1>0, <2>1, <2>4, <2>5, Counters
<1>5. /\ run'.status = "PENDING" /\ run'.attempt = n - 1 /\ Queued' = n
      /\ run' \in [status : {"NONE", "PENDING", "RUNNING", "COMPLETED", "FAILED"},
                   requested : BOOLEAN, attempt : Nat]
  BY <1>1, <1>4 DEF Queued
<1>6. /\ <<c, n>> \notin DOMAIN item /\ DOMAIN item' = DOMAIN item \cup {<<c, n>>}
      /\ \A i \in DOMAIN item : item'[i] = item[i]
      /\ item'[<<c, n>>] = [status |-> "NOT_RUN", artifact |-> a]
  <2>1. <<c, n>> \notin DOMAIN item
    <3>1. ~(n <= n - 1) /\ <<c, n>>[2] = n  BY <1>4
    <3> QED  BY <1>4, <3>1
  <2> QED  BY <1>1, <2>1
<1>7. RunRowsTyped'
  <2>1. [status |-> "NOT_RUN", artifact |-> a] \in Item
    <3>1. a \in 0..ArtifactBound  BY <1>2, ArtifactAssumption DEF RunsInv, RunRowsTyped
    <3> QED  BY <3>1 DEF Item
  <2>2. \A i \in DOMAIN item' : item'[i] \in Item  BY <1>6, <2>1, Counters
  <2>3. DOMAIN item' \subseteq Case \X (Nat \ {0})
    <3>1. n \in Nat \ {0}  BY <1>4
    <3> QED  BY <1>3, <1>4, <1>6, <3>1
  <2> QED  BY <1>1, <1>2, <1>5, <2>2, <2>3 DEF RunsInv, RunRowsTyped
<1>8. WorkersTyped'
  <2>1. \A w \in Runner : \A i \in DOMAIN runner[w].pick : runner[w].phase = "loaded" =>
           /\ runner[w].pick[i] \in 0..Len(artifact')
           /\ runner[w].pick[i] # 0 => artifact'[runner[w].pick[i]].case = i[1]
    <3> SUFFICES ASSUME NEW w \in Runner, NEW i \in DOMAIN runner[w].pick, runner[w].phase = "loaded"
                 PROVE  /\ runner[w].pick[i] \in 0..Len(artifact')
                        /\ runner[w].pick[i] # 0 => artifact'[runner[w].pick[i]].case = i[1]
      OBVIOUS
    <3>1. /\ runner[w].pick[i] \in 0..Len(artifact)
          /\ runner[w].pick[i] # 0 => artifact[runner[w].pick[i]].case = i[1]
      BY DEF RunsInv, WorkersTyped
    <3>2. runner[w].pick[i] # 0 => runner[w].pick[i] \in 1..Len(artifact)  BY <3>1
    <3> QED  BY <1>2, <3>1, <3>2
  <2> QED  BY <1>1, <1>2, <2>1 DEF RunsInv, WorkersTyped
<1>9. ArtifactsBound'
  <2>1. \A i : HasVerdict(i) => HasVerdict(i)'  BY <1>6 DEF HasVerdict
  <2>2. a \in ApprovedFor(c)'
    <3>1. a \in DOMAIN artifact'  BY <1>2, LenProperties
    <3> QED  BY <1>2, <1>3, <3>1 DEF ApprovedFor
  <2>3. \A i \in DOMAIN item' : item'[i].artifact # 0 => item'[i].artifact \in ApprovedFor(i[1])'
    <3> SUFFICES ASSUME NEW i \in DOMAIN item', item'[i].artifact # 0
                 PROVE  item'[i].artifact \in ApprovedFor(i[1])'
      OBVIOUS
    <3>1. CASE i \in DOMAIN item  BY <1>2, <1>6, <3>1 DEF RunsInv, ArtifactsBound
    <3>2. CASE i = <<c, n>>  BY <1>6, <2>2, <3>2
    <3> QED  BY <1>6, <3>1, <3>2
  <2> QED  BY <1>2, <2>1, <2>3, RepairsShown DEF ArtifactsBound, RepairShown
<1>10. \A m : VerdictAt(m) => VerdictAt(m)'  BY <1>6 DEF VerdictAt
<1>11. AttemptsCounted'
  <2>1. \A i \in DOMAIN item' : i[2] <= n
    <3>1. <<c, n>>[2] = n  OBVIOUS
    <3> QED  BY <1>4, <1>6, <3>1
  <2>2. \A m \in 1..(n - 1) : m < MaxRunAttempts => VerdictAt(m)'
    <3> SUFFICES ASSUME NEW m \in 1..(n - 1), m < MaxRunAttempts PROVE VerdictAt(m)'  OBVIOUS
    <3>1. m \in 1..(Queued - 1) \/ m = run.attempt  BY <1>4
    <3>2. m = run.attempt => run.status = "COMPLETED"
      BY <1>1, <1>4, RunAttemptsAssumption DEF RunsInv, AttemptsCounted
    <3> QED  BY <1>10, <3>1, <3>2 DEF RunsInv, AttemptsCounted
  <2> QED  BY <1>5, <2>1, <2>2 DEF AttemptsCounted
<1>12. run.status = "COMPLETED" => n = Queued + 1
  <2>1. SUFFICES ASSUME run.status = "COMPLETED" PROVE n = Queued + 1  OBVIOUS
  <2>2. PICK i \in DOMAIN item : i[2] = Queued  BY <1>4, <2>1 DEF RunsInv, AttemptsCounted, VerdictAt
  <2> QED  BY <1>4, <2>2
<1>13. run.status = "FAILED" => MaxRunAttempts <= n
  <2>1. SUFFICES ASSUME run.status = "FAILED", 1 < MaxRunAttempts PROVE MaxRunAttempts <= n
    BY <1>4, RunAttemptsAssumption
  <2>2. MaxRunAttempts <= Queued /\ MaxRunAttempts \in Nat
    BY <1>4, <2>1, RunAttemptsAssumption DEF RunsInv, AttemptsCounted
  <2>3. MaxRunAttempts - 1 \in 1..(Queued - 1) /\ MaxRunAttempts - 1 < MaxRunAttempts  BY <1>4, <2>1, <2>2
  <2>4. PICK i \in DOMAIN item : i[2] = MaxRunAttempts - 1
    BY <2>3 DEF RunsInv, AttemptsCounted, VerdictAt
  <2> QED  BY <1>4, <2>2, <2>4
<1>14. PicksStand'
  <2>1. SUFFICES ASSUME NEW u \in Runner, runner[u].phase # "idle"
                 PROVE  /\ n < runner[u].attempt => MaxRunAttempts <= n
                        /\ runner[u].phase = "loaded" =>
                              \/ \A i \in {k \in DOMAIN item' : k[2] = runner[u].attempt} \ DOMAIN runner[u].pick : scope[i[1]].manual
                              \/ runner[u].attempt # 1 /\ ~(DOMAIN runner[u].pick \subseteq DOMAIN item')
    BY <1>1, <1>5 DEF PicksStand, AttemptItems, RunsInv, WorkersTyped
  <2>2. runner[u].attempt \in Nat  BY DEF RunsInv, WorkersTyped
  <2>3. n < runner[u].attempt => MaxRunAttempts <= n
    <3>1. Queued < runner[u].attempt => MaxRunAttempts <= Queued  BY <2>1 DEF RunsInv, PicksStand
    <3> QED  BY <1>1, <1>4, <1>12, <1>13, <2>2, <3>1, RunAttemptsAssumption
  <2>4. ASSUME runner[u].phase = "loaded"
        PROVE  \/ \A i \in {k \in DOMAIN item' : k[2] = runner[u].attempt} \ DOMAIN runner[u].pick : scope[i[1]].manual
               \/ runner[u].attempt # 1 /\ ~(DOMAIN runner[u].pick \subseteq DOMAIN item')
    <3>1. \A i \in DOMAIN runner[u].pick : i \in Case \X {runner[u].attempt} /\ i[2] = runner[u].attempt
      BY <2>4 DEF RunsInv, WorkersTyped
    <3>2. CASE runner[u].attempt = n
      <4>1. \A i \in DOMAIN item : i[2] # n  BY <1>4
      <4>2. {k \in DOMAIN item' : k[2] = n} \subseteq {<<c, n>>}  BY <1>6, <4>1
      <4>3. DOMAIN runner[u].pick # {}  BY <2>4 DEF RunsInv, WorkersTyped
      <4>4. DOMAIN runner[u].pick \subseteq DOMAIN item' => <<c, n>> \in DOMAIN runner[u].pick
        BY <1>6, <3>1, <3>2, <4>1, <4>3
      <4> QED  BY <1>4, <3>2, <4>2, <4>4
    <3>3. CASE runner[u].attempt # n
      <4>1. {k \in DOMAIN item' : k[2] = runner[u].attempt} = AttemptItems(runner[u].attempt)
        BY <1>6, <3>3 DEF AttemptItems
      <4>2. DOMAIN runner[u].pick \subseteq DOMAIN item' => DOMAIN runner[u].pick \subseteq DOMAIN item
        BY <1>6, <3>1, <3>3
      <4> QED  BY <2>4, <4>1, <4>2 DEF RunsInv, PicksStand
    <3> QED  BY <3>2, <3>3
  <2> QED  BY <2>3, <2>4
<1>15. ClaimFindsItems'
  <2>1. \A i \in DOMAIN item : i[2] # n  BY <1>4
  <2>2. AttemptItems(n)' = {<<c, n>>}  BY <1>6, <2>1 DEF AttemptItems
  <2> QED  BY <1>5, <1>6, <2>2 DEF ClaimFindsItems
<1> QED  BY <1>7, <1>8, <1>9, <1>11, <1>14, <1>15 DEF RunsInv

\* A requested repair is of an item with a verdict.
LEMMA RepairRequested ==
  ASSUME RunsInv, NEW i \in DOMAIN item, RequestRepair(i)
  PROVE  RunsInv'
<1> DEFINE row == [case |-> i[1], item |-> i[2], source |-> item[i].artifact,
                   repaired |-> 0, claims |-> 0, status |-> "PENDING"]
<1>1. /\ repair' = Append(repair, row) /\ item[i].status = "AUTOMATION_ERROR"
      /\ UNCHANGED <<scope, run, item, artifact, runner, repairer>>
  BY DEF RequestRepair
<1>2. row \in RepairRow /\ 0 < MaxQueueAttempts
  BY Counters, QueueAttemptsAssumption, ArtifactAssumption DEF RepairRow, ActiveRepair, Item
<1>3. repair \in Seq(RepairRow)  BY DEF RunsInv, RunRowsTyped
<1>4. /\ repair' \in Seq(RepairRow) /\ DOMAIN repair' = DOMAIN repair \cup {Len(repair) + 1}
      /\ \A j \in DOMAIN repair : repair'[j] = repair[j]
      /\ repair'[Len(repair) + 1] = row
  <2> HIDE DEF row
  <2> QED  BY <1>1, <1>2, <1>3, AppendProperties, LenProperties
<1>5. RunRowsTyped'  BY <1>1, <1>2, <1>4 DEF RunsInv, RunRowsTyped
<1>6. WorkersTyped' /\ AttemptsCounted' /\ PicksStand' /\ ClaimFindsItems'
  <2>1. Len(artifact) \in Nat /\ Len(artifact) <= Len(artifact)  BY LenProperties DEF RunsInv, RunRowsTyped
  <2> QED  BY <1>1, <1>4, <2>1, RunUntouched DEF RunsInv, WorkersTyped
<1>7. ArtifactsBound'
  <2>1. RepairShown(row, artifact)
    <3>1. Len(artifact) \in Nat  BY LenProperties DEF RunsInv, RunRowsTyped
    <3> QED  BY <3>1 DEF RepairShown
  <2>2. HasVerdict(<<row.case, row.item>>)  BY <1>1, Counters DEF HasVerdict
  <2>3. \A c : ApprovedFor(c) \subseteq ApprovedFor(c)'  BY <1>1 DEF ApprovedFor
  <2> HIDE DEF row
  <2> QED  BY <1>1, <1>4, <2>1, <2>2, <2>3, RepairsShown, ItemsStayBound
<1> QED  BY <1>5, <1>6, <1>7 DEF RunsInv

\* A step of one repair worker, and of the repair it holds.
LEMMA RepairMoves ==
  ASSUME RunsInv, NEW p \in Repairer, NEW j \in DOMAIN repair, NEW row \in RepairRow, NEW held,
         UNCHANGED <<run, item, scope, runner>>,
         artifact' \in Seq(ArtifactRow), Len(artifact') <= ArtifactBound, Len(artifact) <= Len(artifact'),
         \A a \in 1..Len(artifact) : artifact'[a] = artifact[a],
         \A c : ApprovedFor(c) \subseteq ApprovedFor(c)',
         \A r : RepairShown(r, artifact) => RepairShown(r, artifact'),
         repair' = [repair EXCEPT ![j] = row],
         row.case = repair[j].case, row.item = repair[j].item, RepairShown(row, artifact'),
         row.status = "PENDING" => row.claims < MaxQueueAttempts,
         repairer' = [repairer EXCEPT ![p] = held],
         DOMAIN held = {"phase", "job", "claims"}, held.phase \in {"idle", "claimed", "loaded"},
         held.phase # "idle" => held.job = j
  PROVE  RunsInv'
<1>1. repair \in Seq(RepairRow) /\ DOMAIN repair = 1..Len(repair) /\ Len(repair) \in Nat
  BY LenProperties DEF RunsInv, RunRowsTyped
<1>2. /\ DOMAIN repair' = DOMAIN repair /\ repair'[j] = row
      /\ \A k \in DOMAIN repair : k # j => repair'[k] = repair[k]
  BY <1>1
<1>3. repair' \in Seq(RepairRow)
  <2>1. repair' \in [1..Len(repair) -> RepairRow]  BY <1>1, <1>2, RepairsShown
  <2> QED  BY <1>1, <2>1, SeqDef
<1>4. RunRowsTyped'  BY <1>2, <1>3 DEF RunsInv, RunRowsTyped
<1>5. WorkersTyped' /\ AttemptsCounted' /\ PicksStand' /\ ClaimFindsItems'
  <2>1. /\ DOMAIN repairer' = Repairer
        /\ \A q \in Repairer :
              /\ DOMAIN repairer'[q] = {"phase", "job", "claims"}
              /\ repairer'[q].phase \in {"idle", "claimed", "loaded"}
              /\ repairer'[q].phase # "idle" => repairer'[q].job \in DOMAIN repair'
    BY <1>2 DEF RunsInv, WorkersTyped
  <2> QED  BY <2>1, RunUntouched
<1>6. ArtifactsBound'
  <2>1. \A k \in DOMAIN repair' : /\ RepairShown(repair'[k], artifact')
                                  /\ HasVerdict(<<repair'[k].case, repair'[k].item>>)
    BY <1>2, RepairsShown
  <2> QED  BY <2>1, ItemsStayBound
<1> QED  BY <1>4, <1>5, <1>6 DEF RunsInv

\* The same when the artifacts stay.
LEMMA RepairMovesAlone ==
  ASSUME RunsInv, NEW p \in Repairer, NEW j \in DOMAIN repair, NEW row \in RepairRow, NEW held,
         UNCHANGED <<run, item, scope, runner, artifact>>,
         repair' = [repair EXCEPT ![j] = row],
         row.case = repair[j].case, row.item = repair[j].item, RepairShown(row, artifact),
         row.status = "PENDING" => row.claims < MaxQueueAttempts,
         repairer' = [repairer EXCEPT ![p] = held],
         DOMAIN held = {"phase", "job", "claims"}, held.phase \in {"idle", "claimed", "loaded"},
         held.phase # "idle" => held.job = j
  PROVE  RunsInv'
<1>1. /\ artifact' \in Seq(ArtifactRow) /\ Len(artifact') <= ArtifactBound /\ Len(artifact) <= Len(artifact')
      /\ \A a \in 1..Len(artifact) : artifact'[a] = artifact[a]
  BY LenProperties DEF RunsInv, RunRowsTyped
<1>2. /\ \A c : ApprovedFor(c) \subseteq ApprovedFor(c)'
      /\ \A r : RepairShown(r, artifact) => RepairShown(r, artifact')
      /\ RepairShown(row, artifact')
  BY DEF ApprovedFor, RepairShown
<1> QED  BY <1>1, <1>2, RepairMoves

\* A repair of another status: only one that an artifact shows may be reviewed.
LEMMA RepairRestated ==
  ASSUME RunsInv, NEW j \in DOMAIN repair, repair[j].status \in {"PENDING", "RUNNING"},
         NEW row, row.repaired = repair[j].repaired,
         row.status \in {"PENDING", "RUNNING", "UNREPAIRABLE", "FAILED"}
  PROVE  RepairShown(row, artifact)
<1>1. repair[j] \in RepairRow /\ RepairShown(repair[j], artifact)  BY RepairsShown
<1>2. repair[j].repaired = 0
  <2>1. /\ Len(artifact) \in Nat /\ DOMAIN artifact = 1..Len(artifact)
        /\ \A a \in 1..Len(artifact) : artifact[a] \in ArtifactRow
    BY ElementOfSeq, LenProperties DEF RunsInv, RunRowsTyped
  <2>2. SUFFICES ASSUME repair[j].repaired # 0 PROVE FALSE  OBVIOUS
  <2>3. repair[j].repaired \in 1..Len(artifact)  BY <1>1, <2>1, <2>2 DEF RepairShown
  <2>4. artifact[repair[j].repaired].status \in {"DRAFT", "APPROVED", "REJECTED"}
    BY <2>1, <2>3 DEF ArtifactRow
  <2> QED  BY <1>1, <2>2, <2>4 DEF RepairShown
<1> QED  BY <1>1, <1>2 DEF RepairShown

\* A repair below its limit is claimed.
LEMMA RepairClaimed ==
  ASSUME RunsInv, NEW p \in Repairer, NEW j \in DOMAIN repair, ClaimRepair(p, j)
  PROVE  RunsInv'
<1> DEFINE k == repair[j].claims + 1
           held == [phase |-> "claimed", job |-> j, claims |-> k]
           row == [repair[j] EXCEPT !.status = "RUNNING", !.claims = k]
<1>1. /\ repair[j].status = "PENDING" /\ repairer' = [repairer EXCEPT ![p] = held]
      /\ UNCHANGED <<run, item, scope, runner, artifact>>
  BY DEF ClaimRepair
<1>2. repair' = [repair EXCEPT ![j] = row]  BY DEF ClaimRepair
<1>3. k \in 0..MaxQueueAttempts
  <2>1. repair[j].claims \in 0..MaxQueueAttempts /\ repair[j].claims < MaxQueueAttempts
    BY <1>1, RepairsShown DEF RepairRow, RunsInv, RunRowsTyped
  <2> QED  BY <2>1, QueueAttemptsAssumption
<1> HIDE DEF k
<1>4. /\ row \in RepairRow /\ RepairShown(row, artifact) /\ row.status = "RUNNING"
      /\ row.case = repair[j].case /\ row.item = repair[j].item
  <2>1. repair[j] \in RepairRow  BY RepairsShown
  <2>2. /\ row \in RepairRow /\ row.status = "RUNNING" /\ row.repaired = repair[j].repaired
        /\ row.case = repair[j].case /\ row.item = repair[j].item
    BY <1>3, <2>1 DEF RepairRow, ActiveRepair
  <2> HIDE DEF row
  <2> QED  BY <1>1, <2>2, RepairRestated
<1>5. /\ DOMAIN held = {"phase", "job", "claims"} /\ held.phase \in {"idle", "claimed", "loaded"}
      /\ held.job = j
  OBVIOUS
<1> HIDE DEF row, held
<1> QED  BY <1>1, <1>2, <1>4, <1>5, RepairMovesAlone

\* What a working repairer holds is a repair.
LEMMA RepairerHolds ==
  ASSUME RunsInv, NEW p \in Repairer, repairer[p].phase # "idle"
  PROVE  /\ repairer[p].job \in DOMAIN repair /\ repair[repairer[p].job] \in RepairRow
         /\ NoRepairer.phase = "idle" /\ DOMAIN NoRepairer = {"phase", "job", "claims"}
BY RepairsShown DEF RunsInv, WorkersTyped, NoRepairer

\* A repairer that becomes idle, or that only loads, and no row changes.
LEMMA RepairerMoves ==
  ASSUME RunsInv, NEW p \in Repairer, NEW held, repairer[p].phase # "idle",
         UNCHANGED <<run, item, scope, runner, artifact, repair>>,
         repairer' = [repairer EXCEPT ![p] = held],
         DOMAIN held = {"phase", "job", "claims"}, held.phase \in {"idle", "claimed", "loaded"},
         held.phase # "idle" => held.job = repairer[p].job
  PROVE  RunsInv'
<1>1. repairer[p].job \in DOMAIN repair  BY RepairerHolds
<1>2. RunRowsTyped'  BY DEF RunsInv, RunRowsTyped
<1>3. WorkersTyped' /\ AttemptsCounted' /\ PicksStand' /\ ClaimFindsItems'
  <2>1. Len(artifact) \in Nat /\ Len(artifact) <= Len(artifact)  BY LenProperties DEF RunsInv, RunRowsTyped
  <2>2. /\ DOMAIN repairer' = Repairer
        /\ \A q \in Repairer :
              /\ DOMAIN repairer'[q] = {"phase", "job", "claims"}
              /\ repairer'[q].phase \in {"idle", "claimed", "loaded"}
              /\ repairer'[q].phase # "idle" => repairer'[q].job \in DOMAIN repair'
    BY <1>1 DEF RunsInv, WorkersTyped
  <2> QED  BY <2>1, <2>2, RunUntouched
<1>4. ArtifactsBound'
  <2>1. \A c : ApprovedFor(c) \subseteq ApprovedFor(c)'  BY DEF ApprovedFor
  <2> QED  BY <2>1, RepairsShown, ItemsStayBound
<1> QED  BY <1>2, <1>3, <1>4 DEF RunsInv

\* A worker reads what it is to repair.
LEMMA RepairLoaded ==
  ASSUME RunsInv, NEW p \in Repairer, LoadRepairSubject(p)
  PROVE  RunsInv'
<1> DEFINE held == [repairer[p] EXCEPT !.phase = "loaded"]
<1>1. /\ repairer[p].phase # "idle" /\ repairer' = [repairer EXCEPT ![p] = held]
      /\ UNCHANGED <<run, item, scope, runner, artifact, repair>>
  BY DEF LoadRepairSubject
<1>2. /\ DOMAIN held = {"phase", "job", "claims"} /\ held.phase \in {"idle", "claimed", "loaded"}
      /\ held.job = repairer[p].job
  BY DEF RunsInv, WorkersTyped
<1> HIDE DEF held
<1> QED  BY <1>1, <1>2, RepairerMoves

\* A repair worker stops without saving.
LEMMA RepairerLeaves ==
  ASSUME RunsInv, NEW p \in Repairer, RepairerStops(p)
  PROVE  RunsInv'
<1>1. /\ repairer[p].phase # "idle" /\ repairer' = [repairer EXCEPT ![p] = NoRepairer]
      /\ UNCHANGED <<run, item, scope, runner, artifact, repair>>
  BY DEF RepairerStops
<1> QED  BY <1>1, RepairerHolds, RepairerMoves

\* A repair whose worker saves its failure.
LEMMA RepairFails ==
  ASSUME RunsInv, NEW p \in Repairer, NEW s \in {"PENDING", "UNREPAIRABLE", "FAILED"},
         repairer[p].phase # "idle", RepairHeld(p),
         s = "PENDING" => repair[repairer[p].job].claims < MaxQueueAttempts,
         repair' = [repair EXCEPT ![repairer[p].job].status = s],
         repairer' = [repairer EXCEPT ![p] = NoRepairer],
         UNCHANGED <<run, item, scope, runner, artifact>>
  PROVE  RunsInv'
<1> DEFINE j == repairer[p].job
           row == [repair[j] EXCEPT !.status = s, !.claims = repair[j].claims]
<1>1. j \in DOMAIN repair /\ repair[j] \in RepairRow /\ repair[j].status = "RUNNING"
  BY RepairerHolds DEF RepairHeld
<1>2. row = [repair[j] EXCEPT !.status = s]  BY <1>1 DEF RepairRow
<1>3. repair' = [repair EXCEPT ![j] = row]  BY <1>2
<1>4. repair[j].claims \in 0..MaxQueueAttempts  BY <1>1 DEF RepairRow
<1>5. /\ row \in RepairRow /\ RepairShown(row, artifact) /\ row.status = s /\ row.claims = repair[j].claims
      /\ row.case = repair[j].case /\ row.item = repair[j].item
  <2> HIDE DEF j
  <2>1. /\ row \in RepairRow /\ row.status = s /\ row.claims = repair[j].claims
        /\ row.case = repair[j].case /\ row.item = repair[j].item /\ row.repaired = repair[j].repaired
    BY <1>1, <1>4 DEF RepairRow, ActiveRepair
  <2> HIDE DEF row
  <2> QED  BY <1>1, <2>1, RepairRestated
<1> HIDE DEF row
<1> QED  BY <1>1, <1>3, <1>5, RepairerHolds, RepairMovesAlone

\* A worker that cannot repair saves so.
LEMMA RepairGivenUp ==
  ASSUME RunsInv, NEW p \in Repairer, MarkRepairUnrepairable(p)
  PROVE  RunsInv'
BY RepairFails DEF MarkRepairUnrepairable

\* A worker whose attempt failed queues the repair again, or fails it.
LEMMA RepairRetried ==
  ASSUME RunsInv, NEW p \in Repairer, RetryOrFailRepair(p)
  PROVE  RunsInv'
<1> DEFINE j == repairer[p].job
<1>1. /\ repairer[p].phase # "idle" /\ repairer' = [repairer EXCEPT ![p] = NoRepairer]
      /\ UNCHANGED <<run, item, scope, runner, artifact>>
  BY DEF RetryOrFailRepair
<1>2. CASE RepairHeld(p) /\ RepairGoesOn(j)
  <2>1. repair' = [repair EXCEPT ![j].status = "PENDING"]  BY <1>2 DEF RetryOrFailRepair
  <2> QED  BY <1>1, <1>2, <2>1, RepairFails DEF RepairGoesOn
<1>3. CASE RepairHeld(p) /\ ~RepairGoesOn(j)
  <2>1. repair' = [repair EXCEPT ![j].status = "FAILED"]  BY <1>3 DEF RetryOrFailRepair
  <2> QED  BY <1>1, <1>3, <2>1, RepairFails
<1>4. CASE ~RepairHeld(p)
  <2>1. repair' = repair  BY <1>4 DEF RetryOrFailRepair
  <2> QED  BY <1>1, <2>1, RepairerHolds, RepairerMoves
<1> QED  BY <1>2, <1>3, <1>4

\* The artifact of a completed repair is a draft, and waits for its review.
LEMMA RepairCompleted ==
  ASSUME RunsInv, NEW p \in Repairer, CompleteRepair(p)
  PROVE  RunsInv'
<1> DEFINE j == repairer[p].job
           row == [repair[j] EXCEPT !.status = "WAITING_REVIEW", !.repaired = Len(artifact) + 1]
<1>1. /\ repairer[p].phase # "idle" /\ Len(artifact) < ArtifactBound /\ artifact' = Draft(repair[j].case)
      /\ repair' = [repair EXCEPT ![j] = row] /\ repairer' = [repairer EXCEPT ![p] = NoRepairer]
      /\ UNCHANGED <<run, item, scope, runner>>
  BY DEF CompleteRepair
<1>2. j \in DOMAIN repair /\ repair[j] \in RepairRow /\ repair[j].case \in Case
  BY <1>1, RepairerHolds DEF RepairRow
<1>3. /\ artifact' \in Seq(ArtifactRow) /\ Len(artifact') = Len(artifact) + 1 /\ Len(artifact) \in Nat
      /\ Len(artifact') <= ArtifactBound /\ Len(artifact) <= Len(artifact')
      /\ \A a \in 1..Len(artifact) : artifact'[a] = artifact[a]
      /\ artifact'[Len(artifact) + 1] = [case |-> repair[j].case, status |-> "DRAFT"]
      /\ \A d : ApprovedFor(d) \subseteq ApprovedFor(d)'
      /\ \A r : RepairShown(r, artifact) => RepairShown(r, artifact')
  BY <1>1, <1>2, DraftAppended
<1>4. /\ row \in RepairRow /\ row.case = repair[j].case /\ row.item = repair[j].item
      /\ row.status = "WAITING_REVIEW" /\ row.repaired = Len(artifact) + 1
  <2>1. Len(artifact) + 1 \in Nat  BY <1>3
  <2> HIDE DEF j
  <2>2. row \in RepairRow  BY <1>2, <2>1 DEF RepairRow, ActiveRepair
  <2> QED  BY <1>2, <2>2 DEF RepairRow
<1> HIDE DEF row
<1>5. RepairShown(row, artifact')  BY <1>3, <1>4 DEF RepairShown
<1> HIDE DEF j
<1>6. NoRepairer.phase = "idle" /\ DOMAIN NoRepairer = {"phase", "job", "claims"}  BY DEF NoRepairer
<1> QED  BY <1>1, <1>2, <1>3, <1>4, <1>5, <1>6, RepairMoves

-----------------------------------------------------------------------------
(* Theorems.                                                                *)

\* Every step of a run keeps its invariant.
LEMMA RunsStep == RunsInv /\ [RunsNext]_runsVars => RunsInv'
<1> SUFFICES ASSUME RunsInv, [RunsNext]_runsVars PROVE RunsInv'  OBVIOUS
<1>1. CASE \E included \in (SUBSET Case) \ {{}} : Create(included)  BY <1>1, RunIsCreated
<1>2. CASE Request  BY <1>2, RunIsRequested
<1>3. CASE \E c \in Case : Include(c) \/ Exclude(c) \/ Confirm(c)
  BY <1>3, CaseTakenIn, CaseTakenOut, DecisionConfirmed
<1>4. CASE \E w \in Runner : ClaimRun(w) \/ RunnerStep(w) \/ RunnerStops(w)
  <2> PICK w \in Runner : ClaimRun(w) \/ RunnerStep(w) \/ RunnerStops(w)  BY <1>4
  <2>1. CASE RunnerStep(w)  BY <2>1, AttemptLoaded, AttemptSaved, AttemptFails DEF RunnerStep
  <2> QED  BY <2>1, RunIsClaimed, RunnerLeaves
<1>5. CASE \E i \in DOMAIN item : RequestRepair(i) \/ \E v \in Seen : ReviewClassification(i, v)
  BY <1>5, RepairRequested, VerdictReviewed
<1>6. CASE \E c \in Case : SaveArtifact(c)  BY <1>6, ArtifactSaved
<1>7. CASE \E a \in DOMAIN artifact : Reject(a) \/ Approve(a) \/ \E j \in DOMAIN repair : ApproveRepair(a, j)
  BY <1>7, ArtifactRejected, ArtifactApproved, RepairApproved
<1>8. CASE \E p \in Repairer : \/ \E j \in DOMAIN repair : ClaimRepair(p, j)
                               \/ RepairerStep(p)
                               \/ RepairerStops(p)
  <2> PICK p \in Repairer : \/ \E j \in DOMAIN repair : ClaimRepair(p, j)
                            \/ RepairerStep(p)
                            \/ RepairerStops(p)
    BY <1>8
  <2>1. CASE RepairerStep(p)
    BY <2>1, RepairLoaded, RepairCompleted, RepairGivenUp, RepairRetried DEF RepairerStep
  <2> QED  BY <2>1, RepairClaimed, RepairerLeaves
<1>9. CASE UNCHANGED runsVars
  <2>1. UNCHANGED <<run, item, scope, artifact, repair, runner, repairer>>  BY <1>9 DEF runsVars
  <2>2. RunRowsTyped' /\ WorkersTyped'  BY <2>1 DEF RunsInv, RunRowsTyped, WorkersTyped
  <2>3. ArtifactsBound'  BY <2>1, ItemsMove DEF RunsInv, ArtifactsBound, HasVerdict
  <2> QED  BY <2>1, <2>2, <2>3, RunStays DEF RunsInv
<1> QED  BY <1>1, <1>2, <1>3, <1>4, <1>5, <1>6, <1>7, <1>8, <1>9 DEF RunsNext

\* The invariant of runs holds in every behaviour.
LEMMA RunsInvariant == RunsSpec => []RunsInv
BY RunsStart, RunsStep, PTL DEF RunsSpec

\* The rows of runs, items, artifacts and repairs keep their columns, and a
\* repair is never claimed more often than it may be.
THEOREM RunsTyped == RunsSpec => []RunsTypeOK
<1>1. RunsInv => RunsTypeOK
  <2> SUFFICES ASSUME RunsInv PROVE RunsTypeOK  OBVIOUS
  <2>1. \A j \in DOMAIN repair : repair[j] \in RepairRow  BY RepairsShown
  <2> QED  BY <2>1 DEF RunsTypeOK, RepairRow, ArtifactRow, RunsInv, RunRowsTyped, WorkersTyped
<1> QED  BY <1>1, RunsInvariant, PTL

\* The counters of the handlers agree: an attempt that is queued or runs has
\* items, none of them saved yet, unless a reviewer took cases out or in.
THEOREM ClaimsFindItems == RunsSpec => []ClaimFindsItems
<1>1. RunsInv => ClaimFindsItems  BY DEF RunsInv
<1> QED  BY <1>1, RunsInvariant, PTL

\* What runs is what a reviewer approved: items are bound to approved artifacts
\* of their case, and a repair is decided exactly as its artifact is.
THEOREM WhatRunsIsApproved == RunsSpec => []RunsWhatWasApproved
<1>1. RunsInv => RunsWhatWasApproved
  <2> SUFFICES ASSUME RunsInv PROVE RunsWhatWasApproved  OBVIOUS
  <2>1. ASSUME NEW i \in DOMAIN item, item[i].artifact # 0
        PROVE  /\ item[i].artifact \in ApprovedFor(i[1])
               /\ \A j \in DOMAIN repair : repair[j].repaired = item[i].artifact => repair[j].status = "APPROVED"
    <3>1. item[i].artifact \in ApprovedFor(i[1])  BY <2>1 DEF RunsInv, ArtifactsBound
    <3>2. artifact[item[i].artifact].status = "APPROVED"  BY <3>1 DEF ApprovedFor
    <3> QED  BY <2>1, <3>1, <3>2, RepairsShown DEF RepairShown
  <2> QED  BY <2>1, RepairsShown DEF RunsWhatWasApproved, RepairShown
<1> QED  BY <1>1, RunsInvariant, PTL

\* What each step does to a verdict, and to the number of the queued attempt.
VerdictsKept == \A i \in DOMAIN item : item[i].status # "NOT_RUN" =>
    /\ i \in DOMAIN item'
    /\ item'[i].artifact = item[i].artifact
    /\ item'[i].status # item[i].status => run.status # "RUNNING" /\ UNCHANGED <<run, artifact>>
QueuePasses == run.status \in {"PENDING", "RUNNING"} /\ Queued' # Queued =>
    /\ \E w \in Loaded : \A i \in DOMAIN runner[w].pick : item'[i].status # "NOT_RUN"
    /\ \A i \in AttemptItems(Queued) : item'[i].status = "NOT_RUN" => scope[i[1]].manual

\* Only a saved result moves the queue on, when it has a verdict of all items
\* that nobody took in meanwhile.
LEMMA SavePasses ==
  ASSUME RunsInv, NEW w \in Runner, NEW v \in [DOMAIN runner[w].pick -> Seen], NEW d \in BOOLEAN, Save(w, v, d)
  PROVE  VerdictsKept /\ QueuePasses
<1>0. PICK n, pick : n = runner[w].attempt /\ pick = runner[w].pick  OBVIOUS
<1>1. PICK again \in SUBSET DOMAIN pick :
        /\ runner[w].phase = "loaded" /\ run.status = "RUNNING" /\ run.attempt = n
        /\ SavesAs(n, pick, again)
  BY <1>0, SaveWrites
<1>2. /\ DOMAIN item \subseteq DOMAIN item'
      /\ \A i \in DOMAIN pick : i \in DOMAIN item /\ item[i].status = "NOT_RUN" /\ item'[i].status \in Verdict
      /\ \A i \in DOMAIN item : i \notin DOMAIN pick /\ i[2] # n + 1 => item'[i] = item[i]
  BY <1>1 DEF SavesAs
<1>3. n \in Nat /\ Queued = n /\ \A i \in DOMAIN item : i[2] # n + 1
  <2>1. run.attempt \in Nat /\ Queued = run.attempt /\ \A i \in DOMAIN item : i[2] \in 1..Queued
    BY <1>1, Counters
  <2> QED  BY <1>1, <2>1
<1>4. VerdictsKept
  <2>1. \A i \in DOMAIN item : item[i].status # "NOT_RUN" => item'[i] = item[i]  BY <1>2, <1>3
  <2> QED  BY <1>2, <2>1 DEF VerdictsKept
<1>5. w \in Loaded /\ \A i \in DOMAIN runner[w].pick : item'[i].status # "NOT_RUN"
  BY <1>0, <1>1, <1>2 DEF Loaded, Held, Verdict
<1>6. \A i \in AttemptItems(Queued) : item'[i].status = "NOT_RUN" => scope[i[1]].manual
  <2>1. \A i \in AttemptItems(n) \ DOMAIN pick : scope[i[1]].manual
    BY <1>0, <1>1, <1>2 DEF RunsInv, PicksStand
  <2> QED  BY <1>0, <1>3, <1>5, <2>1
<1> QED  BY <1>4, <1>5, <1>6 DEF QueuePasses

\* An approved repair comes after the run has ended.
LEMMA RepairPasses ==
  ASSUME RunsInv, NEW a, NEW j, ApproveRepair(a, j)
  PROVE  VerdictsKept /\ QueuePasses
<1>1. /\ run.status \notin {"PENDING", "RUNNING"}
      /\ item' = [i \in DOMAIN item \cup {<<repair[j].case, LastAttempt + 1>>} |->
                    IF i = <<repair[j].case, LastAttempt + 1>> THEN [status |-> "NOT_RUN", artifact |-> a] ELSE item[i]]
  BY DEF ApproveRepair, Requeueable
<1>2. \A i \in DOMAIN item : i # <<repair[j].case, LastAttempt + 1>>
  <2>1. LastAttempt \in Int /\ \A i \in DOMAIN item : i[2] <= LastAttempt  BY LastAttemptIs, Counters
  <2>2. \A i \in DOMAIN item : i[2] # LastAttempt + 1
    <3> TAKE i \in DOMAIN item
    <3>1. i[2] \in Int /\ i[2] <= LastAttempt  BY <2>1, Counters
    <3> QED  BY <2>1, <3>1
  <2> QED  BY <2>2
<1> QED  BY <1>1, <1>2 DEF VerdictsKept, QueuePasses

\* Every step keeps the verdicts and passes over no queued item.
LEMMA RunsPass == RunsInv /\ [RunsNext]_runsVars => VerdictsKept /\ QueuePasses
<1> SUFFICES ASSUME RunsInv, [RunsNext]_runsVars PROVE VerdictsKept /\ QueuePasses  OBVIOUS
<1>a. ASSUME UNCHANGED item, run'.status = run.status, run'.attempt = run.attempt
      PROVE  VerdictsKept /\ QueuePasses
  BY <1>a DEF VerdictsKept, QueuePasses, Queued
<1>1. CASE \E included \in (SUBSET Case) \ {{}} : Create(included)
  <2>1. run.status = "NONE" /\ DOMAIN item = {}  BY <1>1 DEF Create, RunsInv, AttemptsCounted
  <2> QED  BY <2>1 DEF VerdictsKept, QueuePasses
<1>2. CASE Request
  <2>1. UNCHANGED item /\ run'.status = run.status /\ run'.attempt = run.attempt
    BY <1>2 DEF Request, RunsInv, RunRowsTyped
  <2> QED  BY <1>a, <2>1
<1>3. CASE \E c \in Case : Include(c) \/ Exclude(c) \/ Confirm(c)
  <2>1. UNCHANGED run /\ \A i \in DOMAIN item : item[i].status # "NOT_RUN" => i \in DOMAIN item' /\ item'[i] = item[i]
    BY <1>3 DEF Include, Exclude, Removable, Confirm
  <2> QED  BY <2>1 DEF VerdictsKept, QueuePasses, Queued
<1>4. CASE \E w \in Runner : ClaimRun(w) \/ RunnerStep(w) \/ RunnerStops(w)
  <2> PICK w \in Runner : ClaimRun(w) \/ RunnerStep(w) \/ RunnerStops(w)  BY <1>4
  <2>1. CASE ClaimRun(w)
    <3>1. /\ UNCHANGED item /\ run.status = "PENDING" /\ run'.status = "RUNNING" /\ run'.attempt = run.attempt + 1
      BY <2>1 DEF ClaimRun, Startable, RunsInv, RunRowsTyped
    <3>2. Queued' = Queued  BY <3>1, Counters DEF Queued
    <3> QED  BY <3>1, <3>2 DEF VerdictsKept, QueuePasses
  <2>2. CASE RetryOrFail(w)
    <3>1. UNCHANGED item  BY <2>2 DEF RetryOrFail
    <3>2. Queued' = Queued
      <4>1. run \in [status : {"NONE", "PENDING", "RUNNING", "COMPLETED", "FAILED"},
                     requested : BOOLEAN, attempt : Nat]
        BY DEF RunsInv, RunRowsTyped
      <4>2. CASE run' = run  BY <4>2 DEF Queued
      <4>3. CASE run' = [run EXCEPT !.status = "PENDING", !.attempt = run.attempt - 1] /\ run.status = "RUNNING"
        <5>1. run'.status = "PENDING" /\ run'.attempt = run.attempt - 1 /\ run.attempt \in Nat  BY <4>1, <4>3
        <5> QED  BY <4>3, <5>1 DEF Queued
      <4>4. CASE run' = [run EXCEPT !.status = "FAILED"] /\ run.status = "RUNNING"
        <5>1. run'.status = "FAILED" /\ run'.attempt = run.attempt  BY <4>1, <4>4
        <5> QED  BY <4>4, <5>1 DEF Queued
      <4> QED  BY <2>2, <4>2, <4>3, <4>4 DEF RetryOrFail, Held, GivenBack
    <3> QED  BY <3>1, <3>2 DEF VerdictsKept, QueuePasses
  <2>3. CASE LoadAttempt(w) \/ RunnerStops(w)
    <3>1. UNCHANGED <<item, run>>  BY <2>3 DEF LoadAttempt, RunnerStops
    <3> QED  BY <1>a, <3>1
  <2> QED  BY <2>1, <2>2, <2>3, SavePasses DEF RunnerStep
<1>5. CASE \E i \in DOMAIN item : RequestRepair(i) \/ \E v \in Seen : ReviewClassification(i, v)
  <2> PICK i \in DOMAIN item : RequestRepair(i) \/ \E v \in Seen : ReviewClassification(i, v)  BY <1>5
  <2>1. CASE RequestRepair(i)
    <3>1. UNCHANGED <<item, run>>  BY <2>1 DEF RequestRepair
    <3> QED  BY <1>a, <3>1
  <2>2. CASE \E v \in Seen : ReviewClassification(i, v)
    <3> PICK v \in Seen : ReviewClassification(i, v)  BY <2>2
    <3>1. /\ run.status # "RUNNING" /\ UNCHANGED <<run, artifact>>
          /\ item' = [item EXCEPT ![i].status = v]
      BY DEF ReviewClassification, Reclassifiable
    <3>2. \A k \in DOMAIN item : k \in DOMAIN item' /\ item'[k].artifact = item[k].artifact
      BY <3>1, Counters DEF Item
    <3>3. Queued' = Queued  BY <3>1 DEF Queued
    <3> QED  BY <3>1, <3>2, <3>3 DEF VerdictsKept, QueuePasses
  <2> QED  BY <2>1, <2>2
<1>6. CASE \E c \in Case : SaveArtifact(c)
  <2>1. UNCHANGED <<item, run>>  BY <1>6 DEF SaveArtifact
  <2> QED  BY <1>a, <2>1
<1>7. CASE \E a \in DOMAIN artifact : Reject(a) \/ Approve(a) \/ \E j \in DOMAIN repair : ApproveRepair(a, j)
  <2> PICK a \in DOMAIN artifact : Reject(a) \/ Approve(a) \/ \E j \in DOMAIN repair : ApproveRepair(a, j)
    BY <1>7
  <2>1. CASE Reject(a) \/ Approve(a)
    <3>1. UNCHANGED item /\ (run' = run \/ run' = [run EXCEPT !.requested = TRUE])  BY <2>1 DEF Reject, Approve
    <3>2. run'.status = run.status /\ run'.attempt = run.attempt  BY <3>1 DEF RunsInv, RunRowsTyped
    <3> QED  BY <1>a, <3>1, <3>2
  <2> QED  BY <2>1, RepairPasses
<1>8. CASE \E p \in Repairer : \/ \E j \in DOMAIN repair : ClaimRepair(p, j)
                               \/ RepairerStep(p)
                               \/ RepairerStops(p)
  <2>1. UNCHANGED <<item, run>>
    BY <1>8 DEF ClaimRepair, RepairerStep, RepairerStops, LoadRepairSubject, CompleteRepair,
                MarkRepairUnrepairable, RetryOrFailRepair
  <2> QED  BY <1>a, <2>1
<1>9. CASE UNCHANGED runsVars
  <2>1. UNCHANGED <<item, run>>  BY <1>9 DEF runsVars
  <2> QED  BY <1>a, <2>1
<1> QED  BY <1>1, <1>2, <1>3, <1>4, <1>5, <1>6, <1>7, <1>8, <1>9 DEF RunsNext

\* A verdict is changed by a reviewer only, while no worker runs, and never
\* comes to name another artifact.
THEOREM VerdictsStayFinal == RunsSpec => VerdictsAreFinal
<1>1. RunsInv /\ [RunsNext]_runsVars =>
        [\A i \in DOMAIN item : item[i].status # "NOT_RUN" =>
            /\ i \in DOMAIN item'
            /\ item'[i].artifact = item[i].artifact
            /\ item'[i].status # item[i].status => run.status # "RUNNING" /\ UNCHANGED <<run, artifact>>]_runsVars
  BY RunsPass DEF VerdictsKept
<1> QED  BY <1>1, RunsInvariant, PTL DEF RunsSpec, VerdictsAreFinal

\* The run moves on to a later attempt only when a worker has saved a verdict
\* of all it had loaded, and no other item of the attempt is left but what a
\* reviewer took in: no queued item is passed over.
THEOREM QueuedItemsAreExecuted == RunsSpec => QueuedIsExecuted
<1>1. RunsInv /\ [RunsNext]_runsVars =>
        [run.status \in {"PENDING", "RUNNING"} /\ Queued' # Queued =>
            /\ \E w \in Loaded : \A i \in DOMAIN runner[w].pick : item'[i].status # "NOT_RUN"
            /\ \A i \in AttemptItems(Queued) : item'[i].status = "NOT_RUN" => scope[i[1]].manual]_runsVars
  BY RunsPass DEF QueuePasses
<1> QED  BY <1>1, RunsInvariant, PTL DEF RunsSpec, QueuedIsExecuted

-----------------------------------------------------------------------------
(* Verdicts. *)

\* A verdict is the one that the outcome of the execution gets; an artifact
\* counts the words of the one that was first approved.
Repairing == [declared : [1..2 -> Text], assertions : Texts, code : Code, maxCost : 0..1,
              verdict : {"RUNNING", "WAITING_REVIEW", "UNREPAIRABLE"}]
VerdictFollows ==
    \/ /\ judged \in [reach : Reach, baseline : Signals, test : Signals, verdict : {judged.verdict}]
       /\ judged.verdict \in {"NOT_RUN", ExecuteOne(judged.reach, judged.baseline, judged.test)}
    \/ judged \in Repairing /\ SameSemanticAssertions(judged.declared, judged.assertions)

\* How often a word occurs in two assertions, and in one.
LEMMA WordsOfTwo ==
  ASSUME NEW s \in [1..2 -> Text], NEW w \in {"a", "b"}
  PROVE  NormalizedAssertions(s)[w] =
            (IF s[1].word = w THEN 1 ELSE 0) + (IF s[2].word = w THEN 1 ELSE 0)
<1> DEFINE found == {k \in DOMAIN s : s[k].word = w}
<1>1. NormalizedAssertions(s)[w] = Cardinality(found)  BY DEF NormalizedAssertions
<1>2. \A k \in DOMAIN s : k = 1 \/ k = 2  OBVIOUS
<1>3. 1 \in DOMAIN s /\ 2 \in DOMAIN s  OBVIOUS
<1>4. CASE s[1].word = w /\ s[2].word = w
  <2>1. found = {1, 2}  BY <1>2, <1>3, <1>4
  <2>2. IsFiniteSet({1}) /\ Cardinality({1}) = 1  BY FS_Singleton
  <2>3. Cardinality({1} \cup {2}) = 2  BY <2>2, FS_AddElement
  <2>4. {1, 2} = {1} \cup {2}  OBVIOUS
  <2> QED  BY <1>1, <1>4, <2>1, <2>3, <2>4
<1>5. CASE s[1].word = w /\ s[2].word # w
  <2>1. found = {1}  BY <1>2, <1>3, <1>5
  <2>2. Cardinality({1}) = 1  BY FS_Singleton
  <2> QED  BY <1>1, <1>5, <2>1, <2>2
<1>6. CASE s[1].word # w /\ s[2].word = w
  <2>1. found = {2}  BY <1>2, <1>3, <1>6
  <2>2. Cardinality({2}) = 1  BY FS_Singleton
  <2> QED  BY <1>1, <1>6, <2>1, <2>2
<1>7. CASE s[1].word # w /\ s[2].word # w
  <2>1. found = {}  BY <1>2, <1>3, <1>7
  <2>2. Cardinality({}) = 0  BY FS_EmptySet
  <2> QED  BY <1>1, <1>7, <2>1, <2>2
<1> QED  BY <1>4, <1>5, <1>6, <1>7

\* The same of a single assertion.
LEMMA WordsOfOne ==
  ASSUME NEW s \in [1..1 -> Text], NEW w \in {"a", "b"}
  PROVE  NormalizedAssertions(s)[w] = IF s[1].word = w THEN 1 ELSE 0
<1> DEFINE found == {k \in DOMAIN s : s[k].word = w}
<1>1. NormalizedAssertions(s)[w] = Cardinality(found)  BY DEF NormalizedAssertions
<1>2. \A k \in DOMAIN s : k = 1  OBVIOUS
<1>3. 1 \in DOMAIN s  OBVIOUS
<1>4. CASE s[1].word = w
  <2>1. found = {1}  BY <1>2, <1>3, <1>4
  <2>2. Cardinality({1}) = 1  BY FS_Singleton
  <2> QED  BY <1>1, <1>4, <2>1, <2>2
<1>5. CASE s[1].word # w
  <2>1. found = {}  BY <1>2, <1>3, <1>5
  <2>2. Cardinality({}) = 0  BY FS_EmptySet
  <2> QED  BY <1>1, <1>5, <2>1, <2>2
<1> QED  BY <1>4, <1>5

\* Two assertions that count the same words as others are those, in some order.
LEMMA SameWords ==
  ASSUME NEW before \in [1..2 -> Text], NEW after \in [1..2 -> Text] \cup [1..1 -> Text],
         SameSemanticAssertions(before, after)
  PROVE  /\ DOMAIN after = 1..2
         /\ \E p \in [1..2 -> 1..2] : p[1] # p[2] /\ \A k \in 1..2 : before[k].word = after[p[k]].word
<1>1. \A w \in {"a", "b"} : NormalizedAssertions(before)[w] = NormalizedAssertions(after)[w]
  BY DEF SameSemanticAssertions
<1>2. before[1].word \in {"a", "b"} /\ before[2].word \in {"a", "b"}  BY DEF Text
<1>3. CASE after \in [1..1 -> Text]
  <2>1. after[1].word \in {"a", "b"}  BY <1>3 DEF Text
  <2>2. \A w \in {"a", "b"} : (IF before[1].word = w THEN 1 ELSE 0) + (IF before[2].word = w THEN 1 ELSE 0)
                              = IF after[1].word = w THEN 1 ELSE 0
    BY <1>1, <1>3, WordsOfTwo, WordsOfOne
  <2> QED  BY <1>2, <2>1, <2>2
<1>4. CASE after \in [1..2 -> Text]
  <2>1. after[1].word \in {"a", "b"} /\ after[2].word \in {"a", "b"}  BY <1>4 DEF Text
  <2>2. \A w \in {"a", "b"} : (IF before[1].word = w THEN 1 ELSE 0) + (IF before[2].word = w THEN 1 ELSE 0)
                              = (IF after[1].word = w THEN 1 ELSE 0) + (IF after[2].word = w THEN 1 ELSE 0)
    BY <1>1, <1>4, WordsOfTwo
  <2>3. \/ before[1].word = after[1].word /\ before[2].word = after[2].word
        \/ before[1].word = after[2].word /\ before[2].word = after[1].word
    BY <1>2, <2>1, <2>2
  <2>4. \A k \in 1..2 : k = 1 \/ k = 2  OBVIOUS
  <2>5. CASE before[1].word = after[1].word /\ before[2].word = after[2].word
    <3>1. PICK p : p = [k \in 1..2 |-> k]  OBVIOUS
    <3>2. p \in [1..2 -> 1..2] /\ p[1] = 1 /\ p[2] = 2  BY <3>1
    <3>3. p[1] # p[2] /\ \A k \in 1..2 : before[k].word = after[p[k]].word  BY <2>4, <2>5, <3>2
    <3> QED  BY <1>4, <3>2, <3>3
  <2>6. CASE before[1].word = after[2].word /\ before[2].word = after[1].word
    <3>1. PICK p : p = [k \in 1..2 |-> 3 - k]  OBVIOUS
    <3>2. p \in [1..2 -> 1..2] /\ p[1] = 2 /\ p[2] = 1  BY <3>1
    <3>3. p[1] # p[2] /\ \A k \in 1..2 : before[k].word = after[p[k]].word  BY <2>4, <2>6, <3>2
    <3> QED  BY <1>4, <3>2, <3>3
  <2> QED  BY <2>3, <2>5, <2>6
<1> QED  BY <1>3, <1>4

\* What executions answer is none of the statuses of a repair.
LEMMA ItemsAreExecuted ==
  ASSUME VerdictFollows, judged.verdict \in {"RUNNING", "WAITING_REVIEW", "UNREPAIRABLE"}
  PROVE  judged \in Repairing /\ SameSemanticAssertions(judged.declared, judged.assertions)
BY DEF VerdictFollows, ExecuteOne, BaselineVerdict, Classify

\* What is printed and what is declared decide: no product failure is read from
\* other output, and no sequence of repairs changes what a test declares.
THEOREM VerdictsKeepToTexts == VerdictSpec => []VerdictsFollowTexts
<1>1. VerdictInit => VerdictFollows
  <2> SUFFICES ASSUME VerdictInit PROVE VerdictFollows  OBVIOUS
  <2>1. CASE judged \in Executed  BY <2>1 DEF Executed, VerdictFollows
  <2>2. CASE judged \in Repaired
    <3>1. PICK a \in [1..2 -> Text], c \in 0..1 :
             judged = [declared |-> a, assertions |-> a, code |-> "original", maxCost |-> c, verdict |-> "RUNNING"]
      BY <2>2 DEF Repaired
    <3>2. judged \in Repairing  BY <3>1 DEF Repairing, Texts, Code
    <3>3. SameSemanticAssertions(judged.declared, judged.assertions)  BY <3>1 DEF SameSemanticAssertions
    <3> QED  BY <3>2, <3>3 DEF VerdictFollows
  <2> QED  BY <2>1, <2>2 DEF VerdictInit
<1>2. VerdictFollows /\ [VerdictNext]_judged => VerdictFollows'
  <2> SUFFICES ASSUME VerdictFollows, [VerdictNext]_judged PROVE VerdictFollows'  OBVIOUS
  <2>1. CASE ProcessItem
    <3>1. judged \in [reach : Reach, baseline : Signals, test : Signals, verdict : {judged.verdict}]
      BY <2>1 DEF ProcessItem, VerdictFollows, Repairing
    <3>2. PICK v : v = ExecuteOne(judged.reach, judged.baseline, judged.test)  OBVIOUS
    <3>3. judged' = [judged EXCEPT !.verdict = v]  BY <2>1, <3>2 DEF ProcessItem
    <3>4. /\ judged'.verdict = v /\ judged'.reach = judged.reach /\ judged'.baseline = judged.baseline
          /\ judged'.test = judged.test
          /\ judged' \in [reach : Reach, baseline : Signals, test : Signals, verdict : {v}]
      BY <3>1, <3>3
    <3> QED  BY <3>2, <3>4 DEF VerdictFollows
  <2>2. CASE ProcessRepair
    <3>1. judged \in Repairing /\ SameSemanticAssertions(judged.declared, judged.assertions)
      BY <2>2, ItemsAreExecuted DEF ProcessRepair
    <3>2. PICK answer \in Answer :
             judged' = IF RepairOutcome(judged, answer) = "WAITING_REVIEW"
                       THEN [judged EXCEPT !.verdict = "WAITING_REVIEW", !.assertions = answer.assertions,
                                           !.code = answer.code]
                       ELSE [judged EXCEPT !.verdict = "UNREPAIRABLE"]
      BY <2>2 DEF ProcessRepair
    <3>3. CASE RepairOutcome(judged, answer) = "WAITING_REVIEW"
      <4>1. SameSemanticAssertions(judged.assertions, answer.assertions)  BY <3>3 DEF RepairOutcome
      <4>2. answer.assertions \in Texts /\ answer.code \in Code  BY <3>2 DEF Answer
      <4>3. judged' = [judged EXCEPT !.verdict = "WAITING_REVIEW", !.assertions = answer.assertions,
                                     !.code = answer.code]
        BY <3>2, <3>3
      <4>4. /\ judged' \in Repairing /\ judged'.declared = judged.declared
            /\ judged'.assertions = answer.assertions
        BY <3>1, <4>2, <4>3 DEF Repairing
      <4> QED  BY <3>1, <4>1, <4>4 DEF VerdictFollows, SameSemanticAssertions
    <3>4. CASE RepairOutcome(judged, answer) # "WAITING_REVIEW"
      <4>1. judged' \in Repairing /\ judged'.declared = judged.declared /\ judged'.assertions = judged.assertions
        BY <3>1, <3>2, <3>4 DEF Repairing
      <4> QED  BY <3>1, <4>1 DEF VerdictFollows
    <3> QED  BY <3>3, <3>4
  <2>3. CASE RequestRepairAgain
    <3>1. judged \in Repairing /\ SameSemanticAssertions(judged.declared, judged.assertions)
      BY <2>3, ItemsAreExecuted DEF RequestRepairAgain
    <3>2. judged' \in Repairing /\ judged'.declared = judged.declared /\ judged'.assertions = judged.assertions
      BY <2>3, <3>1 DEF RequestRepairAgain, Repairing
    <3> QED  BY <3>1, <3>2 DEF VerdictFollows
  <2>4. CASE UNCHANGED judged  BY <2>4 DEF VerdictFollows
  <2> QED  BY <2>1, <2>2, <2>3, <2>4 DEF VerdictNext
<1>3. VerdictFollows => ProductFailureIsRead
  <2> SUFFICES ASSUME VerdictFollows, judged.verdict = "PRODUCT_FAILED" PROVE ProductFailureIsRead  BY DEF ProductFailureIsRead
  <2>1. /\ judged.reach \in Reach /\ judged.verdict = ExecuteOne(judged.reach, judged.baseline, judged.test)
    BY DEF VerdictFollows, Repairing
  <2>2. /\ BaselineVerdict(judged.baseline) = "PASSED" /\ judged.reach = "ran"
        /\ Classify(judged.test, TRUE, TRUE) = "PRODUCT_FAILED"
    BY <2>1 DEF ExecuteOne, Reach
  <2>3. judged.baseline.zero /\ ~judged.baseline.timedOut  BY <2>2 DEF BaselineVerdict, Classify
  <2>4. /\ ~judged.test.timedOut /\ ~judged.test.zero
        /\ "assertion" \in judged.test.output /\ judged.test.output \cap {"infra", "build"} = {}
    BY <2>2 DEF Classify
  <2> QED  BY <2>2, <2>3, <2>4 DEF ProductFailureIsRead
<1>4. VerdictFollows => RepairsKeepDeclarations
  <2> SUFFICES ASSUME VerdictFollows, judged.verdict \in {"RUNNING", "WAITING_REVIEW", "UNREPAIRABLE"}
               PROVE  /\ DOMAIN judged.assertions = 1..2
                      /\ \E p \in [1..2 -> 1..2] :
                            /\ p[1] # p[2]
                            /\ \A k \in 1..2 : judged.declared[k].word = judged.assertions[p[k]].word
    BY DEF RepairsKeepDeclarations
  <2>1. judged \in Repairing /\ SameSemanticAssertions(judged.declared, judged.assertions)
    BY ItemsAreExecuted
  <2>2. PICK before, after : before = judged.declared /\ after = judged.assertions  OBVIOUS
  <2>3. /\ before \in [1..2 -> Text] /\ after \in [1..2 -> Text] \cup [1..1 -> Text]
        /\ SameSemanticAssertions(before, after)
    BY <2>1, <2>2 DEF Repairing, Texts
  <2>4. /\ DOMAIN after = 1..2
        /\ \E p \in [1..2 -> 1..2] : p[1] # p[2] /\ \A k \in 1..2 : before[k].word = after[p[k]].word
    BY <2>3, SameWords
  <2> QED  BY <2>2, <2>4
<1> QED  BY <1>1, <1>2, <1>3, <1>4, PTL DEF VerdictSpec, VerdictsFollowTexts

-----------------------------------------------------------------------------
(* The modules side by side.                                                *)

\* A behaviour of the run of these modules is a behaviour of each: the one that
\* is chosen takes the steps, the others stay where they start.
LEMMA PartsAreBehaviours == TestsSpec => RunsSpec /\ ReviewSpec /\ CatalogSpec
<1>1. TestsInit => RunsInit /\ ReviewInit /\ CatalogInit  BY DEF TestsInit
<1>2. ASSUME [TestsNext]_<<part, runsVars, judged, reviewVars, catalogVars, vars>>
      PROVE  [RunsNext]_runsVars /\ [ReviewNext]_reviewVars /\ [CatalogNext]_catalogVars
  BY <1>2 DEF TestsNext, RunsPart, VerdictPart, ReviewPart, CatalogPart, LanesPart
<1> QED  BY <1>1, <1>2, PTL DEF TestsSpec, RunsSpec, ReviewSpec, CatalogSpec

\* The types of all tables from requirements to test runs (execution,
\* automation, requirement, testcase).
THEOREM TestsTyped == TestsSpec => []TestsTypeOK
<1>1. RunsTypeOK /\ ReviewTypeOK /\ CatalogTypeOK => TestsTypeOK  BY DEF TestsTypeOK
<1> QED  BY <1>1, PartsAreBehaviours, RunsTyped, ReviewTyped, CatalogTyped, PTL
=============================================================================
