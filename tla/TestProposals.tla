--------------------------- MODULE TestProposals ---------------------------
(***************************************************************************)
(* Generation proposals on top of TestCatalog: what a generation job covers  *)
(* (GenerationScope, PinProposalTargets), what it makes of its outputs       *)
(* (GeneratePinned, saveProposals, classifyProposal) and what reviewers      *)
(* decide about it (decideProposal), while editors go on replacing heads,    *)
(* families are archived and sources change.                                 *)
(*                                                                           *)
(* A job is reduced to its status, its units and what it pinned; how it      *)
(* gets there, with leases, retries and cancels, is WorkflowQueue, and FAILED *)
(* stands for CANCELED as well.  Whether the context of a generation is the  *)
(* one recorded with a head is a choice.  Left out: jobs from before units,  *)
(* and a set that is archived, which refuses outputs and decisions.          *)
(***************************************************************************)
EXTENDS TestCatalog, SequencesExt

CONSTANTS
    GenerationJob,   \* jobs that generate test cases
    Command,         \* idempotency keys of decisions
    Lineage,         \* pairs (requirement, the one it supersedes or is compared to)
    OutputBound,     \* bound on the outputs of a unit
    Generated        \* contents the suite has from an earlier generation

ASSUME ProposalsAssumption == Generated \in Seq(Content)

VARIABLES
    removed,      \* requirements of source_state REMOVED
    generation,   \* document_workflow_jobs of GENERATE_TESTCASES
    proposal,     \* test_case_generation_proposals, by id
    command       \* test_case_proposal_commands

proposalVars == <<removed, generation, proposal, command>>

NoJobYet == [status |-> "NONE", sources |-> 0, targets |-> {}, units |-> {}, saved |-> {}]
NoCommand == [proposal |-> 0, decision |-> "NONE", family |-> 0]
Heads == {[family |-> f, head |-> family[f].head] : f \in {g \in DOMAIN family : ~family[g].archived}}

\* One generated draft in each family, and approved requirements.
ProposalsInit ==
    /\ standing = [q \in Requirement |-> "APPROVED"]
    /\ family = [f \in DOMAIN Generated |-> [archived |-> FALSE, head |-> f]]
    /\ caseRevision = [r \in DOMAIN Generated |-> [family |-> r, version |-> 1, content |-> Generated[r],
                          parent |-> 0, restored |-> 0, status |-> "DRAFT"]]
    /\ sources = 0 /\ changes = 0 /\ release = << >>
    /\ edited = [e \in Editor |-> 0]
    /\ editor = [e \in Editor |-> NoEdit]
    /\ publisher = [p \in Publisher |-> NoPublication]
    /\ removed = {}
    /\ generation = [j \in GenerationJob |-> NoJobYet]
    /\ proposal = << >>
    /\ command = [k \in Command |-> NoCommand]

-----------------------------------------------------------------------------
(* The job. *)

\* A requirement is generated for when it is approved and nothing blocks it; it
\* is affected when no head is linked to it, or one that is linked to another
\* requirement which is no longer current.  What is unclear is taken as current.
Eligible == {q \in Requirement : standing[q] = "APPROVED"}
Current(q) == q \notin removed /\ standing[q] # "SUPERSEDED"
LinksOf(t) == caseRevision[t.head].content.links
Affected == {q \in Eligible :
    LET covering == {t \in Heads : q \in LinksOf(t)}
    IN  covering = {} \/ \E t \in covering : \E o \in LinksOf(t) : ~Current(o)}
SourcesRemoved(links) == links \subseteq removed
RemovedFamilies == {t \in Heads : SourcesRemoved(LinksOf(t))}

\* Scope and targets are frozen with the job; a set has one such job at a time.
\* Only a job over all or the affected cases proposes to retire some: what a
\* selection leaves out is not removed.
Scoped(scope, selected) ==
    CASE scope = "SELECTED" -> selected [] scope = "AFFECTED" -> Affected [] scope = "ALL" -> Eligible
NoneRunning == \A i \in GenerationJob : generation[i].status # "RUNNING"
StartJob(j, scope, selected) ==
    /\ generation[j].status = "NONE"
    /\ NoneRunning
    /\ selected \subseteq Eligible
    /\ Scoped(scope, selected) # {} \/ (scope # "SELECTED" /\ RemovedFamilies # {})
    /\ generation' = [generation EXCEPT ![j] =
          [status |-> "RUNNING", sources |-> sources, targets |-> Heads, saved |-> {},
           units |-> Scoped(scope, selected) \cup IF scope = "SELECTED" THEN {} ELSE {"retire"}]]
    /\ UNCHANGED <<catalogVars, removed, proposal, command>>

Related(a, b) == \E x \in a, y \in b : x = y \/ <<x, y>> \in Lineage
\* The kinds an output can be given, and the targets that it is offered for.
Exact(j, content) == {t \in generation[j].targets : caseRevision[t.head].content = content}
Linked(j, content) ==
    {t \in generation[j].targets : Related(content.links, caseRevision[t.head].content.links)}
Classify(j, content) ==
    LET exact == Exact(j, content)
        linked == IF exact = {} THEN Linked(j, content) ELSE exact
    IN  CASE Cardinality(exact) = 1 -> {"UNCHANGED", "NEW_REVISION"} \X {exact}
          [] Cardinality(exact) # 1 /\ linked # {} -> {<<"AMBIGUOUS_MATCH", linked>>}
          [] OTHER -> {<<"NEW_CASE", {}>>}

Proposal(j, content, kind, candidates) ==
    [job |-> j, content |-> content, kind |-> kind, candidates |-> candidates,
     status |-> "PENDING", decision |-> "NONE", family |-> 0, result |-> 0]
Retirements(j) ==
    {Proposal(j, caseRevision[t.head].content, "RETIRE_CANDIDATE", {t}) :
        t \in {h \in generation[j].targets : SourcesRemoved(LinksOf(h))}}

\* loadGenerationBaseline, before the generator is called.
Loaded(q) == Unblocked({q})
\* What the generator makes of a requirement is linked to this one only, and
\* what it says twice is dropped.
OutputsOf(j, q) ==
    UNION {{Proposal(j, c, k[1], k[2]) : k \in Classify(j, c)} : c \in {x \in Content : x.links = {q}}}
SaveProposals(j, u, outputs) ==
    /\ generation[j].status = "RUNNING"
    /\ u \in generation[j].units \ generation[j].saved
    /\ sources = generation[j].sources
    /\ \/ u = "retire" /\ outputs = Retirements(j)
       \/ /\ u # "retire" /\ Loaded(u)
          /\ outputs \subseteq OutputsOf(j, u)
          /\ IsFiniteSet(outputs) /\ Cardinality(outputs) \in 1..OutputBound
          /\ \A a, b \in outputs : a.content = b.content => a = b
    /\ proposal' = proposal \o SetToSeq(outputs)
    /\ generation' = [generation EXCEPT ![j].saved = @ \cup {u}]
    /\ UNCHANGED <<catalogVars, removed, command>>

\* A job whose units did not all succeed keeps what the others saved, and may be
\* retried for the rest.
EndJob(j, status) ==
    /\ generation[j].status = "RUNNING"
    /\ CASE status = "SUCCEEDED" -> generation[j].saved = generation[j].units
         [] status = "PARTIAL_FAILED" -> generation[j].saved \notin {{}, generation[j].units}
         [] status = "FAILED" -> TRUE
    /\ generation' = [generation EXCEPT ![j].status = status]
    /\ UNCHANGED <<catalogVars, removed, proposal, command>>
RetryJob(j) ==
    /\ generation[j].status \in {"PARTIAL_FAILED", "FAILED"}
    /\ NoneRunning
    /\ generation' = [generation EXCEPT ![j].status = "RUNNING"]
    /\ UNCHANGED <<catalogVars, removed, proposal, command>>

\* A comparison of sources no longer finds the requirement.
LoseSource(q) ==
    /\ Changes
    /\ standing[q] \in {"APPROVED", "UNCLEAR"}
    /\ standing' = [standing EXCEPT ![q] = "UNCLEAR"]
    /\ removed' = removed \cup {q}
    /\ UNCHANGED <<sources, family, caseRevision, edited, release, editor, publisher, generation, proposal, command>>

-----------------------------------------------------------------------------
(* The decision. *)

\* Successful units within partial jobs are reviewable.
Decidable(j) == generation[j].status \in {"SUCCEEDED", "PARTIAL_FAILED"}

\* The family is what the job pinned; a head replaced since is a conflict.
AsPinned_Open(t) == ~family[t.family].archived
AsPinned(t) == ~family[t.family].archived /\ family[t.family].head = t.head

Archived(p, t) ==
    /\ proposal[p].kind = "RETIRE_CANDIDATE"
    /\ SourcesRemoved(proposal[p].content.links)
    /\ family' = [family EXCEPT ![t.family].archived = TRUE]
    /\ UNCHANGED caseRevision
Kept(p) ==
    /\ proposal[p].kind = "UNCHANGED"
    /\ Unblocked(proposal[p].content.links)
    /\ UNCHANGED <<family, caseRevision>>
Revised(p, t) ==
    /\ proposal[p].kind \in {"NEW_REVISION", "AMBIGUOUS_MATCH"}
    /\ Unblocked(proposal[p].content.links)
    /\ InsertRevision(t.family, proposal[p].content, t.head, 0)
    /\ family' = [family EXCEPT ![t.family].head = Len(caseRevision) + 1]
Created(p) ==
    /\ proposal[p].kind \in {"NEW_CASE", "AMBIGUOUS_MATCH"}
    /\ Unblocked(proposal[p].content.links)
    /\ ~\E t \in Heads : caseRevision[t.head].content = proposal[p].content
    /\ Len(family) < FamilyBound
    /\ InsertRevision(Len(family) + 1, proposal[p].content, 0, 0)
    /\ family' = Append(family, [archived |-> FALSE, head |-> Len(caseRevision) + 1])

\* The answer is stored with the command, under its key: a repetition is given
\* it back, and another decision under the same key is refused.
Decided(k, p, decision, f, status, result) ==
    /\ command' = [command EXCEPT ![k] = [proposal |-> p, decision |-> decision, family |-> f]]
    /\ proposal' = [proposal EXCEPT ![p] =
          [@ EXCEPT !.status = status, !.decision = decision, !.family = f, !.result = result]]

Pending_Any(p) == proposal[p].status # "DISMISSED"
Pending(p) == proposal[p].status = "PENDING"
Dismiss(k, p) ==
    /\ command[k] = NoCommand
    /\ Pending(p)
    /\ Decided(k, p, "DISMISS", 0, "DISMISSED", 0)
    /\ UNCHANGED <<catalogVars, removed, generation>>

Apply(k, p, decision, t) ==
    LET new == Len(caseRevision) + 1 IN
    /\ command[k] = NoCommand
    /\ Pending(p)
    /\ Decidable(proposal[p].job)
    /\ sources = generation[proposal[p].job].sources
    /\ AsPinned(t)
    /\ \/ decision = "ARCHIVE" /\ Archived(p, t) /\ Decided(k, p, decision, t.family, "APPLIED", t.head)
       \/ decision = "KEEP" /\ Kept(p) /\ Decided(k, p, decision, t.family, "APPLIED", t.head)
       \/ decision = "REVISE" /\ Revised(p, t) /\ Decided(k, p, decision, t.family, "APPLIED", new)
    /\ UNCHANGED <<standing, sources, changes, edited, release, editor, publisher, removed, generation>>

CreateNew(k, p) ==
    /\ command[k] = NoCommand
    /\ Pending(p)
    /\ Decidable(proposal[p].job)
    /\ sources = generation[proposal[p].job].sources
    /\ Created(p)
    /\ Decided(k, p, "CREATE_NEW", 0, "APPLIED", Len(caseRevision) + 1)
    /\ UNCHANGED <<standing, sources, changes, edited, release, editor, publisher, removed, generation>>

-----------------------------------------------------------------------------
\* A removed requirement does not come back.  Reviews of revisions are left to
\* TestCatalog: only releases read what they decide.
CatalogMoves ==
    /\ CatalogNext
    /\ \A q \in removed : standing'[q] = standing[q]
    /\ \A r \in DOMAIN caseRevision : caseRevision'[r] = caseRevision[r]
    /\ UNCHANGED proposalVars
ProposalsNext ==
    \/ CatalogMoves
    \/ \E q \in Requirement : LoseSource(q)
    \/ \E j \in GenerationJob :
          \/ \E scope \in {"ALL", "AFFECTED"} : StartJob(j, scope, {})
          \/ \E selected \in SUBSET Requirement : StartJob(j, "SELECTED", selected)
          \/ \E q \in Requirement : \E outputs \in SUBSET OutputsOf(j, q) : SaveProposals(j, q, outputs)
          \/ SaveProposals(j, "retire", Retirements(j))
          \/ \E status \in {"SUCCEEDED", "PARTIAL_FAILED", "FAILED"} : EndJob(j, status)
          \/ RetryJob(j)
    \/ \E k \in Command, p \in DOMAIN proposal :
          \/ Dismiss(k, p)
          \/ \E decision \in {"ARCHIVE", "KEEP", "REVISE"}, t \in proposal[p].candidates : Apply(k, p, decision, t)
          \/ CreateNew(k, p)

ProposalsSpec == ProposalsInit /\ [][ProposalsNext]_<<catalogVars, proposalVars>>

-----------------------------------------------------------------------------
(* Properties. *)

Applied == {p \in DOMAIN proposal : proposal[p].status = "APPLIED"}

\* A proposal revises no text that its generation was not compared with: the
\* head that its job pinned, replaced by no edit and no other proposal since,
\* so that revisions go on forming one chain in every family.
RevisesWhatWasPinned ==
    /\ \A r, s \in DOMAIN caseRevision :
          r # s /\ caseRevision[r].parent = caseRevision[s].parent => caseRevision[r].parent = 0
    /\ \A f \in DOMAIN family : \A r \in RevisionsOf(f) : r <= family[f].head

\* One decision about a proposal stands, with the command that made it.
DecidedOnce == [][
    /\ \A p \in DOMAIN proposal : proposal[p].status # "PENDING" => proposal'[p] = proposal[p]
    /\ \A k \in Command : command[k] # NoCommand => command'[k] = command[k]]_<<catalogVars, proposalVars>>

ProposalsStand == []RevisesWhatWasPinned /\ DecidedOnce
=============================================================================
