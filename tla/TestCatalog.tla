---------------------------- MODULE TestCatalog ----------------------------
(***************************************************************************)
(* The test cases of one suite: families and their sealed revisions          *)
(* (testcase.Repository of family_repository.go with the triggers of         *)
(* migration 24), reviews of exact revisions, and the releases that pin      *)
(* them (prepareRelease).                                                    *)
(*                                                                           *)
(* Every operation is one transaction that locks its family (or, to publish, *)
(* the suite, serializably), so it is one action.  What is slow is the user: *)
(* an editor sends a request about the head it was shown, a publisher one    *)
(* about the selection and coverage it was shown, and either sends it again  *)
(* when the answer is lost.  A content is abstracted to a text and the       *)
(* requirements it links; requirements are what RequirementReview checks     *)
(* them to be, down to whether they can be linked, approved on or covered.   *)
(***************************************************************************)
EXTENDS Integers, FiniteSets, Sequences

CONSTANTS
    Requirement, SnapshotOf,   \* requirement revisions and their source snapshot
    Wording,                   \* texts of a test case
    Editor, Publisher,         \* requests, each with an idempotency key
    FamilyBound, CaseRevisionBound, ReleaseBound, ChangeBound

ASSUME CatalogAssumption ==
    /\ SnapshotOf \in [Requirement -> Nat \ {0}]
    /\ {FamilyBound, CaseRevisionBound, ReleaseBound, ChangeBound} \subseteq Nat

VARIABLES
    standing,   \* requirement -> what its row and its blockers amount to
    sources,    \* source_revision of the set
    changes,    \* counts, for the bound, what happens to requirements, sources and families
    family,     \* test_case_families: archived and head
    caseRevision,   \* test_cases, by id
    edited,     \* test_case_revision_commands: editor -> result (0: none)
    release,    \* test_suite_releases, by release number
    editor,     \* what each editor was shown and asks for
    publisher   \* what each publisher was shown and asks for

catalogVars == <<standing, sources, changes, family, caseRevision, edited, release, editor, publisher>>

Content == [text : Wording, links : (SUBSET Requirement) \ {{}}]
NoEdit == [family |-> 0, head |-> 0, content |-> << >>, from |-> 0]
NoPublication == [items |-> {}, shown |-> {}, decided |-> FALSE]

RevisionsOf(f) == {r \in DOMAIN caseRevision : caseRevision[r].family = f}

CatalogTypeOK ==
    /\ standing \in [Requirement -> {"DRAFT", "APPROVED", "UNCLEAR", "SUPERSEDED"}]
    /\ sources <= changes /\ changes <= ChangeBound
    /\ \A f \in DOMAIN family : family[f].archived \in BOOLEAN /\ family[f].head \in DOMAIN caseRevision
    /\ \A r \in DOMAIN caseRevision :
          /\ caseRevision[r].content \in Content
          /\ caseRevision[r].status \in {"DRAFT", "APPROVED", "REJECTED"}
          /\ caseRevision[r].family \in DOMAIN family
          /\ caseRevision[r].version = Cardinality({v \in RevisionsOf(caseRevision[r].family) : v <= r})
          /\ {caseRevision[r].parent, caseRevision[r].restored} \subseteq 0..(r - 1)
    /\ \A e \in Editor : edited[e] \in {0} \cup DOMAIN caseRevision
    /\ \A n \in DOMAIN release : release[n].items \subseteq DOMAIN caseRevision

CatalogInit ==
    /\ standing = [q \in Requirement |-> "DRAFT"]
    /\ sources = 0
    /\ changes = 0
    /\ family = << >>
    /\ caseRevision = << >>
    /\ edited = [e \in Editor |-> 0]
    /\ release = << >>
    /\ editor = [e \in Editor |-> NoEdit]
    /\ publisher = [p \in Publisher |-> NoPublication]

-----------------------------------------------------------------------------
(* Requirements: reviews, conflicts, clarifications and new sources.        *)

Changes == changes < ChangeBound /\ changes' = changes + 1
\* An approved row stays APPROVED when it is blocked (UNCLEAR) or superseded.
ChangeRequirement(q) ==
    /\ Changes
    /\ \E s \in CASE standing[q] = "DRAFT" -> {"APPROVED"}
                  [] standing[q] = "APPROVED" -> {"UNCLEAR", "SUPERSEDED"}
                  [] standing[q] = "UNCLEAR" -> {"APPROVED"}
                  [] OTHER -> {} :
          standing' = [standing EXCEPT ![q] = s]
    /\ UNCHANGED <<sources, family, caseRevision, edited, release, editor, publisher>>

ReplaceSources ==
    /\ Changes
    /\ sources' = sources + 1
    /\ UNCHANGED <<standing, family, caseRevision, edited, release, editor, publisher>>

-----------------------------------------------------------------------------
(* Families and revisions.                                                  *)

Linkable(links) == \A q \in links : standing[q] # "DRAFT"
Unblocked(links) == \A q \in links : standing[q] = "APPROVED"

\* insertRevision.  The unique index test_cases_generation_key_idx refuses the
\* content that another family has under the same version number.
InsertRevision(f, content, parent, restored) ==
    LET version == Cardinality(RevisionsOf(f)) + 1 IN
    /\ Len(caseRevision) < CaseRevisionBound
    /\ \A r \in DOMAIN caseRevision : caseRevision[r].content = content => caseRevision[r].version # version
    /\ caseRevision' = Append(caseRevision, [family |-> f, version |-> version, content |-> content,
                                 parent |-> parent, restored |-> restored, status |-> "DRAFT"])

\* A content that the suite has in any revision is used again.
SaveGeneratedCase(content) ==
    /\ Linkable(content.links)
    /\ ~\E r \in DOMAIN caseRevision : caseRevision[r].content = content
    /\ Len(family) < FamilyBound
    /\ InsertRevision(Len(family) + 1, content, 0, 0)
    /\ family' = Append(family, [archived |-> FALSE, head |-> Len(caseRevision) + 1])
    /\ UNCHANGED <<standing, sources, changes, edited, release, editor, publisher>>

Archive(f, flag) ==
    /\ Changes
    /\ family[f].archived # flag
    /\ family' = [family EXCEPT ![f].archived = flag]
    /\ UNCHANGED <<standing, sources, caseRevision, edited, release, editor, publisher>>

\* The trigger enforce_test_case_approval_evidence asks for approved
\* requirements, ReviewExact for none that is blocked.
ReviewExact(r, decision) ==
    /\ Changes
    /\ caseRevision[r].status # decision
    /\ ~family[caseRevision[r].family].archived
    /\ decision = "APPROVED" => Unblocked(caseRevision[r].content.links)
    /\ caseRevision' = [caseRevision EXCEPT ![r].status = decision]
    /\ UNCHANGED <<standing, sources, family, edited, release, editor, publisher>>

\* An editor is shown the head and asks for a new content, or to restore an
\* earlier revision.
Edit(e, f, content) ==
    /\ editor[e].family = 0
    /\ editor' = [editor EXCEPT ![e] = [family |-> f, head |-> family[f].head, content |-> content, from |-> 0]]
    /\ UNCHANGED <<standing, sources, changes, family, caseRevision, edited, release, publisher>>
AskRestore(e, r) ==
    LET f == caseRevision[r].family IN
    /\ editor[e].family = 0
    /\ editor' = [editor EXCEPT ![e] =
          [family |-> f, head |-> family[f].head, content |-> caseRevision[r].content, from |-> r]]
    /\ UNCHANGED <<standing, sources, changes, family, caseRevision, edited, release, publisher>>

HeadAsShown_FamilyOnly(e) == TRUE
HeadAsShown(e) == family[editor[e].family].head = editor[e].head
\* A repeated request finds its key before anything else is looked at.
Done(e) == edited[e] # 0
CreateRevision(e) ==
    LET f == editor[e].family
        ask == editor[e]
        head == family[f].head
        new == Len(caseRevision) + 1
    IN  /\ f # 0
        /\ ~Done(e)
        /\ ~family[f].archived
        /\ HeadAsShown(e)
        /\ ask.from = 0 => Linkable(ask.content.links)
        /\ \/ /\ ask.from = 0 /\ ask.content = caseRevision[head].content
              /\ edited' = [edited EXCEPT ![e] = head]
              /\ UNCHANGED <<family, caseRevision>>
           \/ /\ ask.from # 0 \/ ask.content # caseRevision[head].content
              /\ InsertRevision(f, ask.content, head, ask.from)
              /\ family' = [family EXCEPT ![f].head = new]
              /\ edited' = [edited EXCEPT ![e] = new]
        /\ UNCHANGED <<standing, sources, changes, release, editor, publisher>>

-----------------------------------------------------------------------------
(* Releases.                                                                *)

LinkedBy(items) == UNION {caseRevision[r].content.links : r \in items}
SnapshotsOf(links) == {SnapshotOf[q] : q \in links}
\* Approved revisions of different families that are not archived, each and
\* all of one source snapshot.
Selectable(items) ==
    /\ items # {}
    /\ \A r \in items : caseRevision[r].status = "APPROVED" /\ ~family[caseRevision[r].family].archived
    /\ \A r, s \in items : r # s => caseRevision[r].family # caseRevision[s].family
    /\ Cardinality(SnapshotsOf(LinkedBy(items))) = 1
Coverable(items) == {q \in Requirement :
    SnapshotOf[q] \in SnapshotsOf(LinkedBy(items)) /\ standing[q] \in {"APPROVED", "UNCLEAR"}}
Covered(items) == Coverable(items) \cap LinkedBy(items)
Uncovered(items) == Coverable(items) \ LinkedBy(items)

\* The manifest, and what it is shown to cover.
PreviewHash_Manifest(items) == [items |-> items, sources |-> 0, covered |-> {}, uncovered |-> {}]
PreviewHash(items) == [items |-> items, sources |-> sources, covered |-> Covered(items), uncovered |-> Uncovered(items)]

\* "shown" holds the coverage of the preview and its hash, or nothing when the
\* request names no hash.
Preview(p, items, decided) ==
    /\ publisher[p].items = {}
    /\ Selectable(items) /\ Unblocked(LinkedBy(items))
    /\ publisher' = [publisher EXCEPT ![p] = [items |-> items, decided |-> decided,
          shown |-> {[covered |-> Covered(items), uncovered |-> Uncovered(items), hash |-> PreviewHash(items)]}]]
    /\ UNCHANGED <<standing, sources, changes, family, caseRevision, edited, release, editor>>

Replays_KeyOnly(p, items) == {n \in DOMAIN release : release[n].key = p}
\* The same key, or the same selection under any key.
Replays(p, items) == {n \in DOMAIN release : release[n].key = p \/ release[n].items = items}
PrepareRelease(p, items, shown, decided) ==
    /\ Selectable(items)
    /\ Replays(p, items) = {}
    /\ Unblocked(LinkedBy(items))
    /\ Uncovered(items) # {} => decided
    /\ \A preview \in shown : preview.hash = PreviewHash(items)
    /\ Len(release) < ReleaseBound
    /\ release' = Append(release, [items |-> items, key |-> p,
                                   covered |-> Covered(items), uncovered |-> Uncovered(items)])
    /\ UNCHANGED <<standing, sources, changes, family, caseRevision, edited, editor>>
Publish(p) ==
    /\ publisher[p].items # {}
    /\ PrepareRelease(p, publisher[p].items, publisher[p].shown, publisher[p].decided)
    /\ UNCHANGED publisher
\* A request that names no hash: nothing was shown, so it asks when it comes.
PublishUnseen(p, items, decided) ==
    /\ publisher[p].items = {}
    /\ PrepareRelease(p, items, {}, decided)
    /\ publisher' = [publisher EXCEPT ![p] = [items |-> items, decided |-> decided, shown |-> {}]]

-----------------------------------------------------------------------------
CatalogNext ==
    \/ \E q \in Requirement : ChangeRequirement(q)
    \/ ReplaceSources
    \/ \E content \in Content : SaveGeneratedCase(content)
    \/ \E f \in DOMAIN family, flag \in BOOLEAN : Archive(f, flag)
    \/ \E r \in DOMAIN caseRevision, decision \in {"APPROVED", "REJECTED"} : ReviewExact(r, decision)
    \/ \E e \in Editor :
          \/ \E f \in DOMAIN family, content \in Content : Edit(e, f, content)
          \/ \E r \in DOMAIN caseRevision : AskRestore(e, r)
          \/ CreateRevision(e)
    \/ \E p \in Publisher :
          \/ \E items \in SUBSET DOMAIN caseRevision, decided \in BOOLEAN :
                Preview(p, items, decided) \/ PublishUnseen(p, items, decided)
          \/ Publish(p)

CatalogSpec == CatalogInit /\ [][CatalogNext]_catalogVars

-----------------------------------------------------------------------------
(* Properties. *)

\* No edit is lost: every revision but the first replaces the revision that its
\* editor was shown, no revision is replaced twice, the head is the one that
\* nothing replaced, and a request that is sent again creates nothing more.
EditsBuildOnHead ==
    /\ \A e \in Editor : edited[e] # 0 =>
          edited[e] = editor[e].head \/ caseRevision[edited[e]].parent = editor[e].head
    /\ \A f \in DOMAIN family : {r \in RevisionsOf(f) : ~\E n \in RevisionsOf(f) : caseRevision[n].parent = r} = {family[f].head}
    /\ \A d, e \in Editor : d # e /\ edited[d] = edited[e] /\ edited[d] # 0 => edited[d] \in {editor[d].head, editor[e].head}

\* A release says and pins what its publisher was shown, although requirements,
\* revisions and families were changed in between, and there is one of it.
PublishedAsPreviewed ==
    /\ \A n \in DOMAIN release : LET p == publisher[release[n].key] IN
          /\ release[n].items = p.items
          /\ \A shown \in p.shown : release[n].covered = shown.covered /\ release[n].uncovered = shown.uncovered
    /\ \A m, n \in DOMAIN release : m # n => release[m].items # release[n].items
=============================================================================
