------------------------- MODULE RequirementReview -------------------------
(***************************************************************************)
(* The requirements of one document set: the extraction that proposes them  *)
(* chunk by chunk (requirement.Service.extract, Repository.SaveProposal,     *)
(* MarkConflict), the reconciliation that makes one extracted snapshot the   *)
(* current inventory (ReconcileSources), reviews of exact revisions with     *)
(* their receipts (Review, BulkReview) and clarifications.                   *)
(*                                                                           *)
(* A statement is abstracted to the business identifier of its claim and a   *)
(* text; two texts under one identifier contradict each other.  A snapshot   *)
(* is named by the source revision it was indexed from, and one index        *)
(* generation is built of it.  Left out: rows from before migration 28, a    *)
(* set that is archived and documents whose approval is withdrawn (both only *)
(* add blockers), and links from test cases, which only approved rows get:   *)
(* an approved row is a reviewed one, and protected as such.                 *)
(***************************************************************************)
EXTENDS Integers, FiniteSets, Sequences

CONSTANTS
    Statement,           \* what a chunk can be taken to state: [id, text, unclear]
    Extraction,      \* the workers that extract
    Batch,           \* items of batch reviews, each with a key of its own
    BatchDecision,   \* the decisions that batches ask for
    SourceBound,     \* bound: source revisions
    RequirementBound \* bound: rows

ASSUME BatchDecisionAssumption == BatchDecision \subseteq {"APPROVED", "REJECTED"}
ASSUME RequirementBoundsAssumption == SourceBound \in Nat \ {0} /\ RequirementBound \in Nat

VARIABLES
    req,         \* requirements, by id
    conflict,    \* requirement_conflicts: (left, right) -> status
    question,    \* open_questions: requirement -> status
    reviewed,    \* requirements with a row in requirement_reviews
    compared,    \* requirement_source_comparisons: to -> from (0: none)
    source,      \* source_revision of the set
    indexed,     \* the source revision the current index generation shows
    extraction,  \* what each extraction holds
    command      \* what each item of a batch asks for and was answered

reviewVars == <<req, conflict, question, reviewed, compared, source, indexed, extraction, command>>

Decision == {"APPROVED", "REJECTED"}
NoExtraction == [source |-> 0, seen |-> {}, against |-> {}]
NoCommand == [row |-> 0, decision |-> "APPROVED", view |-> << >>, answer |-> "NONE"]

ReviewTypeOK ==
    /\ \A r \in DOMAIN req :
          /\ req[r].status \in {"DRAFT", "TBD", "CONFLICT"} \cup Decision
          /\ req[r].state \in {"CURRENT", "HISTORICAL", "REMOVED"}
          /\ req[r].source \in 1..SourceBound
          /\ req[r].parent \in 0..(r - 1)
    /\ \A p \in DOMAIN conflict : p[1] < p[2] /\ conflict[p] \in {"OPEN", "RESOLVED"}
    /\ DOMAIN question \cup reviewed \subseteq DOMAIN req
    /\ \A x \in Extraction : extraction[x].against \subseteq (DOMAIN req) \X (DOMAIN req)
    /\ \A v \in Batch : command[v].answer \in {"NONE", "APPLIED"}

ReviewInit ==
    /\ req = << >>
    /\ conflict = << >>
    /\ question = << >>
    /\ reviewed = {}
    /\ compared = << >>
    /\ source = 1
    /\ indexed = 1
    /\ extraction = [x \in Extraction |-> NoExtraction]
    /\ command = [v \in Batch |-> NoCommand]

-----------------------------------------------------------------------------
(* Blockers (migration 28).                                                *)

Superseded(r) == \E n \in DOMAIN req : req[n].parent = r
IsCurrent(r) == req[r].state = "CURRENT" /\ ~Superseded(r)
OpenIssue(r) ==
    \/ \E p \in DOMAIN conflict : conflict[p] = "OPEN" /\ (p[1] = r \/ p[2] = r)
    \/ r \in DOMAIN question /\ question[r] = "OPEN"
Blockers(r) ==
    (IF IsCurrent(r) THEN {} ELSE {"STALE_REVISION"}) \cup
    (IF OpenIssue(r) \/ req[r].status \in {"CONFLICT", "TBD"} THEN {"CLARIFICATION_REQUIRED"} ELSE {})
ReviewHash(r) == <<r, req[r], Blockers(r)>>

-----------------------------------------------------------------------------
(* Sources: an upload or approval changes them, an index build follows.     *)

ChangeSources ==
    /\ source < SourceBound
    /\ source' = source + 1
    /\ UNCHANGED <<req, conflict, question, reviewed, compared, indexed, extraction, command>>
IndexSources ==
    /\ indexed' = source
    /\ UNCHANGED <<req, conflict, question, reviewed, compared, source, extraction, command>>

-----------------------------------------------------------------------------
(* Extraction.  Every proposal and every conflict is a transaction.         *)

\* A job names the generation it was enqueued for; it may run late, or again.
BeginExtraction(x, s) ==
    /\ extraction[x].source = 0
    /\ extraction' = [extraction EXCEPT ![x] = [NoExtraction EXCEPT !.source = s]]
    /\ UNCHANGED <<req, conflict, question, reviewed, compared, source, indexed, command>>

\* The row with the extraction key of a claim; revisions by reviewers have none.
Extracted(c, s) == {r \in DOMAIN req : req[r].parent = 0 /\ req[r].claim = c /\ req[r].source = s}
Sealed(r) == req[r].status = "APPROVED" \/ r \in reviewed

\* Same identifier, flow and type; the texts contradict, or their actors or
\* thresholds differ.
ShouldConflict(r, c, s) == r # s /\ req[r].claim.id = c.id /\ req[r].claim.text # c.text

Pair(a, b) == IF a < b THEN <<a, b>> ELSE <<b, a>>
Asked(r, c) == IF c.unclear /\ r \notin DOMAIN question
               THEN [q \in DOMAIN question \cup {r} |-> IF q = r THEN "OPEN" ELSE question[q]]
               ELSE question
SaveProposal(x, c) ==
    LET s == extraction[x].source
        found == Extracted(c, s)
        r == IF found = {} THEN Len(req) + 1 ELSE CHOOSE f \in found : TRUE
    IN  /\ s # 0
        /\ extraction[x].against = {}
        /\ found = {} => Len(req) < RequirementBound
        /\ req' = IF found = {}
                  THEN Append(req, [claim |-> c, text |-> c.text, source |-> s, parent |-> 0, state |-> "HISTORICAL",
                                    status |-> IF c.unclear THEN "TBD" ELSE "DRAFT"])
                  ELSE req
        /\ question' = IF found # {} /\ Sealed(r) THEN question ELSE Asked(r, c)
        /\ extraction' = [extraction EXCEPT ![x].seen = @ \cup {r},
                             ![x].against = {Pair(o, r) : o \in {q \in extraction[x].seen : ShouldConflict(q, c, r)}}]
        /\ UNCHANGED <<conflict, reviewed, compared, source, indexed, command>>

Contestable_Any == {"DRAFT", "TBD", "APPROVED", "REJECTED"}
Contestable == {"DRAFT", "TBD"}
MarkConflict(x, p) ==
    /\ p \in extraction[x].against
    /\ IF p \in DOMAIN conflict THEN UNCHANGED <<conflict, req>>
       ELSE /\ conflict' = [q \in DOMAIN conflict \cup {p} |-> IF q = p THEN "OPEN" ELSE conflict[q]]
            /\ req' = [r \in DOMAIN req |-> IF r \in {p[1], p[2]} /\ req[r].status \in Contestable
                                            THEN [req[r] EXCEPT !.status = "CONFLICT"] ELSE req[r]]
    /\ extraction' = [extraction EXCEPT ![x].against = @ \ {p}]
    /\ UNCHANGED <<question, reviewed, compared, source, indexed, command>>

\* A provider error, a lost lease or the end of the process.
ExtractionStops(x) ==
    /\ extraction[x].source # 0
    /\ extraction' = [extraction EXCEPT ![x] = NoExtraction]
    /\ UNCHANGED <<req, conflict, question, reviewed, compared, source, indexed, command>>

-----------------------------------------------------------------------------
(* Reconciliation.                                                          *)

Inventory(s) == {r \in DOMAIN req : req[r].source = s /\ ~Superseded(r)}
SameContent(a, b) == req[a].text = req[b].text
\* Within one identity: exact matches that are unique on both sides.
Unchanged(old, new) == {p \in old \X new :
    /\ SameContent(p[1], p[2])
    /\ \A o \in old \ {p[1]} : ~SameContent(o, p[1])
    /\ \A n \in new \ {p[2]} : ~SameContent(p[1], n)}
\* What has an identifier and no counterpart left; rows without an identifier
\* are never matched, and never removed.
Removed(before, after) == {r \in before :
    LET old == {o \in before : req[o].claim.id = req[r].claim.id}
        new == {n \in after : req[n].claim.id = req[r].claim.id}
        matched == Unchanged(old, new)
    IN  /\ req[r].claim.id # ""
        /\ r \notin {p[1] : p \in matched}
        /\ new \subseteq {p[2] : p \in matched}}

\* The source of the newest current row of another snapshot, else what this
\* snapshot was compared with before.
Previous(s) ==
    LET other == {r \in DOMAIN req : req[r].state = "CURRENT" /\ req[r].source # s}
    IN  IF other # {} THEN req[CHOOSE r \in other : \A o \in other : o <= r].source
        ELSE IF s \in DOMAIN compared THEN compared[s] ELSE 0

StillCurrent_Generation(s) == indexed >= s
StillCurrent(s) == indexed = s /\ indexed = source
ReconcileSources(x) ==
    LET s == extraction[x].source
        from == Previous(s)
        removed == Removed(Inventory(from), Inventory(s))
    IN  /\ s # 0
        /\ extraction[x].against = {}
        /\ extraction' = [extraction EXCEPT ![x] = NoExtraction]
        /\ IF ~StillCurrent(s) THEN UNCHANGED <<req, compared>>
           ELSE /\ compared' = [t \in DOMAIN compared \cup {s} |->
                                  IF t \in DOMAIN compared THEN compared[t] ELSE from]
                /\ req' = [r \in DOMAIN req |-> [req[r] EXCEPT !.state =
                             CASE req[r].source = s -> "CURRENT"
                               [] r \in removed -> "REMOVED"
                               [] req[r].source # s /\ r \notin removed /\ @ = "CURRENT" -> "HISTORICAL"
                               [] OTHER -> @]]
        /\ UNCHANGED <<conflict, question, reviewed, source, indexed, command>>

-----------------------------------------------------------------------------
(* Reviews.                                                                 *)

\* A changed decision on a reviewed revision is a new revision too.
Revises_EditOnly(r, decision, edit) == edit /\ req[r].text # "edited"
Revises(r, decision, edit) ==
    \/ edit /\ req[r].text # "edited"
    \/ r \in reviewed /\ req[r].status # decision
Refused(r, decision, edit) ==
    \/ "STALE_REVISION" \in Blockers(r)
    \/ Blockers(r) # {} /\ (decision = "APPROVED" \/ Revises(r, decision, edit))

\* What a review that is not refused writes.
Decided(r, decision, edit) ==
    IF Revises(r, decision, edit)
    THEN /\ Len(req) < RequirementBound
         /\ req' = Append(req, [req[r] EXCEPT !.parent = r, !.status = decision,
                                  !.text = IF edit THEN "edited" ELSE @])
         /\ reviewed' = reviewed \cup {Len(req) + 1}
    ELSE /\ req' = [req EXCEPT ![r].status = decision]
         /\ reviewed' = IF req[r].status # decision THEN reviewed \cup {r} ELSE reviewed

\* A single review names neither a hash nor a key.
Review(r, decision, edit) ==
    /\ ~Refused(r, decision, edit)
    /\ Decided(r, decision, edit)
    /\ UNCHANGED <<conflict, question, compared, source, indexed, extraction, command>>

\* A batch names for each row of the list the hash that the reviewer saw, and is sent again
\* until it is answered.
Send(v, r, decision) ==
    /\ command[v].row = 0
    /\ IsCurrent(r)
    /\ command' = [command EXCEPT ![v] =
         [row |-> r, decision |-> decision, view |-> ReviewHash(r), answer |-> "NONE"]]
    /\ UNCHANGED <<req, conflict, question, reviewed, compared, source, indexed, extraction>>

Replayed_Never(v) == FALSE
Replayed(v) == command[v].answer = "APPLIED"
Outdated(v) == command[v].view # ReviewHash(command[v].row)
Answered(v) == command' = [command EXCEPT ![v].answer = "APPLIED", ![v].view = << >>]
SentAgain(v) == Replayed(v) /\ UNCHANGED <<command, req, reviewed>>
\* "See it and select it again."
SentInVain(v) ==
    /\ ~Replayed(v)
    /\ Outdated(v) \/ Refused(command[v].row, command[v].decision, FALSE)
    /\ command' = [command EXCEPT ![v] = NoCommand]
    /\ UNCHANGED <<req, reviewed>>
Applied(v) ==
    /\ ~Replayed(v) /\ ~Outdated(v)
    /\ ~Refused(command[v].row, command[v].decision, FALSE)
    /\ Decided(command[v].row, command[v].decision, FALSE)
    /\ Answered(v)
BulkReview(v) ==
    /\ command[v].row # 0
    /\ SentAgain(v) \/ SentInVain(v) \/ Applied(v)
    /\ UNCHANGED <<conflict, question, compared, source, indexed, extraction>>

\* A resolved issue leads back to DRAFT once no other is open.
Settled(rows) == [r \in DOMAIN req |->
    IF r \in rows /\ req[r].status \in {"CONFLICT", "TBD"} /\ ~OpenIssue(r)'
    THEN [req[r] EXCEPT !.status = "DRAFT"] ELSE req[r]]
ResolveConflict(p) ==
    /\ conflict[p] = "OPEN"
    /\ conflict' = [conflict EXCEPT ![p] = "RESOLVED"]
    /\ UNCHANGED question
    /\ req' = Settled({p[1], p[2]})
    /\ UNCHANGED <<reviewed, compared, source, indexed, extraction, command>>
AnswerQuestion(r) ==
    /\ question[r] = "OPEN"
    /\ question' = [question EXCEPT ![r] = "ANSWERED"]
    /\ UNCHANGED conflict
    /\ req' = Settled({r})
    /\ UNCHANGED <<reviewed, compared, source, indexed, extraction, command>>

-----------------------------------------------------------------------------
ReviewNext ==
    \/ ChangeSources
    \/ IndexSources
    \/ \E x \in Extraction :
          \/ \E s \in 1..indexed : BeginExtraction(x, s)
          \/ \E c \in Statement : SaveProposal(x, c)
          \/ \E p \in extraction[x].against : MarkConflict(x, p)
          \/ ReconcileSources(x)
          \/ ExtractionStops(x)
    \/ \E r \in DOMAIN req, decision \in Decision, edit \in BOOLEAN : Review(r, decision, edit)
    \/ \E v \in Batch :
          \/ \E r \in DOMAIN req, decision \in BatchDecision : Send(v, r, decision)
          \/ BulkReview(v)
    \/ \E p \in DOMAIN conflict : ResolveConflict(p)
    \/ \E r \in DOMAIN question : AnswerQuestion(r)

ReviewSpec == ReviewInit /\ [][ReviewNext]_reviewVars

-----------------------------------------------------------------------------
(* Properties. *)

\* "A late old-generation worker may retain its output but cannot replace the
\* current source inventory": the current rows are of one snapshot, and no
\* interleaving of extractions, index builds and reviews takes them back to an
\* older one.
CurrentSources == {req[r].source : r \in {q \in DOMAIN req : req[q].state = "CURRENT"}}
InventoryMovesOn ==
    [][Cardinality(CurrentSources') <= 1 /\ \A s \in CurrentSources, t \in CurrentSources' : s <= t]_reviewVars

\* "Existing proofs retain the decision they were actually reviewed on": the
\* status of a reviewed revision is never changed again, not by a later
\* conflict, clarification, extraction or decision, a revision is superseded
\* once, so that two reviewers never fork it, and a command that was applied and
\* is sent again is answered the same, although its row is another one by then.
ReviewsStand ==
    [][ /\ \A r \in reviewed : req'[r].status = req[r].status
        /\ \A a, b \in DOMAIN req' : a # b /\ req'[a].parent # 0 => req'[a].parent # req'[b].parent
        /\ \A v \in Batch : command[v].answer = "APPLIED" => command'[v].answer = "APPLIED" ]_reviewVars
=============================================================================
