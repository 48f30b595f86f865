---------------------- MODULE RequirementReview_proofs ----------------------
(***************************************************************************)
(* Proofs about the requirements of one document set, for any statements,    *)
(* extractions, batches and bounds.  Reviews stand: no later extraction,     *)
(* conflict, clarification, reconciliation or decision changes the status of *)
(* a reviewed revision, no two reviewers fork one, and an applied command    *)
(* stays applied.  The inventory moves on: the current rows are of one       *)
(* snapshot, and of no older one than before.  Rows and references keep to   *)
(* their types.                                                              *)
(***************************************************************************)
EXTENDS RequirementReview, FiniteSetTheorems, SequenceTheorems, TLAPS

\* A row as the table stores it.
Row == [claim : Statement, text : {c.text : c \in Statement} \cup {"edited"}, source : Nat, parent : Nat,
        state : {"CURRENT", "HISTORICAL", "REMOVED"}, status : {"DRAFT", "TBD", "CONFLICT"} \cup Decision]
HeldRow == [source : Nat, seen : SUBSET Nat, against : SUBSET (Nat \X Nat)]

RequirementsTyped ==
    /\ req \in Seq(Row)
    /\ reviewed \subseteq DOMAIN req
    /\ source \in Nat /\ indexed \in Nat
    /\ extraction \in [Extraction -> HeldRow]

\* A reviewed row has a decision, and so none of the statuses that conflicts and
\* clarifications move; no two rows revise the same one.
ReviewsSealed ==
    /\ \A r \in reviewed : req[r].status \in Decision
    /\ \A a, b \in DOMAIN req : a # b /\ req[a].parent # 0 => req[a].parent # req[b].parent

\* A command that was applied is about a row, with a decision.
CommandsTyped ==
    /\ DOMAIN command = Batch
    /\ \A v \in Batch :
          /\ DOMAIN command[v] = {"row", "decision", "view", "answer"}
          /\ command[v].decision \in Decision
          /\ command[v].row \in DOMAIN req \cup {0}
          /\ command[v].answer = "APPLIED" => command[v].row # 0

ReviewInv == RequirementsTyped /\ ReviewsSealed /\ CommandsTyped

\* What ReviewsStand says of one step.
Stand ==
    /\ \A r \in reviewed : req'[r].status = req[r].status
    /\ \A a, b \in DOMAIN req' : a # b /\ req'[a].parent # 0 => req'[a].parent # req'[b].parent
    /\ \A v \in Batch : command[v].answer = "APPLIED" => command'[v].answer = "APPLIED"

-----------------------------------------------------------------------------
\* A function on the numbers of a table is a table of as many rows.
LEMMA SameRows ==
  ASSUME NEW S, NEW s \in Seq(S), NEW f \in [DOMAIN s -> S]
  PROVE  f \in Seq(S) /\ DOMAIN f = DOMAIN s
<1>1. DOMAIN s = 1..Len(s) /\ Len(s) \in Nat  BY LenProperties
<1> QED  BY <1>1

\* Rows keep their numbers and parents, and reviewed ones their status, when a
\* statement updates some in place.
LEMMA Updated ==
  ASSUME ReviewInv,
         req' \in [DOMAIN req -> Row],
         \A r \in DOMAIN req : req'[r].parent = req[r].parent,
         \A r \in reviewed : req'[r].status = req[r].status,
         UNCHANGED <<reviewed, source, indexed, command>>,
         extraction' \in [Extraction -> HeldRow]
  PROVE  ReviewInv' /\ Stand
<1>1. req' \in Seq(Row) /\ DOMAIN req' = DOMAIN req
  BY SameRows DEF ReviewInv, RequirementsTyped
<1>2. RequirementsTyped'  BY <1>1 DEF ReviewInv, RequirementsTyped
<1>3. ReviewsSealed' /\ Stand
  BY <1>1 DEF ReviewInv, RequirementsTyped, ReviewsSealed, Stand
<1>4. CommandsTyped'
  BY <1>1 DEF ReviewInv, CommandsTyped
<1> QED  BY <1>2, <1>3, <1>4 DEF ReviewInv

\* A new row takes the next number, and revises a row that none revises, if any.
LEMMA Appended ==
  ASSUME ReviewInv,
         NEW row \in Row,
         req' = Append(req, row),
         row.parent # 0 => \A r \in DOMAIN req : req[r].parent # row.parent
  PROVE  /\ req' \in Seq(Row)
         /\ DOMAIN req' = DOMAIN req \cup {Len(req) + 1}
         /\ Len(req) + 1 \notin DOMAIN req
         /\ \A r \in DOMAIN req : req'[r] = req[r]
         /\ req'[Len(req) + 1] = row
         /\ \A a, b \in DOMAIN req' : a # b /\ req'[a].parent # 0 => req'[a].parent # req'[b].parent
<1>1. req \in Seq(Row) /\ Len(req) \in Nat /\ DOMAIN req = 1..Len(req)
  BY LenProperties DEF ReviewInv, RequirementsTyped
<1>2. /\ req' \in Seq(Row)
      /\ Len(req') = Len(req) + 1
      /\ \A i \in 1..Len(req) : req'[i] = req[i]
      /\ req'[Len(req) + 1] = row
  BY <1>1, AppendProperties
<1>3. DOMAIN req' = 1..(Len(req) + 1)  BY <1>2, LenProperties
<1>4. DOMAIN req' = DOMAIN req \cup {Len(req) + 1} /\ Len(req) + 1 \notin DOMAIN req
  BY <1>1, <1>3
<1>5. ASSUME NEW a \in DOMAIN req', NEW b \in DOMAIN req', a # b, req'[a].parent # 0
      PROVE  req'[a].parent # req'[b].parent
  <2>1. CASE a \in DOMAIN req /\ b \in DOMAIN req
    BY <1>1, <1>2, <1>5, <2>1 DEF ReviewInv, ReviewsSealed
  <2>2. CASE a = Len(req) + 1
    BY <1>1, <1>2, <1>4, <1>5, <2>2
  <2>3. CASE b = Len(req) + 1
    BY <1>1, <1>2, <1>4, <1>5, <2>3
  <2> QED  BY <1>4, <2>1, <2>2, <2>3
<1> QED  BY <1>1, <1>2, <1>4, <1>5

\* A set of requirements starts empty.
LEMMA ReviewStarts == ReviewInit => ReviewInv
<1> SUFFICES ASSUME ReviewInit PROVE ReviewInv  OBVIOUS
<1>1. req \in Seq(Row) /\ DOMAIN req = {}  BY EmptySeq DEF ReviewInit
<1>2. NoExtraction \in HeldRow  BY DEF NoExtraction, HeldRow
<1>3. RequirementsTyped  BY <1>1, <1>2 DEF ReviewInit, RequirementsTyped
<1>4. ReviewsSealed  BY <1>1 DEF ReviewInit, ReviewsSealed
<1>5. CommandsTyped  BY DEF ReviewInit, CommandsTyped, NoCommand, Decision
<1> QED  BY <1>3, <1>4, <1>5 DEF ReviewInv

-----------------------------------------------------------------------------
(* Sources and extraction. *)

\* A step that leaves the rows, reviews and commands alone.
LEMMA Elsewhere ==
  ASSUME ReviewInv, UNCHANGED <<req, reviewed, command>>,
         source' \in Nat, indexed' \in Nat, extraction' \in [Extraction -> HeldRow]
  PROVE  ReviewInv' /\ Stand
BY DEF ReviewInv, RequirementsTyped, ReviewsSealed, CommandsTyped, Stand

\* SaveProposal appends a row that revises none, or finds the one that it has.
LEMMA ProposalSaved ==
  ASSUME ReviewInv, NEW x \in Extraction, NEW c \in Statement, SaveProposal(x, c)
  PROVE  ReviewInv' /\ Stand
<1> DEFINE s == extraction[x].source
           found == Extracted(c, s)
           r == IF found = {} THEN Len(req) + 1 ELSE CHOOSE f \in found : TRUE
           row == [claim |-> c, text |-> c.text, source |-> s, parent |-> 0, state |-> "HISTORICAL",
                   status |-> IF c.unclear THEN "TBD" ELSE "DRAFT"]
           others == {Pair(o, r) : o \in {q \in extraction[x].seen : ShouldConflict(q, c, r)}}
<1>1. /\ req' = IF found = {} THEN Append(req, row) ELSE req
      /\ extraction' = [extraction EXCEPT ![x].seen = @ \cup {r}, ![x].against = others]
      /\ UNCHANGED <<reviewed, source, indexed, command>>
  BY DEF SaveProposal
<1>2. req \in Seq(Row) /\ Len(req) \in Nat /\ DOMAIN req = 1..Len(req)
  BY LenProperties DEF ReviewInv, RequirementsTyped
<1>3. extraction[x] \in HeldRow  BY DEF ReviewInv, RequirementsTyped
<1>4. r \in Nat
  <2>1. found \subseteq Nat  BY <1>2 DEF Extracted
  <2> QED  BY <1>2, <2>1
<1>5. extraction' \in [Extraction -> HeldRow]
  <2> HIDE DEF r
  <2>0. \A o \in extraction[x].seen : Pair(o, r) \in Nat \X Nat
    <3>1. \A o \in extraction[x].seen : o \in Nat  BY <1>3 DEF HeldRow
    <3> QED  BY <3>1, <1>4 DEF Pair
  <2>1. others \subseteq Nat \X Nat  BY <2>0
  <2>2. [extraction[x] EXCEPT !.seen = extraction[x].seen \cup {r}, !.against = others] \in HeldRow
    BY <1>3, <1>4, <2>1 DEF HeldRow
  <2> HIDE DEF others
  <2>3. extraction \in [Extraction -> HeldRow]  BY DEF ReviewInv, RequirementsTyped
  <2> QED  BY <1>1, <2>2, <2>3
<1>6. CASE found # {}
  BY <1>1, <1>5, <1>6, Elsewhere DEF ReviewInv, RequirementsTyped
<1>7. CASE found = {}
  <2>1. row \in Row  BY <1>3 DEF Row, HeldRow
  <2>2. req' = Append(req, row)  BY <1>1, <1>7
  <2> HIDE DEF row
  <2>3. row.parent = 0  BY DEF row
  <2>4. /\ req' \in Seq(Row)
        /\ DOMAIN req' = DOMAIN req \cup {Len(req) + 1}
        /\ \A q \in DOMAIN req : req'[q] = req[q]
        /\ \A a, b \in DOMAIN req' : a # b /\ req'[a].parent # 0 => req'[a].parent # req'[b].parent
    BY <2>1, <2>2, <2>3, Appended
  <2>5. RequirementsTyped'  BY <1>1, <1>5, <2>4 DEF ReviewInv, RequirementsTyped
  <2>6. ReviewsSealed' /\ Stand
    BY <1>1, <2>4 DEF ReviewInv, RequirementsTyped, ReviewsSealed, Stand
  <2>7. CommandsTyped'  BY <1>1, <2>4 DEF ReviewInv, CommandsTyped
  <2> QED  BY <2>5, <2>6, <2>7 DEF ReviewInv
<1> QED  BY <1>6, <1>7

\* MarkConflict moves drafts and questions only, which are not reviewed.
LEMMA ConflictMarked ==
  ASSUME ReviewInv, NEW x \in Extraction, NEW p \in extraction[x].against, MarkConflict(x, p)
  PROVE  ReviewInv' /\ Stand
<1>1. extraction' \in [Extraction -> HeldRow]
  <2>1. extraction' = [extraction EXCEPT ![x].against = @ \ {p}]  BY DEF MarkConflict
  <2>2. extraction \in [Extraction -> HeldRow]  BY DEF ReviewInv, RequirementsTyped
  <2>3. extraction[x] \in HeldRow  BY <2>2
  <2>4. [extraction[x] EXCEPT !.against = @ \ {p}] \in HeldRow  BY <2>3 DEF HeldRow
  <2> QED  BY <2>1, <2>2, <2>4
<1>2. UNCHANGED <<reviewed, source, indexed, command>>  BY DEF MarkConflict
<1>3. CASE p \in DOMAIN conflict
  <2>1. UNCHANGED req  BY <1>3 DEF MarkConflict
  <2> QED  BY <1>1, <1>2, <2>1, Elsewhere DEF ReviewInv, RequirementsTyped
<1>4. CASE p \notin DOMAIN conflict
  <2>1. req' = [r \in DOMAIN req |-> IF r \in {p[1], p[2]} /\ req[r].status \in Contestable
                                     THEN [req[r] EXCEPT !.status = "CONFLICT"] ELSE req[r]]
    BY <1>4 DEF MarkConflict
  <2>2. \A r \in DOMAIN req : req[r] \in Row  BY LenProperties, ElementOfSeq DEF ReviewInv, RequirementsTyped
  <2>3. req' \in [DOMAIN req -> Row]  BY <2>1, <2>2 DEF Row
  <2>4. \A r \in DOMAIN req : req'[r].parent = req[r].parent  BY <2>1, <2>2 DEF Row
  <2>5. \A r \in reviewed : req'[r].status = req[r].status
    BY <2>1 DEF ReviewInv, RequirementsTyped, ReviewsSealed, Contestable, Decision
  <2> QED  BY <1>1, <1>2, <2>3, <2>4, <2>5, Updated
<1> QED  BY <1>3, <1>4

\* ReconcileSources moves the inventory, and no status.
LEMMA SourcesReconciled ==
  ASSUME ReviewInv, NEW x \in Extraction, ReconcileSources(x)
  PROVE  ReviewInv' /\ Stand
<1> DEFINE s == extraction[x].source
           removed == Removed(Inventory(Previous(s)), Inventory(s))
<1>1. extraction' \in [Extraction -> HeldRow]
  BY DEF ReviewInv, RequirementsTyped, ReconcileSources, HeldRow, NoExtraction
<1>2. UNCHANGED <<reviewed, source, indexed, command>>  BY DEF ReconcileSources
<1>3. CASE ~StillCurrent(s)
  <2>1. UNCHANGED req  BY <1>3 DEF ReconcileSources
  <2> QED  BY <1>1, <1>2, <2>1, Elsewhere DEF ReviewInv, RequirementsTyped
<1>4. CASE StillCurrent(s)
  <2>1. req' = [r \in DOMAIN req |-> [req[r] EXCEPT !.state =
                  CASE req[r].source = s -> "CURRENT"
                    [] r \in removed -> "REMOVED"
                    [] req[r].source # s /\ r \notin removed /\ req[r].state = "CURRENT" -> "HISTORICAL"
                    [] OTHER -> req[r].state]]
    BY <1>4 DEF ReconcileSources
  <2> HIDE DEF s, removed
  <2>2. \A r \in DOMAIN req : req[r] \in Row  BY LenProperties, ElementOfSeq DEF ReviewInv, RequirementsTyped
  <2>3. req' \in [DOMAIN req -> Row]  BY <2>1, <2>2 DEF Row
  <2>4. \A r \in DOMAIN req : req'[r].parent = req[r].parent /\ req'[r].status = req[r].status
    BY <2>1, <2>2 DEF Row
  <2>5. \A r \in reviewed : req'[r].status = req[r].status
    BY <2>4 DEF ReviewInv, RequirementsTyped
  <2> QED  BY <1>1, <1>2, <2>3, <2>4, <2>5, Updated
<1> QED  BY <1>3, <1>4

-----------------------------------------------------------------------------
(* Reviews and clarifications. *)

\* A decision that is not refused either revises a row that none revises, or
\* decides in place, and a reviewed row only as it was decided.
LEMMA DecisionMade ==
  ASSUME ReviewInv, NEW r \in DOMAIN req, NEW decision \in Decision, NEW edit \in BOOLEAN,
         ~Refused(r, decision, edit), Decided(r, decision, edit),
         UNCHANGED <<source, indexed, extraction>>
  PROVE  /\ RequirementsTyped' /\ ReviewsSealed'
         /\ DOMAIN req \subseteq DOMAIN req'
         /\ \A q \in reviewed : req'[q].status = req[q].status
<1>1. req \in Seq(Row) /\ Len(req) \in Nat /\ DOMAIN req = 1..Len(req)
  BY LenProperties DEF ReviewInv, RequirementsTyped
<1>2. req[r] \in Row  BY <1>1, ElementOfSeq
<1>3. CASE Revises(r, decision, edit)
  <2> DEFINE row == [req[r] EXCEPT !.parent = r, !.status = decision,
                               !.text = IF edit THEN "edited" ELSE req[r].text]
  <2>1. row \in Row /\ row.parent = r /\ row.status = decision
    <3> DEFINE text == IF edit THEN "edited" ELSE req[r].text
    <3>1. r \in Nat  BY <1>1
    <3>2. text \in {c.text : c \in Statement} \cup {"edited"}  BY <1>2 DEF Row
    <3>3. row = [req[r] EXCEPT !.parent = r, !.status = decision, !.text = text]  OBVIOUS
    <3> HIDE DEF row, text
    <3>4. PICK old \in Row : old = req[r]  BY <1>2
    <3>5. row = [old EXCEPT !.parent = r, !.status = decision, !.text = text]  BY <3>3, <3>4
    <3> QED  BY <3>1, <3>2, <3>5 DEF Row
  <2>2. \A q \in DOMAIN req : req[q].parent # r
    BY DEF Refused, Blockers, IsCurrent, Superseded
  <2>3. req' = Append(req, row) /\ reviewed' = reviewed \cup {Len(req) + 1}
    BY <1>3 DEF Decided
  <2> HIDE DEF row
  <2>4. /\ req' \in Seq(Row)
        /\ DOMAIN req' = DOMAIN req \cup {Len(req) + 1}
        /\ Len(req) + 1 \notin DOMAIN req
        /\ \A q \in DOMAIN req : req'[q] = req[q]
        /\ req'[Len(req) + 1] = row
        /\ \A a, b \in DOMAIN req' : a # b /\ req'[a].parent # 0 => req'[a].parent # req'[b].parent
    BY <2>1, <2>2, <2>3, Appended
  <2> QED  BY <2>1, <2>3, <2>4 DEF ReviewInv, RequirementsTyped, ReviewsSealed
<1>4. CASE ~Revises(r, decision, edit)
  <2>1. req' = [req EXCEPT ![r].status = decision]
    BY <1>4 DEF Decided
  <2>2. reviewed' = IF req[r].status # decision THEN reviewed \cup {r} ELSE reviewed
    BY <1>4 DEF Decided
  <2>3. r \in reviewed => req[r].status = decision  BY <1>4 DEF Revises
  <2>4. [req[r] EXCEPT !.status = decision] \in Row  BY <1>2 DEF Row
  <2>5. req' \in [DOMAIN req -> Row]
    BY <1>1, <2>1, <2>4
  <2>6. req' \in Seq(Row) /\ DOMAIN req' = DOMAIN req  BY <1>1, <2>5, SameRows
  <2>7. /\ \A q \in DOMAIN req : q # r => req'[q] = req[q]
        /\ req'[r].status = decision /\ req'[r].parent = req[r].parent
    BY <1>1, <1>2, <2>1 DEF Row
  <2>8. RequirementsTyped'  BY <2>2, <2>6 DEF ReviewInv, RequirementsTyped
  <2>9. ReviewsSealed'
    BY <2>2, <2>6, <2>7 DEF ReviewInv, RequirementsTyped, ReviewsSealed
  <2> QED  BY <2>3, <2>6, <2>7, <2>8, <2>9 DEF ReviewInv, RequirementsTyped
<1> QED  BY <1>3, <1>4

\* A single review leaves the commands alone.
LEMMA Reviewed ==
  ASSUME ReviewInv, NEW r \in DOMAIN req, NEW decision \in Decision, NEW edit \in BOOLEAN,
         Review(r, decision, edit)
  PROVE  ReviewInv' /\ Stand
<1>1. /\ RequirementsTyped' /\ ReviewsSealed'
      /\ DOMAIN req \subseteq DOMAIN req'
      /\ \A q \in reviewed : req'[q].status = req[q].status
  BY DecisionMade DEF Review
<1>2. command' = command  BY DEF Review
<1>3. CommandsTyped'  BY <1>1, <1>2 DEF ReviewInv, CommandsTyped
<1>4. Stand  BY <1>1, <1>2 DEF Stand, ReviewsSealed
<1> QED  BY <1>1, <1>3, <1>4 DEF ReviewInv

\* A batch shows rows of the list.
LEMMA Sent ==
  ASSUME ReviewInv, NEW v \in Batch, NEW r \in DOMAIN req, NEW decision \in BatchDecision,
         Send(v, r, decision)
  PROVE  ReviewInv' /\ Stand
<1>1. decision \in Decision  BY BatchDecisionAssumption DEF Decision
<1>2. r # 0  BY LenProperties DEF ReviewInv, RequirementsTyped
<1>3. UNCHANGED <<req, reviewed, source, indexed, extraction>>  BY DEF Send
<1>4. RequirementsTyped' /\ ReviewsSealed'  BY <1>3 DEF ReviewInv, RequirementsTyped, ReviewsSealed
<1>5. CommandsTyped'  BY <1>1, <1>2, <1>3 DEF Send, ReviewInv, CommandsTyped
<1>6. Stand  BY <1>3 DEF Send, Stand, ReviewInv, ReviewsSealed, CommandsTyped
<1> QED  BY <1>4, <1>5, <1>6 DEF ReviewInv

\* A batch is applied once, then answered the same.
LEMMA BatchReviewed ==
  ASSUME ReviewInv, NEW v \in Batch, BulkReview(v)
  PROVE  ReviewInv' /\ Stand
<1>1. UNCHANGED <<source, indexed, extraction>>  BY DEF BulkReview
<1>2. CASE SentAgain(v)
  <2>1. UNCHANGED <<req, reviewed, command>>  BY <1>2 DEF SentAgain
  <2> QED  BY <1>1, <2>1, Elsewhere DEF ReviewInv, RequirementsTyped
<1>3. CASE SentInVain(v)
  <2>1. UNCHANGED <<req, reviewed>>  BY <1>3 DEF SentInVain
  <2>2. RequirementsTyped' /\ ReviewsSealed'  BY <1>1, <2>1 DEF ReviewInv, RequirementsTyped, ReviewsSealed
  <2>3. CommandsTyped'  BY <1>3, <2>1 DEF SentInVain, ReviewInv, CommandsTyped, NoCommand, Decision
  <2>4. Stand  BY <1>3, <2>1 DEF SentInVain, Replayed, Stand, ReviewInv, ReviewsSealed, CommandsTyped
  <2> QED  BY <2>2, <2>3, <2>4 DEF ReviewInv
<1>4. CASE Applied(v)
  <2>1. command[v].row \in DOMAIN req /\ command[v].decision \in Decision
    BY DEF BulkReview, ReviewInv, CommandsTyped
  <2>2. /\ RequirementsTyped' /\ ReviewsSealed'
        /\ DOMAIN req \subseteq DOMAIN req'
        /\ \A q \in reviewed : req'[q].status = req[q].status
    BY <1>1, <1>4, <2>1, DecisionMade DEF Applied
  <2>3. command' = [command EXCEPT ![v].answer = "APPLIED", ![v].view = << >>]
    BY <1>4 DEF Applied, Answered
  <2>4. command[v].row # 0  BY DEF BulkReview
  <2>5. CommandsTyped'  BY <2>2, <2>3, <2>4 DEF ReviewInv, CommandsTyped
  <2>6. Stand  BY <2>2, <2>3 DEF Stand, ReviewsSealed, ReviewInv, CommandsTyped
  <2> QED  BY <2>2, <2>5, <2>6 DEF ReviewInv
<1> QED  BY <1>2, <1>3, <1>4 DEF BulkReview

\* An answer leads back to DRAFT what waited for it, which is not reviewed.
LEMMA IssueSettled ==
  ASSUME ReviewInv, NEW rows, req' = Settled(rows),
         UNCHANGED <<reviewed, source, indexed, extraction, command>>
  PROVE  ReviewInv' /\ Stand
<1>1. \A r \in DOMAIN req : req[r] \in Row  BY LenProperties, ElementOfSeq DEF ReviewInv, RequirementsTyped
<1>2. PICK open : req' = [r \in DOMAIN req |->
            IF r \in rows /\ req[r].status \in {"CONFLICT", "TBD"} /\ r \notin open
            THEN [req[r] EXCEPT !.status = "DRAFT"] ELSE req[r]]
  <2>1. WITNESS {r \in DOMAIN req : OpenIssue(r)'}
  <2> QED  BY DEF Settled
<1>3. req' \in [DOMAIN req -> Row]  BY <1>1, <1>2 DEF Row
<1>4. \A r \in DOMAIN req : req'[r].parent = req[r].parent  BY <1>1, <1>2 DEF Row
<1>5. \A r \in reviewed : req'[r].status = req[r].status
  BY <1>2 DEF ReviewInv, RequirementsTyped, ReviewsSealed, Decision
<1> QED  BY <1>3, <1>4, <1>5, Updated DEF ReviewInv, RequirementsTyped

-----------------------------------------------------------------------------
\* Every step keeps what was reviewed.
LEMMA ReviewSteps ==
  ASSUME ReviewInv, [ReviewNext]_reviewVars
  PROVE  ReviewInv' /\ [Stand]_reviewVars
<1>1. CASE ChangeSources
  BY <1>1, Elsewhere DEF ChangeSources, ReviewInv, RequirementsTyped
<1>2. CASE IndexSources
  BY <1>2, Elsewhere DEF IndexSources, ReviewInv, RequirementsTyped
<1>3. ASSUME NEW x \in Extraction, NEW s \in 1..indexed, BeginExtraction(x, s) PROVE ReviewInv' /\ Stand
  <2>1. s \in Nat  BY DEF ReviewInv, RequirementsTyped
  <2>2. extraction' \in [Extraction -> HeldRow]
    BY <1>3, <2>1 DEF BeginExtraction, ReviewInv, RequirementsTyped, NoExtraction, HeldRow
  <2> QED  BY <1>3, <2>2, Elsewhere DEF BeginExtraction, ReviewInv, RequirementsTyped
<1>4. ASSUME NEW x \in Extraction, NEW c \in Statement, SaveProposal(x, c) PROVE ReviewInv' /\ Stand
  BY <1>4, ProposalSaved
<1>5. ASSUME NEW x \in Extraction, NEW p \in extraction[x].against, MarkConflict(x, p) PROVE ReviewInv' /\ Stand
  BY <1>5, ConflictMarked
<1>6. ASSUME NEW x \in Extraction, ReconcileSources(x) PROVE ReviewInv' /\ Stand
  BY <1>6, SourcesReconciled
<1>7. ASSUME NEW x \in Extraction, ExtractionStops(x) PROVE ReviewInv' /\ Stand
  <2>1. extraction' \in [Extraction -> HeldRow]
    BY <1>7 DEF ExtractionStops, ReviewInv, RequirementsTyped, NoExtraction, HeldRow
  <2> QED  BY <1>7, <2>1, Elsewhere DEF ExtractionStops, ReviewInv, RequirementsTyped
<1>8. ASSUME NEW r \in DOMAIN req, NEW decision \in Decision, NEW edit \in BOOLEAN, Review(r, decision, edit)
      PROVE  ReviewInv' /\ Stand
  BY <1>8, Reviewed
<1>9. ASSUME NEW v \in Batch, NEW r \in DOMAIN req, NEW decision \in BatchDecision, Send(v, r, decision)
      PROVE  ReviewInv' /\ Stand
  BY <1>9, Sent
<1>10. ASSUME NEW v \in Batch, BulkReview(v) PROVE ReviewInv' /\ Stand
  BY <1>10, BatchReviewed
<1>11. ASSUME NEW p \in DOMAIN conflict, ResolveConflict(p) PROVE ReviewInv' /\ Stand
  BY <1>11, IssueSettled DEF ResolveConflict
<1>12. ASSUME NEW r \in DOMAIN question, AnswerQuestion(r) PROVE ReviewInv' /\ Stand
  BY <1>12, IssueSettled DEF AnswerQuestion
<1>13. CASE UNCHANGED reviewVars
  BY <1>13 DEF reviewVars, ReviewInv, RequirementsTyped, ReviewsSealed, CommandsTyped
<1> QED
  BY <1>1, <1>2, <1>3, <1>4, <1>5, <1>6, <1>7, <1>8, <1>9, <1>10, <1>11, <1>12, <1>13 DEF ReviewNext

\* Reviews stand (requirement.Repository.Review, BulkReview, MarkConflict,
\* ResolveClarification and ReconcileSources).
THEOREM Decisions == ReviewSpec => ReviewsStand
<1>1. ReviewInit => ReviewInv  BY ReviewStarts
<1>2. ReviewInv /\ [ReviewNext]_reviewVars => ReviewInv' /\ [Stand]_reviewVars  BY ReviewSteps
<1>3. ReviewSpec => [][Stand]_reviewVars  BY <1>1, <1>2, PTL DEF ReviewSpec
<1> QED  BY <1>3 DEF ReviewsStand, Stand

-----------------------------------------------------------------------------
(* The inventory. *)

\* The current rows are of one snapshot, which was indexed: indexes follow the
\* source revisions in order, and only a job that builds the newest one may
\* publish.
InventoryInv ==
    /\ indexed <= source
    /\ \A a \in DOMAIN req : req[a].state = "CURRENT" => req[a].source <= indexed
    /\ \A a, b \in DOMAIN req :
          req[a].state = "CURRENT" /\ req[b].state = "CURRENT" => req[a].source = req[b].source

\* What InventoryMovesOn says of one step.
Moves == Cardinality(CurrentSources') <= 1 /\ \A s \in CurrentSources, t \in CurrentSources' : s <= t

\* No row becomes current by itself: a current row has the source of one that
\* was current.
NothingPublished ==
    \A a \in DOMAIN req' : req'[a].state = "CURRENT" =>
        \E b \in DOMAIN req : req[b].state = "CURRENT" /\ req[b].source = req'[a].source

\* A set without two different members has one at most.
LEMMA AtMostOne ==
  ASSUME NEW S, \A a, b \in S : a = b
  PROVE  Cardinality(S) <= 1
<1>1. CASE S = {}  BY <1>1, FS_EmptySet
<1>2. CASE S # {}
  <2>1. PICK a \in S : S = {a}  BY <1>2
  <2> QED  BY <2>1, FS_Singleton
<1> QED  BY <1>1, <1>2

\* A step after which the current rows are of one snapshot, not older than any
\* that was current, moves the inventory on.
LEMMA MovedOn ==
  ASSUME InventoryInv',
         \A a \in DOMAIN req, b \in DOMAIN req' :
            req[a].state = "CURRENT" /\ req'[b].state = "CURRENT" => req[a].source <= req'[b].source
  PROVE  Moves
<1>1. PICK now : now = req'  OBVIOUS
<1>2. CurrentSources' = {now[r].source : r \in {q \in DOMAIN now : now[q].state = "CURRENT"}}
  BY <1>1 DEF CurrentSources
<1>3. \A a, b \in CurrentSources' : a = b  BY <1>1, <1>2 DEF InventoryInv
<1>4. Cardinality(CurrentSources') <= 1  BY <1>3, AtMostOne
<1>5. \A s \in CurrentSources, t \in CurrentSources' : s <= t  BY <1>1, <1>2 DEF CurrentSources
<1> QED  BY <1>4, <1>5 DEF Moves

\* Sources and indexes only grow, and a step that publishes nothing keeps the
\* inventory.
LEMMA InventoryKept ==
  ASSUME ReviewInv, InventoryInv, NothingPublished,
         source' \in Nat, indexed' \in Nat, indexed <= indexed', indexed' <= source'
  PROVE  InventoryInv' /\ Moves
<1>1. source \in Nat /\ indexed \in Nat  BY DEF ReviewInv, RequirementsTyped
<1>2. \A r \in DOMAIN req : req[r].source \in Nat
  <2>1. \A r \in DOMAIN req : req[r] \in Row  BY LenProperties, ElementOfSeq DEF ReviewInv, RequirementsTyped
  <2> QED  BY <2>1 DEF Row
<1>3. \A a \in DOMAIN req' : req'[a].state = "CURRENT" => req'[a].source <= indexed'
  BY <1>1, <1>2 DEF NothingPublished, InventoryInv
<1>4. \A a, b \in DOMAIN req' :
        req'[a].state = "CURRENT" /\ req'[b].state = "CURRENT" => req'[a].source = req'[b].source
  BY DEF NothingPublished, InventoryInv
<1>5. InventoryInv'  BY <1>3, <1>4 DEF InventoryInv
<1>6. \A a \in DOMAIN req, b \in DOMAIN req' :
        req[a].state = "CURRENT" /\ req'[b].state = "CURRENT" => req[a].source <= req'[b].source
  BY <1>2 DEF NothingPublished, InventoryInv
<1> QED  BY <1>5, <1>6, MovedOn

\* A step that leaves the sources and the index alone, and publishes nothing.
LEMMA InventoryAside ==
  ASSUME ReviewInv, InventoryInv, NothingPublished, UNCHANGED <<source, indexed>>
  PROVE  InventoryInv' /\ Moves
<1>1. source \in Nat /\ indexed \in Nat  BY DEF ReviewInv, RequirementsTyped
<1>2. indexed <= indexed' /\ indexed' <= source'  BY <1>1 DEF InventoryInv
<1> QED  BY <1>1, <1>2, InventoryKept

\* Rows that are left alone, or updated without their state and source.
LEMMA SameStates ==
  ASSUME DOMAIN req' = DOMAIN req,
         \A r \in DOMAIN req : req'[r].state = req[r].state /\ req'[r].source = req[r].source
  PROVE  NothingPublished
BY DEF NothingPublished

\* A new row that is not current, or has the source of one that is.
LEMMA NewRow ==
  ASSUME ReviewInv, NEW row \in Row, req' = Append(req, row),
         row.state = "CURRENT" =>
            \E b \in DOMAIN req : req[b].state = "CURRENT" /\ req[b].source = row.source
  PROVE  NothingPublished
<1>1. req \in Seq(Row) /\ Len(req) \in Nat /\ DOMAIN req = 1..Len(req)
  BY LenProperties DEF ReviewInv, RequirementsTyped
<1>2. /\ req' \in Seq(Row)
      /\ Len(req') = Len(req) + 1
      /\ \A i \in 1..Len(req) : req'[i] = req[i]
      /\ req'[Len(req) + 1] = row
  BY <1>1, AppendProperties
<1>3. DOMAIN req' = 1..(Len(req) + 1)  BY <1>2, LenProperties
<1>4. \A a \in DOMAIN req' : a \in DOMAIN req \/ a = Len(req) + 1  BY <1>1, <1>3
<1> QED  BY <1>1, <1>2, <1>4 DEF NothingPublished

\* ReconcileSources publishes only the snapshot of the newest source revision.
LEMMA InventoryReconciled ==
  ASSUME ReviewInv, InventoryInv, NEW x \in Extraction, ReconcileSources(x)
  PROVE  InventoryInv' /\ Moves
<1> DEFINE s == extraction[x].source
           removed == Removed(Inventory(Previous(s)), Inventory(s))
<1>1. UNCHANGED <<source, indexed>>  BY DEF ReconcileSources
<1>2. CASE ~StillCurrent(s)
  <2>1. UNCHANGED req  BY <1>2 DEF ReconcileSources
  <2>2. NothingPublished  BY <2>1, SameStates
  <2> QED  BY <1>1, <2>2, InventoryAside
<1>3. CASE StillCurrent(s)
  <2>1. req' = [r \in DOMAIN req |-> [req[r] EXCEPT !.state =
                  CASE req[r].source = s -> "CURRENT"
                    [] r \in removed -> "REMOVED"
                    [] req[r].source # s /\ r \notin removed /\ req[r].state = "CURRENT" -> "HISTORICAL"
                    [] OTHER -> req[r].state]]
    BY <1>3 DEF ReconcileSources
  <2>2. s = indexed /\ indexed = source  BY <1>3 DEF StillCurrent
  <2> HIDE DEF s, removed
  <2>3. \A r \in DOMAIN req : req[r] \in Row  BY LenProperties, ElementOfSeq DEF ReviewInv, RequirementsTyped
  <2>4. DOMAIN req' = DOMAIN req /\ \A r \in DOMAIN req : req'[r].source = req[r].source
    BY <2>1, <2>3 DEF Row
  <2>5. ASSUME NEW r \in DOMAIN req, req'[r].state = "CURRENT" PROVE req[r].source = s
    <3>1. SUFFICES ASSUME req[r].source # s PROVE FALSE  OBVIOUS
    <3>2. req'[r].state = CASE req[r].source = s -> "CURRENT"
                            [] r \in removed -> "REMOVED"
                            [] req[r].source # s /\ r \notin removed /\ req[r].state = "CURRENT" -> "HISTORICAL"
                            [] OTHER -> req[r].state
      BY <2>1, <2>3 DEF Row
    <3>3. CASE r \in removed
      BY <2>5, <3>1, <3>2, <3>3
    <3>4. CASE r \notin removed /\ req[r].state = "CURRENT"
      BY <2>5, <3>1, <3>2, <3>4
    <3>5. CASE r \notin removed /\ req[r].state # "CURRENT"
      BY <2>5, <3>1, <3>2, <3>5
    <3> QED  BY <3>3, <3>4, <3>5
  <2>6. \A r \in DOMAIN req' : req'[r].state = "CURRENT" => req'[r].source = indexed
    BY <2>2, <2>4, <2>5
  <2>7. indexed \in Nat  BY DEF ReviewInv, RequirementsTyped
  <2>8. InventoryInv'
    <3>1. \A a \in DOMAIN req' : req'[a].state = "CURRENT" => req'[a].source <= indexed'
      BY <1>1, <2>6, <2>7
    <3>2. \A a, b \in DOMAIN req' :
            req'[a].state = "CURRENT" /\ req'[b].state = "CURRENT" => req'[a].source = req'[b].source
      BY <2>6
    <3> QED  BY <1>1, <3>1, <3>2 DEF InventoryInv
  <2>9. \A a \in DOMAIN req, b \in DOMAIN req' :
          req[a].state = "CURRENT" /\ req'[b].state = "CURRENT" => req[a].source <= req'[b].source
    BY <2>6 DEF InventoryInv
  <2> QED  BY <2>8, <2>9, MovedOn
<1> QED  BY <1>2, <1>3

\* A decision makes a revision of a current row, or decides in place.
LEMMA DecisionPublishesNothing ==
  ASSUME ReviewInv, NEW r \in DOMAIN req, NEW decision \in Decision, NEW edit \in BOOLEAN,
         ~Refused(r, decision, edit), Decided(r, decision, edit)
  PROVE  NothingPublished
<1>1. req \in Seq(Row) /\ Len(req) \in Nat /\ DOMAIN req = 1..Len(req)
  BY LenProperties DEF ReviewInv, RequirementsTyped
<1>2. \A q \in DOMAIN req : req[q] \in Row  BY <1>1, ElementOfSeq
<1>3. CASE Revises(r, decision, edit)
  <2> DEFINE row == [req[r] EXCEPT !.parent = r, !.status = decision,
                               !.text = IF edit THEN "edited" ELSE req[r].text]
  <2>1. row \in Row /\ row.state = req[r].state /\ row.source = req[r].source
    <3> DEFINE text == IF edit THEN "edited" ELSE req[r].text
    <3>1. r \in Nat  BY <1>1
    <3>2. text \in {c.text : c \in Statement} \cup {"edited"}  BY <1>2 DEF Row
    <3>3. row = [req[r] EXCEPT !.parent = r, !.status = decision, !.text = text]  OBVIOUS
    <3> HIDE DEF row, text
    <3>4. PICK old \in Row : old = req[r]  BY <1>2
    <3>5. row = [old EXCEPT !.parent = r, !.status = decision, !.text = text]  BY <3>3, <3>4
    <3> QED  BY <3>1, <3>2, <3>4, <3>5 DEF Row
  <2>2. req' = Append(req, row)  BY <1>3 DEF Decided
  <2> HIDE DEF row
  <2> QED  BY <2>1, <2>2, NewRow
<1>4. CASE ~Revises(r, decision, edit)
  <2>1. req' = [req EXCEPT ![r].status = decision]  BY <1>4 DEF Decided
  <2>2. \A q \in DOMAIN req : req'[q].state = req[q].state /\ req'[q].source = req[q].source
    BY <1>2, <2>1 DEF Row
  <2> QED  BY <2>1, <2>2, SameStates
<1> QED  BY <1>3, <1>4

\* A proposal is historical until its snapshot is published.
LEMMA ProposalPublishesNothing ==
  ASSUME ReviewInv, NEW x \in Extraction, NEW c \in Statement, SaveProposal(x, c)
  PROVE  NothingPublished
<1> DEFINE s == extraction[x].source
           row == [claim |-> c, text |-> c.text, source |-> s, parent |-> 0, state |-> "HISTORICAL",
                   status |-> IF c.unclear THEN "TBD" ELSE "DRAFT"]
<1>1. req' = IF Extracted(c, s) = {} THEN Append(req, row) ELSE req  BY DEF SaveProposal
<1>2. extraction[x] \in HeldRow  BY DEF ReviewInv, RequirementsTyped
<1>3. row \in Row /\ row.state = "HISTORICAL"  BY <1>2 DEF Row, HeldRow
<1> HIDE DEF row
<1>4. CASE Extracted(c, s) = {}
  BY <1>1, <1>3, <1>4, NewRow
<1>5. CASE Extracted(c, s) # {}
  BY <1>1, <1>5, SameStates
<1> QED  BY <1>4, <1>5

\* MarkConflict and the answers update the status of rows alone.
LEMMA StatusOnly ==
  ASSUME ReviewInv, NEW rows, NEW status,
         req' = [r \in DOMAIN req |-> IF r \in rows THEN [req[r] EXCEPT !.status = status] ELSE req[r]]
  PROVE  NothingPublished
<1>1. \A r \in DOMAIN req : req[r] \in Row  BY LenProperties, ElementOfSeq DEF ReviewInv, RequirementsTyped
<1>2. \A r \in DOMAIN req : req'[r].state = req[r].state /\ req'[r].source = req[r].source
  BY <1>1 DEF Row
<1> QED  BY <1>2, SameStates

\* A conflict publishes nothing.
LEMMA ConflictPublishesNothing ==
  ASSUME ReviewInv, NEW x \in Extraction, NEW p \in extraction[x].against, MarkConflict(x, p)
  PROVE  NothingPublished
<1>1. CASE p \in DOMAIN conflict
  BY <1>1, SameStates DEF MarkConflict
<1>2. CASE p \notin DOMAIN conflict
  <2> DEFINE rows == {r \in {p[1], p[2]} : req[r].status \in Contestable}
  <2>1. req' = [r \in DOMAIN req |-> IF r \in rows THEN [req[r] EXCEPT !.status = "CONFLICT"] ELSE req[r]]
    BY <1>2 DEF MarkConflict
  <2> HIDE DEF rows
  <2> QED  BY <2>1, StatusOnly
<1> QED  BY <1>1, <1>2

\* An answer moves rows back to DRAFT, and publishes nothing.
LEMMA AnswerPublishesNothing ==
  ASSUME ReviewInv, NEW rows, req' = Settled(rows)
  PROVE  NothingPublished
<1>1. PICK open : open = {r \in DOMAIN req : OpenIssue(r)'}  OBVIOUS
<1> DEFINE moved == {r \in rows : req[r].status \in {"CONFLICT", "TBD"} /\ r \notin open}
<1>2. req' = [r \in DOMAIN req |-> IF r \in moved THEN [req[r] EXCEPT !.status = "DRAFT"] ELSE req[r]]
  BY <1>1 DEF Settled
<1> HIDE DEF moved
<1> QED  BY <1>2, StatusOnly

\* A set of requirements has no inventory at first.
LEMMA InventoryStarts == ReviewInit => InventoryInv
BY EmptySeq DEF ReviewInit, InventoryInv

\* Every step keeps the inventory, or moves it on.
LEMMA InventorySteps ==
  ASSUME ReviewInv, ReviewInv', InventoryInv, [ReviewNext]_reviewVars
  PROVE  InventoryInv' /\ [Moves]_reviewVars
<1>0. /\ source \in Nat /\ indexed \in Nat /\ source' \in Nat /\ indexed' \in Nat
      /\ indexed <= source
  BY DEF ReviewInv, RequirementsTyped, InventoryInv
<1>1. CASE ChangeSources
  <2>1. NothingPublished  BY <1>1, SameStates DEF ChangeSources
  <2>2. indexed <= indexed' /\ indexed' <= source'  BY <1>0, <1>1 DEF ChangeSources
  <2> QED  BY <1>0, <2>1, <2>2, InventoryKept
<1>2. CASE IndexSources
  <2>1. NothingPublished  BY <1>2, SameStates DEF IndexSources
  <2>2. indexed <= indexed' /\ indexed' <= source'  BY <1>0, <1>2 DEF IndexSources
  <2> QED  BY <1>0, <2>1, <2>2, InventoryKept
<1>3. ASSUME NEW x \in Extraction, NEW s \in 1..indexed, BeginExtraction(x, s) PROVE InventoryInv' /\ Moves
  BY <1>3, SameStates, InventoryAside DEF BeginExtraction
<1>4. ASSUME NEW x \in Extraction, NEW c \in Statement, SaveProposal(x, c) PROVE InventoryInv' /\ Moves
  <2>1. UNCHANGED <<source, indexed>>  BY <1>4 DEF SaveProposal
  <2> QED  BY <1>4, <2>1, ProposalPublishesNothing, InventoryAside
<1>5. ASSUME NEW x \in Extraction, NEW p \in extraction[x].against, MarkConflict(x, p)
      PROVE  InventoryInv' /\ Moves
  <2>1. UNCHANGED <<source, indexed>>  BY <1>5 DEF MarkConflict
  <2> QED  BY <1>5, <2>1, ConflictPublishesNothing, InventoryAside
<1>6. ASSUME NEW x \in Extraction, ReconcileSources(x) PROVE InventoryInv' /\ Moves
  BY <1>6, InventoryReconciled
<1>7. ASSUME NEW x \in Extraction, ExtractionStops(x) PROVE InventoryInv' /\ Moves
  BY <1>7, SameStates, InventoryAside DEF ExtractionStops
<1>8. ASSUME NEW r \in DOMAIN req, NEW decision \in Decision, NEW edit \in BOOLEAN, Review(r, decision, edit)
      PROVE  InventoryInv' /\ Moves
  BY <1>8, DecisionPublishesNothing, InventoryAside DEF Review
<1>9. ASSUME NEW v \in Batch, NEW r \in DOMAIN req, NEW decision \in BatchDecision, Send(v, r, decision)
      PROVE  InventoryInv' /\ Moves
  BY <1>9, SameStates, InventoryAside DEF Send
<1>10. ASSUME NEW v \in Batch, BulkReview(v) PROVE InventoryInv' /\ Moves
  <2>1. UNCHANGED <<source, indexed>>  BY <1>10 DEF BulkReview
  <2>2. CASE SentAgain(v) \/ SentInVain(v)
    BY <2>1, <2>2, SameStates, InventoryAside DEF SentAgain, SentInVain
  <2>3. CASE Applied(v)
    <3>1. command[v].row \in DOMAIN req /\ command[v].decision \in Decision
      BY <1>10 DEF BulkReview, ReviewInv, CommandsTyped
    <3>2. NothingPublished  BY <2>3, <3>1, DecisionPublishesNothing DEF Applied
    <3> QED  BY <2>1, <3>2, InventoryAside
  <2> QED  BY <1>10, <2>2, <2>3 DEF BulkReview
<1>11. ASSUME NEW p \in DOMAIN conflict, ResolveConflict(p) PROVE InventoryInv' /\ Moves
  <2>1. NothingPublished  BY <1>11, AnswerPublishesNothing DEF ResolveConflict
  <2> QED  BY <1>11, <2>1, InventoryAside DEF ResolveConflict
<1>12. ASSUME NEW r \in DOMAIN question, AnswerQuestion(r) PROVE InventoryInv' /\ Moves
  <2>1. NothingPublished  BY <1>12, AnswerPublishesNothing DEF AnswerQuestion
  <2> QED  BY <1>12, <2>1, InventoryAside DEF AnswerQuestion
<1>13. CASE UNCHANGED reviewVars
  BY <1>13 DEF reviewVars, InventoryInv
<1> QED
  BY <1>1, <1>2, <1>3, <1>4, <1>5, <1>6, <1>7, <1>8, <1>9, <1>10, <1>11, <1>12, <1>13 DEF ReviewNext

\* The current inventory is of one snapshot and never goes back to an older one
\* (requirement.Repository.ReconcileSources, SaveProposal, Review).
THEOREM InventoryAdvances == ReviewSpec => InventoryMovesOn
<1>1. ReviewInit => ReviewInv /\ InventoryInv  BY ReviewStarts, InventoryStarts
<1>2. ReviewInv /\ [ReviewNext]_reviewVars => ReviewInv'  BY ReviewSteps
<1>3. ReviewInv /\ ReviewInv' /\ InventoryInv /\ [ReviewNext]_reviewVars => InventoryInv' /\ [Moves]_reviewVars
  BY InventorySteps
<1>4. ReviewSpec => [][Moves]_reviewVars  BY <1>1, <1>2, <1>3, PTL DEF ReviewSpec
<1> QED  BY <1>4 DEF InventoryMovesOn, Moves

-----------------------------------------------------------------------------
(* Types. *)

\* A row is of a source revision of the set and revises an older row.
RowsBound ==
    \A r \in DOMAIN req : req[r].source \in 1..SourceBound /\ req[r].parent \in 0..(r - 1)

\* Issues are about rows, a conflict about two that it names in order.
IssuesTyped ==
    /\ \A p \in DOMAIN conflict : p[1] < p[2] /\ conflict[p] \in {"OPEN", "RESOLVED"}
    /\ DOMAIN question \subseteq DOMAIN req

\* Extractions are of source revisions and remember rows; what they still have
\* to compare are two rows in order.
WorkTyped ==
    /\ source \in 1..SourceBound /\ indexed \in 1..source
    /\ \A x \in Extraction :
          /\ extraction[x].source \in 0..SourceBound
          /\ extraction[x].seen \subseteq DOMAIN req
          /\ extraction[x].against \subseteq {p \in (DOMAIN req) \X (DOMAIN req) : p[1] < p[2]}

AnswersTyped == \A v \in Batch : command[v].answer \in {"NONE", "APPLIED"}

TypedInv == RowsBound /\ IssuesTyped /\ WorkTyped /\ AnswersTyped

\* The parts give the type invariant.
LEMMA PartsTyped == ReviewInv /\ TypedInv => ReviewTypeOK
<1> SUFFICES ASSUME ReviewInv, TypedInv PROVE ReviewTypeOK  OBVIOUS
<1>1. \A r \in DOMAIN req : req[r] \in Row  BY LenProperties, ElementOfSeq DEF ReviewInv, RequirementsTyped
<1>2. \A r \in DOMAIN req : /\ req[r].status \in {"DRAFT", "TBD", "CONFLICT"} \cup Decision
                            /\ req[r].state \in {"CURRENT", "HISTORICAL", "REMOVED"}
  BY <1>1 DEF Row
<1>3. \A x \in Extraction : extraction[x].against \subseteq (DOMAIN req) \X (DOMAIN req)
  BY DEF TypedInv, WorkTyped
<1>4. reviewed \subseteq DOMAIN req  BY DEF ReviewInv, RequirementsTyped
<1> QED  BY <1>2, <1>3, <1>4 DEF TypedInv, RowsBound, IssuesTyped, AnswersTyped, ReviewTypeOK

\* Rows that keep their source and parent.
LEMMA SameBounds ==
  ASSUME RowsBound, DOMAIN req' = DOMAIN req,
         \A r \in DOMAIN req : req'[r].source = req[r].source /\ req'[r].parent = req[r].parent
  PROVE  RowsBound'
BY DEF RowsBound

\* A row that is appended.
LEMMA NewBounds ==
  ASSUME ReviewInv, RowsBound, NEW row \in Row, req' = Append(req, row),
         row.source \in 1..SourceBound, row.parent \in DOMAIN req \cup {0}
  PROVE  RowsBound' /\ DOMAIN req \subseteq DOMAIN req' /\ Len(req) + 1 \in DOMAIN req'
<1>1. req \in Seq(Row) /\ Len(req) \in Nat /\ DOMAIN req = 1..Len(req)
  BY LenProperties DEF ReviewInv, RequirementsTyped
<1>2. /\ req' \in Seq(Row)
      /\ Len(req') = Len(req) + 1
      /\ \A i \in 1..Len(req) : req'[i] = req[i]
      /\ req'[Len(req) + 1] = row
  BY <1>1, AppendProperties
<1>3. DOMAIN req' = 1..(Len(req) + 1)  BY <1>2, LenProperties
<1>4. DOMAIN req \subseteq DOMAIN req' /\ Len(req) + 1 \in DOMAIN req'  BY <1>1, <1>3
<1>5. ASSUME NEW r \in DOMAIN req' PROVE req'[r].source \in 1..SourceBound /\ req'[r].parent \in 0..(r - 1)
  <2>1. CASE r \in DOMAIN req  BY <1>1, <1>2, <2>1 DEF RowsBound
  <2>2. CASE r = Len(req) + 1
    <3>1. row.parent \in 0..(r - 1)  BY <1>1, <2>2
    <3> QED  BY <1>2, <2>2, <3>1
  <2> QED  BY <1>1, <1>3, <2>1, <2>2
<1> QED  BY <1>4, <1>5 DEF RowsBound

\* A step that loses no row, and leaves the issues and the extractions alone.
LEMMA WorkStays ==
  ASSUME IssuesTyped, WorkTyped, DOMAIN req \subseteq DOMAIN req',
         UNCHANGED <<conflict, question, source, indexed, extraction>>
  PROVE  IssuesTyped' /\ WorkTyped'
<1>1. IssuesTyped'  BY DEF IssuesTyped
<1>2. \A x \in Extraction :
        /\ extraction[x].seen \subseteq DOMAIN req'
        /\ extraction[x].against \subseteq {p \in (DOMAIN req') \X (DOMAIN req') : p[1] < p[2]}
  BY DEF WorkTyped
<1>3. WorkTyped'  BY <1>2 DEF WorkTyped
<1> QED  BY <1>1, <1>3

\* A step of one extraction.
LEMMA WorkMoves ==
  ASSUME WorkTyped, NEW x \in Extraction, DOMAIN req \subseteq DOMAIN req',
         UNCHANGED <<source, indexed>>,
         \A y \in Extraction : y # x => extraction'[y] = extraction[y],
         extraction'[x].source \in 0..SourceBound,
         extraction'[x].seen \subseteq DOMAIN req',
         extraction'[x].against \subseteq {p \in (DOMAIN req') \X (DOMAIN req') : p[1] < p[2]}
  PROVE  WorkTyped'
<1>1. ASSUME NEW y \in Extraction, y # x
      PROVE  /\ extraction'[y].source \in 0..SourceBound
             /\ extraction'[y].seen \subseteq DOMAIN req'
             /\ extraction'[y].against \subseteq {p \in (DOMAIN req') \X (DOMAIN req') : p[1] < p[2]}
  BY <1>1 DEF WorkTyped
<1>2. \A y \in Extraction :
        /\ extraction'[y].source \in 0..SourceBound
        /\ extraction'[y].seen \subseteq DOMAIN req'
        /\ extraction'[y].against \subseteq {p \in (DOMAIN req') \X (DOMAIN req') : p[1] < p[2]}
  BY <1>1
<1> QED  BY <1>2 DEF WorkTyped

\* SaveProposal, with the pairs that it has to compare.
LEMMA ProposalTyped ==
  ASSUME ReviewInv, TypedInv, NEW x \in Extraction, NEW c \in Statement, SaveProposal(x, c)
  PROVE  TypedInv'
<1> DEFINE s == extraction[x].source
           found == Extracted(c, s)
           r == IF found = {} THEN Len(req) + 1 ELSE CHOOSE f \in found : TRUE
           row == [claim |-> c, text |-> c.text, source |-> s, parent |-> 0, state |-> "HISTORICAL",
                   status |-> IF c.unclear THEN "TBD" ELSE "DRAFT"]
           others == {Pair(o, r) : o \in {q \in extraction[x].seen : ShouldConflict(q, c, r)}}
<1>1. /\ s # 0
      /\ req' = IF found = {} THEN Append(req, row) ELSE req
      /\ question' = IF found # {} /\ Sealed(r) THEN question ELSE Asked(r, c)
      /\ extraction' = [extraction EXCEPT ![x].seen = @ \cup {r}, ![x].against = others]
      /\ UNCHANGED <<conflict, source, indexed, command>>
  BY DEF SaveProposal
<1>2. extraction[x] \in HeldRow /\ extraction \in [Extraction -> HeldRow]  BY DEF ReviewInv, RequirementsTyped
<1>3. s \in 0..SourceBound /\ extraction[x].seen \subseteq DOMAIN req  BY DEF TypedInv, WorkTyped
<1>4. DOMAIN req = 1..Len(req) /\ Len(req) \in Nat  BY LenProperties DEF ReviewInv, RequirementsTyped
<1>5. RowsBound' /\ DOMAIN req \subseteq DOMAIN req' /\ r \in DOMAIN req'
  <2>1. CASE found = {}
    <3>1. row \in Row  BY <1>2 DEF Row, HeldRow
    <3>2. row.source \in 1..SourceBound /\ row.parent = 0
      <4>1. s \in 1..SourceBound  BY <1>1, <1>3
      <4> QED  BY <4>1
    <3>3. req' = Append(req, row) /\ r = Len(req) + 1  BY <1>1, <2>1
    <3> HIDE DEF row, r, s
    <3>4. RowsBound  BY DEF TypedInv
    <3> QED  BY <3>1, <3>2, <3>3, <3>4, NewBounds
  <2>2. CASE found # {}
    <3>1. req' = req  BY <1>1, <2>2
    <3>2. r \in found  BY <2>2
    <3>3. found \subseteq DOMAIN req  BY DEF Extracted
    <3> QED  BY <3>1, <3>2, <3>3, SameBounds DEF TypedInv
  <2> QED  BY <2>1, <2>2
<1>6. IssuesTyped'
  <2> HIDE DEF r, s, found
  <2>1. DOMAIN question' \subseteq DOMAIN question \cup {r}  BY <1>1 DEF Asked
  <2>2. DOMAIN question \subseteq DOMAIN req  BY DEF TypedInv, IssuesTyped
  <2>3. DOMAIN question' \subseteq DOMAIN req'  BY <1>5, <2>1, <2>2
  <2> QED  BY <1>1, <2>3 DEF TypedInv, IssuesTyped
<1>7. others \subseteq {p \in (DOMAIN req') \X (DOMAIN req') : p[1] < p[2]}
  <2> HIDE DEF r, s, found
  <2> SUFFICES ASSUME NEW o \in extraction[x].seen, ShouldConflict(o, c, r)
               PROVE  Pair(o, r) \in (DOMAIN req') \X (DOMAIN req') /\ Pair(o, r)[1] < Pair(o, r)[2]
    OBVIOUS
  <2>1. o \in DOMAIN req' /\ r \in DOMAIN req' /\ o # r  BY <1>3, <1>5 DEF ShouldConflict
  <2>2. DOMAIN req' \subseteq Nat
    <3>1. ReviewInv'  BY ProposalSaved
    <3> QED  BY <3>1, LenProperties DEF ReviewInv, RequirementsTyped
  <2>3. CASE o < r  BY <2>1, <2>3 DEF Pair
  <2>4. CASE ~(o < r)
    <3>1. r < o  BY <2>1, <2>2, <2>4
    <3> QED  BY <2>1, <2>4, <3>1 DEF Pair
  <2> QED  BY <2>3, <2>4
<1>8. WorkTyped'
  <2> HIDE DEF r, s, found, others
  <2>1. /\ extraction'[x].source = extraction[x].source
        /\ extraction'[x].seen = extraction[x].seen \cup {r}
        /\ extraction'[x].against = others
        /\ \A y \in Extraction : y # x => extraction'[y] = extraction[y]
    BY <1>1, <1>2 DEF HeldRow
  <2>2. extraction'[x].source \in 0..SourceBound  BY <1>3, <2>1 DEF s
  <2>3. extraction'[x].seen \subseteq DOMAIN req'  BY <1>3, <1>5, <2>1
  <2> QED  BY <1>1, <1>5, <1>7, <2>1, <2>2, <2>3, WorkMoves DEF TypedInv
<1>9. AnswersTyped'  BY <1>1 DEF TypedInv, AnswersTyped
<1> QED  BY <1>5, <1>6, <1>8, <1>9 DEF TypedInv

\* An extraction that gives up, or ends, forgets its work.
LEMMA WorkEnds ==
  ASSUME ReviewInv, WorkTyped, NEW x \in Extraction, DOMAIN req \subseteq DOMAIN req',
         NEW s \in 0..SourceBound,
         extraction' = [extraction EXCEPT ![x] = [NoExtraction EXCEPT !.source = s]],
         UNCHANGED <<source, indexed>>
  PROVE  WorkTyped'
<1>1. extraction \in [Extraction -> HeldRow]  BY DEF ReviewInv, RequirementsTyped
<1>2. /\ extraction'[x].source = s /\ extraction'[x].seen = {} /\ extraction'[x].against = {}
      /\ \A y \in Extraction : y # x => extraction'[y] = extraction[y]
  BY <1>1 DEF NoExtraction
<1> QED  BY <1>2, WorkMoves

\* A conflict is between two rows in order.
LEMMA ConflictTyped ==
  ASSUME ReviewInv, TypedInv, NEW x \in Extraction, NEW p \in extraction[x].against, MarkConflict(x, p)
  PROVE  TypedInv'
<1>1. extraction \in [Extraction -> HeldRow]  BY DEF ReviewInv, RequirementsTyped
<1>2. p[1] < p[2] /\ extraction[x].source \in 0..SourceBound /\ extraction[x].seen \subseteq DOMAIN req
      /\ extraction[x].against \subseteq {q \in (DOMAIN req) \X (DOMAIN req) : q[1] < q[2]}
  BY DEF TypedInv, WorkTyped
<1>3. RowsBound' /\ DOMAIN req' = DOMAIN req
  <2>1. CASE p \in DOMAIN conflict
    BY <2>1, SameBounds DEF MarkConflict, TypedInv
  <2>2. CASE p \notin DOMAIN conflict
    <3>1. req' = [r \in DOMAIN req |-> IF r \in {p[1], p[2]} /\ req[r].status \in Contestable
                                       THEN [req[r] EXCEPT !.status = "CONFLICT"] ELSE req[r]]
      BY <2>2 DEF MarkConflict
    <3>2. \A r \in DOMAIN req : req[r] \in Row  BY LenProperties, ElementOfSeq DEF ReviewInv, RequirementsTyped
    <3>3. \A r \in DOMAIN req : req'[r].source = req[r].source /\ req'[r].parent = req[r].parent
      BY <3>1, <3>2 DEF Row
    <3> QED  BY <3>1, <3>3, SameBounds DEF TypedInv
  <2> QED  BY <2>1, <2>2
<1>4. IssuesTyped'
  <2>1. CASE p \in DOMAIN conflict
    BY <1>3, <2>1 DEF MarkConflict, TypedInv, IssuesTyped
  <2>2. CASE p \notin DOMAIN conflict
    <3>1. conflict' = [q \in DOMAIN conflict \cup {p} |-> IF q = p THEN "OPEN" ELSE conflict[q]]
      BY <2>2 DEF MarkConflict
    <3>2. \A q \in DOMAIN conflict' : q[1] < q[2] /\ conflict'[q] \in {"OPEN", "RESOLVED"}
      BY <1>2, <3>1 DEF TypedInv, IssuesTyped
    <3>3. question' = question  BY DEF MarkConflict
    <3> QED  BY <1>3, <3>2, <3>3 DEF TypedInv, IssuesTyped
  <2> QED  BY <2>1, <2>2
<1>5. WorkTyped'
  <2>1. UNCHANGED <<source, indexed>>  BY DEF MarkConflict
  <2>2. /\ extraction'[x].source = extraction[x].source /\ extraction'[x].seen = extraction[x].seen
        /\ extraction'[x].against = extraction[x].against \ {p}
        /\ \A y \in Extraction : y # x => extraction'[y] = extraction[y]
    BY <1>1 DEF MarkConflict, HeldRow
  <2>3. extraction'[x].against \subseteq {q \in (DOMAIN req') \X (DOMAIN req') : q[1] < q[2]}
    BY <1>2, <1>3, <2>2
  <2> QED  BY <1>2, <1>3, <2>1, <2>2, <2>3, WorkMoves DEF TypedInv
<1>6. AnswersTyped'  BY DEF MarkConflict, TypedInv, AnswersTyped
<1> QED  BY <1>3, <1>4, <1>5, <1>6 DEF TypedInv

\* Reconciliation changes states alone.
LEMMA ReconciledTyped ==
  ASSUME ReviewInv, TypedInv, NEW x \in Extraction, ReconcileSources(x)
  PROVE  TypedInv'
<1> DEFINE s == extraction[x].source
           removed == Removed(Inventory(Previous(s)), Inventory(s))
<1>1. UNCHANGED <<conflict, question, source, indexed, command>>  BY DEF ReconcileSources
<1>2. RowsBound' /\ DOMAIN req' = DOMAIN req
  <2>1. CASE ~StillCurrent(s)
    BY <2>1, SameBounds DEF ReconcileSources, TypedInv
  <2>2. CASE StillCurrent(s)
    <3>1. req' = [r \in DOMAIN req |-> [req[r] EXCEPT !.state =
                    CASE req[r].source = s -> "CURRENT"
                      [] r \in removed -> "REMOVED"
                      [] req[r].source # s /\ r \notin removed /\ req[r].state = "CURRENT" -> "HISTORICAL"
                      [] OTHER -> req[r].state]]
      BY <2>2 DEF ReconcileSources
    <3> HIDE DEF s, removed
    <3>2. \A r \in DOMAIN req : req[r] \in Row  BY LenProperties, ElementOfSeq DEF ReviewInv, RequirementsTyped
    <3>3. \A r \in DOMAIN req : req'[r].source = req[r].source /\ req'[r].parent = req[r].parent
      BY <3>1, <3>2 DEF Row
    <3> QED  BY <3>1, <3>3, SameBounds DEF TypedInv
  <2> QED  BY <2>1, <2>2
<1>3. WorkTyped'
  <2>1. extraction' = [extraction EXCEPT ![x] = [NoExtraction EXCEPT !.source = 0]]
    <3>1. NoExtraction = [NoExtraction EXCEPT !.source = 0]  BY DEF NoExtraction
    <3> QED  BY <3>1 DEF ReconcileSources
  <2>2. 0 \in 0..SourceBound  BY RequirementBoundsAssumption
  <2> QED  BY <1>1, <1>2, <2>1, <2>2, WorkEnds DEF TypedInv
<1>4. IssuesTyped' /\ AnswersTyped'  BY <1>1, <1>2 DEF TypedInv, IssuesTyped, AnswersTyped
<1> QED  BY <1>2, <1>3, <1>4 DEF TypedInv

\* A revision is of the source of the row that it revises.
LEMMA DecisionTyped ==
  ASSUME ReviewInv, TypedInv, NEW r \in DOMAIN req, NEW decision \in Decision, NEW edit \in BOOLEAN,
         Decided(r, decision, edit),
         UNCHANGED <<conflict, question, source, indexed, extraction>>
  PROVE  RowsBound' /\ IssuesTyped' /\ WorkTyped'
<1>1. req \in Seq(Row) /\ Len(req) \in Nat /\ DOMAIN req = 1..Len(req)
  BY LenProperties DEF ReviewInv, RequirementsTyped
<1>2. \A q \in DOMAIN req : req[q] \in Row  BY <1>1, ElementOfSeq
<1>3. RowsBound' /\ DOMAIN req \subseteq DOMAIN req'
  <2>1. CASE Revises(r, decision, edit)
    <3> DEFINE text == IF edit THEN "edited" ELSE req[r].text
               row == [req[r] EXCEPT !.parent = r, !.status = decision, !.text = text]
    <3>1. r \in Nat  BY <1>1
    <3>2. text \in {c.text : c \in Statement} \cup {"edited"}  BY <1>2 DEF Row
    <3>3. row \in Row /\ row.parent = r /\ row.source = req[r].source
      <4>1. row = [req[r] EXCEPT !.parent = r, !.status = decision, !.text = text]  OBVIOUS
      <4> HIDE DEF row, text
      <4>2. PICK old \in Row : old = req[r]  BY <1>2
      <4>3. row = [old EXCEPT !.parent = r, !.status = decision, !.text = text]  BY <4>1, <4>2
      <4> QED  BY <3>1, <3>2, <4>2, <4>3 DEF Row
    <3>4. req' = Append(req, row)  BY <2>1 DEF Decided
    <3>5. req[r].source \in 1..SourceBound  BY DEF TypedInv, RowsBound
    <3> HIDE DEF row
    <3>6. row.source \in 1..SourceBound /\ row.parent \in DOMAIN req \cup {0}  BY <3>3, <3>5
    <3> QED  BY <3>3, <3>4, <3>6, NewBounds DEF TypedInv
  <2>2. CASE ~Revises(r, decision, edit)
    <3>1. req' = [req EXCEPT ![r].status = decision]  BY <2>2 DEF Decided
    <3>2. DOMAIN req' = DOMAIN req  BY <3>1
    <3>3. \A q \in DOMAIN req : req'[q].source = req[q].source /\ req'[q].parent = req[q].parent
      BY <1>2, <3>1 DEF Row
    <3> QED  BY <3>2, <3>3, SameBounds DEF TypedInv
  <2> QED  BY <2>1, <2>2
<1> QED  BY <1>3, WorkStays DEF TypedInv

\* An answer is about one of the issues.
LEMMA AnswerTyped ==
  ASSUME ReviewInv, TypedInv, NEW rows, req' = Settled(rows),
         \A p \in DOMAIN conflict' : p \in DOMAIN conflict /\ conflict'[p] \in {conflict[p], "RESOLVED"},
         DOMAIN question' \subseteq DOMAIN question,
         UNCHANGED <<source, indexed, extraction, command>>
  PROVE  TypedInv'
<1>1. PICK open : open = {r \in DOMAIN req : OpenIssue(r)'}  OBVIOUS
<1>2. req' = [r \in DOMAIN req |-> IF r \in rows /\ req[r].status \in {"CONFLICT", "TBD"} /\ r \notin open
                                   THEN [req[r] EXCEPT !.status = "DRAFT"] ELSE req[r]]
  BY <1>1 DEF Settled
<1>3. \A r \in DOMAIN req : req[r] \in Row  BY LenProperties, ElementOfSeq DEF ReviewInv, RequirementsTyped
<1>4. DOMAIN req' = DOMAIN req
      /\ \A r \in DOMAIN req : req'[r].source = req[r].source /\ req'[r].parent = req[r].parent
  BY <1>2, <1>3 DEF Row
<1>5. RowsBound'  BY <1>4, SameBounds DEF TypedInv
<1>6. IssuesTyped'  BY <1>4 DEF TypedInv, IssuesTyped
<1>7. WorkTyped'
  <2>1. DOMAIN req' = DOMAIN req  BY <1>4
  <2> QED  BY <2>1 DEF TypedInv, WorkTyped
<1>8. AnswersTyped'  BY DEF TypedInv, AnswersTyped
<1> QED  BY <1>5, <1>6, <1>7, <1>8 DEF TypedInv

\* A set of requirements starts with neither.
LEMMA TypedStarts == ReviewInit => TypedInv
<1> SUFFICES ASSUME ReviewInit PROVE TypedInv  OBVIOUS
<1>1. DOMAIN req = {} /\ DOMAIN conflict = {} /\ DOMAIN question = {}  BY EmptySeq DEF ReviewInit
<1>2. WorkTyped
  BY RequirementBoundsAssumption DEF ReviewInit, WorkTyped, NoExtraction
<1>3. AnswersTyped  BY DEF ReviewInit, AnswersTyped, NoCommand
<1> QED  BY <1>1, <1>2, <1>3 DEF TypedInv, RowsBound, IssuesTyped

\* Every step keeps the types.
LEMMA TypedSteps ==
  ASSUME ReviewInv, TypedInv, [ReviewNext]_reviewVars
  PROVE  TypedInv'
<1>0. source \in Nat /\ indexed \in Nat /\ source \in 1..SourceBound /\ indexed \in 1..source
  BY DEF ReviewInv, RequirementsTyped, TypedInv, WorkTyped
<1>1. CASE ChangeSources
  <2>1. source' \in 1..SourceBound /\ indexed' \in 1..source'
    BY <1>0, <1>1, RequirementBoundsAssumption DEF ChangeSources
  <2>2. UNCHANGED <<req, conflict, question, extraction, command>>  BY <1>1 DEF ChangeSources
  <2> QED  BY <2>1, <2>2 DEF TypedInv, RowsBound, IssuesTyped, WorkTyped, AnswersTyped
<1>2. CASE IndexSources
  <2>1. source' \in 1..SourceBound /\ indexed' \in 1..source'
    BY <1>0, <1>2 DEF IndexSources
  <2>2. UNCHANGED <<req, conflict, question, extraction, command>>  BY <1>2 DEF IndexSources
  <2> QED  BY <2>1, <2>2 DEF TypedInv, RowsBound, IssuesTyped, WorkTyped, AnswersTyped
<1>3. ASSUME NEW x \in Extraction, NEW s \in 1..indexed, BeginExtraction(x, s) PROVE TypedInv'
  <2>1. s \in 0..SourceBound  BY <1>0, RequirementBoundsAssumption
  <2>2. UNCHANGED <<req, conflict, question, source, indexed, command>>  BY <1>3 DEF BeginExtraction
  <2>3. extraction' = [extraction EXCEPT ![x] = [NoExtraction EXCEPT !.source = s]]
    BY <1>3 DEF BeginExtraction
  <2>4. WorkTyped'  BY <2>1, <2>2, <2>3, WorkEnds DEF TypedInv
  <2> QED  BY <2>2, <2>4 DEF TypedInv, RowsBound, IssuesTyped, AnswersTyped
<1>4. ASSUME NEW x \in Extraction, NEW c \in Statement, SaveProposal(x, c) PROVE TypedInv'
  BY <1>4, ProposalTyped
<1>5. ASSUME NEW x \in Extraction, NEW p \in extraction[x].against, MarkConflict(x, p) PROVE TypedInv'
  BY <1>5, ConflictTyped
<1>6. ASSUME NEW x \in Extraction, ReconcileSources(x) PROVE TypedInv'
  BY <1>6, ReconciledTyped
<1>7. ASSUME NEW x \in Extraction, ExtractionStops(x) PROVE TypedInv'
  <2>1. 0 \in 0..SourceBound  BY RequirementBoundsAssumption
  <2>2. UNCHANGED <<req, conflict, question, source, indexed, command>>  BY <1>7 DEF ExtractionStops
  <2>3. extraction' = [extraction EXCEPT ![x] = [NoExtraction EXCEPT !.source = 0]]
    <3>1. NoExtraction = [NoExtraction EXCEPT !.source = 0]  BY DEF NoExtraction
    <3> QED  BY <1>7, <3>1 DEF ExtractionStops
  <2>4. WorkTyped'  BY <2>1, <2>2, <2>3, WorkEnds DEF TypedInv
  <2> QED  BY <2>2, <2>4 DEF TypedInv, RowsBound, IssuesTyped, AnswersTyped
<1>8. ASSUME NEW r \in DOMAIN req, NEW decision \in Decision, NEW edit \in BOOLEAN, Review(r, decision, edit)
      PROVE  TypedInv'
  <2>1. RowsBound' /\ IssuesTyped' /\ WorkTyped'  BY <1>8, DecisionTyped DEF Review
  <2>2. AnswersTyped'  BY <1>8 DEF Review, TypedInv, AnswersTyped
  <2> QED  BY <2>1, <2>2 DEF TypedInv
<1>9. ASSUME NEW v \in Batch, NEW r \in DOMAIN req, NEW decision \in BatchDecision, Send(v, r, decision)
      PROVE  TypedInv'
  <2>1. UNCHANGED <<req, conflict, question, source, indexed, extraction>>  BY <1>9 DEF Send
  <2>2. AnswersTyped'  BY <1>9 DEF Send, TypedInv, AnswersTyped, ReviewInv, CommandsTyped
  <2> QED  BY <2>1, <2>2 DEF TypedInv, RowsBound, IssuesTyped, WorkTyped
<1>10. ASSUME NEW v \in Batch, BulkReview(v) PROVE TypedInv'
  <2>0. UNCHANGED <<conflict, question, source, indexed, extraction>>  BY <1>10 DEF BulkReview
  <2>1. AnswersTyped'
    <3>1. CASE SentAgain(v)  BY <3>1 DEF SentAgain, TypedInv, AnswersTyped
    <3>2. CASE SentInVain(v)
      BY <3>2 DEF SentInVain, NoCommand, TypedInv, AnswersTyped, ReviewInv, CommandsTyped
    <3>3. CASE Applied(v)
      BY <3>3 DEF Applied, Answered, TypedInv, AnswersTyped, ReviewInv, CommandsTyped
    <3> QED  BY <1>10, <3>1, <3>2, <3>3 DEF BulkReview
  <2>2. CASE SentAgain(v) \/ SentInVain(v)
    <3>1. req' = req  BY <2>2 DEF SentAgain, SentInVain
    <3> QED  BY <2>0, <2>1, <3>1 DEF TypedInv, RowsBound, IssuesTyped, WorkTyped
  <2>3. CASE Applied(v)
    <3>1. command[v].row \in DOMAIN req /\ command[v].decision \in Decision
      BY <1>10 DEF BulkReview, ReviewInv, CommandsTyped
    <3>2. RowsBound' /\ IssuesTyped' /\ WorkTyped'
      BY <2>0, <2>3, <3>1, DecisionTyped DEF Applied
    <3> QED  BY <2>1, <3>2 DEF TypedInv
  <2> QED  BY <1>10, <2>2, <2>3 DEF BulkReview
<1>11. ASSUME NEW p \in DOMAIN conflict, ResolveConflict(p) PROVE TypedInv'
  <2>1. req' = Settled({p[1], p[2]}) /\ UNCHANGED <<question, source, indexed, extraction, command>>
    BY <1>11 DEF ResolveConflict
  <2>2. \A q \in DOMAIN conflict' : q \in DOMAIN conflict /\ conflict'[q] \in {conflict[q], "RESOLVED"}
    BY <1>11 DEF ResolveConflict
  <2> QED  BY <2>1, <2>2, AnswerTyped
<1>12. ASSUME NEW r \in DOMAIN question, AnswerQuestion(r) PROVE TypedInv'
  <2>1. req' = Settled({r}) /\ UNCHANGED <<conflict, source, indexed, extraction, command>>
    BY <1>12 DEF AnswerQuestion
  <2>2. DOMAIN question' \subseteq DOMAIN question  BY <1>12 DEF AnswerQuestion
  <2> QED  BY <2>1, <2>2, AnswerTyped
<1>13. CASE UNCHANGED reviewVars
  BY <1>13 DEF reviewVars, TypedInv, RowsBound, IssuesTyped, WorkTyped, AnswersTyped
<1> QED
  BY <1>1, <1>2, <1>3, <1>4, <1>5, <1>6, <1>7, <1>8, <1>9, <1>10, <1>11, <1>12, <1>13 DEF ReviewNext

\* Rows, issues, extractions and commands keep to their types, and what refers
\* to a row finds it (requirement.Repository).
THEOREM ReviewTyped == ReviewSpec => []ReviewTypeOK
<1>1. ReviewInit => ReviewInv /\ TypedInv  BY ReviewStarts, TypedStarts
<1>2. ReviewInv /\ TypedInv /\ [ReviewNext]_reviewVars => ReviewInv' /\ TypedInv'
  BY ReviewSteps, TypedSteps
<1> QED  BY <1>1, <1>2, PartsTyped, PTL DEF ReviewSpec
=============================================================================
