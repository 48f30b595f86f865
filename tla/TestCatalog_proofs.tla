--------------------------- MODULE TestCatalog_proofs ---------------------------
(***************************************************************************)
(* Proofs about the catalog of test cases, for any requirements, texts,      *)
(* editors, publishers and bounds: no edit is lost, and a release pins what  *)
(* its publisher was shown.                                                  *)
(***************************************************************************)
EXTENDS TestCatalog, SequenceTheorems, FiniteSetTheorems, TLAPS

-----------------------------------------------------------------------------
(* Families and their revisions.                                            *)

FamilyRow == [archived : BOOLEAN, head : Nat]
CaseRow == [family : Nat, version : Nat, content : Content, parent : Nat, restored : Nat,
            status : {"DRAFT", "APPROVED", "REJECTED"}]

RowsTyped ==
    /\ family \in Seq(FamilyRow) /\ caseRevision \in Seq(CaseRow)
    /\ \A f \in DOMAIN family : family[f].head \in RevisionsOf(f)
    /\ \A r \in DOMAIN caseRevision : caseRevision[r].family \in DOMAIN family

\* The revisions of a family are one chain that ends in its head.
Linked1(r) ==
    /\ caseRevision[r].parent < r /\ caseRevision[r].restored < r
    /\ caseRevision[r].parent # 0 => caseRevision[r].parent \in RevisionsOf(caseRevision[r].family)
    /\ r <= family[caseRevision[r].family].head
    /\ r # family[caseRevision[r].family].head =>
          \E n \in RevisionsOf(caseRevision[r].family) : caseRevision[n].parent = r
ChainsLinked ==
    /\ \A r \in DOMAIN caseRevision : Linked1(r)
    /\ \A r, s \in DOMAIN caseRevision :
          r # s /\ caseRevision[r].parent = caseRevision[s].parent => caseRevision[r].parent = 0

UpTo(r) == {v \in RevisionsOf(caseRevision[r].family) : v <= r}
VersionsCounted == \A r \in DOMAIN caseRevision : caseRevision[r].version = Cardinality(UpTo(r))

RowsInv == RowsTyped /\ ChainsLinked /\ VersionsCounted

\* What is there stays what it is, but for statuses and heads.
Grows ==
    /\ DOMAIN family \subseteq DOMAIN family'
    /\ Len(caseRevision') \in Nat /\ Len(caseRevision) <= Len(caseRevision')
    /\ \A r \in DOMAIN caseRevision :
          /\ r \in DOMAIN caseRevision'
          /\ caseRevision'[r].family = caseRevision[r].family
          /\ caseRevision'[r].content = caseRevision[r].content
          /\ caseRevision'[r].parent = caseRevision[r].parent
          /\ caseRevision'[r].restored = caseRevision[r].restored
          /\ caseRevision'[r].version = caseRevision[r].version

\* Ids of rows.
LEMMA RowIds ==
  ASSUME RowsTyped
  PROVE  /\ Len(family) \in Nat /\ DOMAIN family = 1..Len(family)
         /\ Len(caseRevision) \in Nat /\ DOMAIN caseRevision = 1..Len(caseRevision)
         /\ \A f \in DOMAIN family : family[f] \in FamilyRow
         /\ \A r \in DOMAIN caseRevision : caseRevision[r] \in CaseRow
BY DEF RowsTyped

\* Revisions are finitely many, and none has a number that is still free.
LEMMA RevisionsFinite ==
  ASSUME RowsTyped, NEW f
  PROVE  IsFiniteSet(RevisionsOf(f)) /\ RevisionsOf(f) \subseteq 1..Len(caseRevision)
<1>1. IsFiniteSet(1..Len(caseRevision))  BY RowIds, FS_Interval
<1>2. RevisionsOf(f) \in SUBSET (1..Len(caseRevision))  BY RowIds DEF RevisionsOf
<1> QED  BY ONLY <1>1, <1>2, FS_Subset

\* A status or an archived flag is all that changes.
LEMMA RowsStand ==
  ASSUME RowsInv, family' \in Seq(FamilyRow), caseRevision' \in Seq(CaseRow),
         Len(family') = Len(family), Len(caseRevision') = Len(caseRevision),
         \A f \in DOMAIN family : family'[f].head = family[f].head,
         \A r \in DOMAIN caseRevision :
            /\ caseRevision'[r].family = caseRevision[r].family
            /\ caseRevision'[r].content = caseRevision[r].content
            /\ caseRevision'[r].parent = caseRevision[r].parent
            /\ caseRevision'[r].restored = caseRevision[r].restored
            /\ caseRevision'[r].version = caseRevision[r].version
  PROVE  RowsInv' /\ Grows
<1>1. DOMAIN family' = DOMAIN family /\ DOMAIN caseRevision' = DOMAIN caseRevision
  BY RowIds DEF RowsInv
<1>2. \A f : RevisionsOf(f)' = RevisionsOf(f)  BY <1>1 DEF RevisionsOf
<1>3. RowsTyped'  BY <1>1, <1>2 DEF RowsInv, RowsTyped
<1>4. ChainsLinked'
  <2>1. \A r \in DOMAIN caseRevision : Linked1(r)'
    <3> SUFFICES ASSUME NEW r \in DOMAIN caseRevision PROVE Linked1(r)'  OBVIOUS
    <3>1. Linked1(r) /\ caseRevision[r].family \in DOMAIN family  BY DEF RowsInv, ChainsLinked, RowsTyped
    <3>2. \A n \in RevisionsOf(caseRevision[r].family) : caseRevision'[n].parent = caseRevision[n].parent
      BY DEF RevisionsOf
    <3> QED  BY <1>1, <1>2, <3>1, <3>2 DEF Linked1
  <2> QED  BY <1>1, <2>1 DEF RowsInv, ChainsLinked
<1>5. VersionsCounted'
  <2>1. \A r \in DOMAIN caseRevision : UpTo(r)' = UpTo(r)  BY <1>2 DEF UpTo
  <2> QED  BY <1>1, <2>1 DEF RowsInv, VersionsCounted
<1> QED  BY <1>1, <1>3, <1>4, <1>5, RowIds DEF RowsInv, Grows

\* A revision takes the place of the head of its family, or is the first of a
\* new one.
LEMMA RowsExtended ==
  ASSUME RowsInv, NEW f \in 1..(Len(family) + 1), NEW row \in CaseRow, NEW new,
         new = Len(caseRevision) + 1,
         family' \in Seq(FamilyRow), DOMAIN family' = DOMAIN family \cup {f},
         family'[f].head = new, \A g \in DOMAIN family : g # f => family'[g].head = family[g].head,
         caseRevision' \in Seq(CaseRow), Len(caseRevision') = new, caseRevision'[new] = row,
         \A r \in DOMAIN caseRevision : caseRevision'[r] = caseRevision[r],
         row.family = f, row.version = Cardinality(RevisionsOf(f)) + 1, row.restored \in 0..Len(caseRevision),
         row.parent = IF f \in DOMAIN family THEN family[f].head ELSE 0
  PROVE  RowsInv' /\ Grows
<1>1. /\ Len(caseRevision) \in Nat /\ DOMAIN caseRevision = 1..Len(caseRevision)
      /\ DOMAIN caseRevision' = 1..new /\ DOMAIN caseRevision' = DOMAIN caseRevision \cup {new}
      /\ new \notin DOMAIN caseRevision /\ new \in Nat
      /\ \A r \in DOMAIN caseRevision : r \in Nat /\ r < new /\ r # 0
  BY RowIds DEF RowsInv
<1>2. /\ RevisionsOf(f)' = RevisionsOf(f) \cup {new}
      /\ \A g : g # f => RevisionsOf(g)' = RevisionsOf(g)
  BY <1>1 DEF RevisionsOf
<1>3. RowsTyped'
  <2>1. \A g \in DOMAIN family' : family'[g].head \in RevisionsOf(g)'
    BY <1>2 DEF RowsInv, RowsTyped
  <2>2. \A r \in DOMAIN caseRevision' : caseRevision'[r].family \in DOMAIN family'
    BY <1>1 DEF RowsInv, RowsTyped
  <2> QED  BY <2>1, <2>2 DEF RowsTyped
<1>4. f \notin DOMAIN family => RevisionsOf(f) = {}  BY DEF RowsInv, RowsTyped, RevisionsOf
<1>5. f \in DOMAIN family => /\ family[f].head \in RevisionsOf(f) /\ family[f].head \in DOMAIN caseRevision
  BY DEF RowsInv, RowsTyped, RevisionsOf
<1>6. \A r \in DOMAIN caseRevision : Linked1(r)'
  <2> SUFFICES ASSUME NEW r \in DOMAIN caseRevision PROVE Linked1(r)'  OBVIOUS
  <2> DEFINE g == caseRevision[r].family
  <2>1. Linked1(r) /\ g \in DOMAIN family /\ caseRevision'[r] = caseRevision[r] /\ r \in RevisionsOf(g)
    BY DEF RowsInv, ChainsLinked, RowsTyped, RevisionsOf
  <2>2. r <= family'[g].head
    <3>1. CASE g = f  BY <1>1, <3>1
    <3>2. CASE g # f  BY <2>1, <3>2 DEF Linked1
    <3> QED  BY <3>1, <3>2
  <2>3. r # family'[g].head => \E n \in RevisionsOf(g)' : caseRevision'[n].parent = r
    <3>1. CASE r = family[g].head /\ g = f
      <4>1. caseRevision'[new].parent = r  BY <2>1, <3>1
      <4> QED  BY <1>2, <3>1, <4>1
    <3>2. CASE r = family[g].head /\ g # f  BY <2>1, <3>2
    <3>3. CASE r # family[g].head
      <4>1. PICK n \in RevisionsOf(g) : caseRevision[n].parent = r  BY <2>1, <3>3 DEF Linked1
      <4>2. n \in RevisionsOf(g)' /\ caseRevision'[n] = caseRevision[n]  BY <1>2, <4>1 DEF RevisionsOf
      <4> QED  BY <4>1, <4>2
    <3> QED  BY <3>1, <3>2, <3>3
  <2>4. caseRevision[r].parent # 0 => caseRevision[r].parent \in RevisionsOf(g)'
    BY <1>2, <2>1 DEF Linked1
  <2> QED  BY <2>1, <2>2, <2>3, <2>4 DEF Linked1
<1>7. Linked1(new)'
  <2>1. row.parent < new /\ row.restored < new  BY <1>1, <1>5
  <2>2. caseRevision'[new].family = f /\ new <= family'[f].head  BY <1>1
  <2>3. row.parent # 0 => row.parent \in RevisionsOf(f)'  BY <1>2, <1>5
  <2> QED  BY <2>1, <2>2, <2>3 DEF Linked1
<1>8. \A r, s \in DOMAIN caseRevision' :
         r # s /\ caseRevision'[r].parent = caseRevision'[s].parent => caseRevision'[r].parent = 0
  <2>1. \A r \in DOMAIN caseRevision : caseRevision[r].parent = row.parent => row.parent = 0
    <3> SUFFICES ASSUME NEW r \in DOMAIN caseRevision, caseRevision[r].parent = row.parent, row.parent # 0
                 PROVE  FALSE
      OBVIOUS
    <3>1. f \in DOMAIN family /\ row.parent = family[f].head  OBVIOUS
    <3>2. Linked1(r)  BY DEF RowsInv, ChainsLinked
    <3>3. caseRevision[r].family = f
      BY <1>5, <3>1, <3>2 DEF Linked1, RevisionsOf
    <3> QED  BY <1>1, <1>5, <3>1, <3>2, <3>3 DEF Linked1
  <2>2. \A r, s \in DOMAIN caseRevision :
           r # s /\ caseRevision[r].parent = caseRevision[s].parent => caseRevision[r].parent = 0
    BY DEF RowsInv, ChainsLinked
  <2> QED  BY <1>1, <2>1, <2>2
<1>9. VersionsCounted'
  <2>1. \A r \in DOMAIN caseRevision : UpTo(r)' = UpTo(r) /\ caseRevision'[r].version = caseRevision[r].version
    BY <1>1, <1>2 DEF UpTo, RevisionsOf
  <2>2. UpTo(new)' = RevisionsOf(f) \cup {new}
    BY <1>1, <1>2 DEF UpTo, RevisionsOf
  <2>3. Cardinality(RevisionsOf(f) \cup {new}) = Cardinality(RevisionsOf(f)) + 1
    <3>1. RowsTyped  BY DEF RowsInv
    <3>2. IsFiniteSet(RevisionsOf(f))  BY ONLY <3>1, RevisionsFinite
    <3>3. new \notin RevisionsOf(f)  BY <1>1 DEF RevisionsOf
    <3> QED  BY ONLY <3>2, <3>3, FS_AddElement
  <2> QED  BY <1>1, <2>1, <2>2, <2>3 DEF RowsInv, VersionsCounted
<1>10. ChainsLinked'  BY <1>1, <1>6, <1>7, <1>8 DEF ChainsLinked
<1> QED  BY <1>1, <1>3, <1>9, <1>10 DEF RowsInv, Grows

\* insertRevision into a family that is there, after its head.
LEMMA HeadReplaced ==
  ASSUME RowsInv, NEW f \in DOMAIN family, NEW content \in Content,
         NEW restored \in 0..Len(caseRevision),
         InsertRevision(f, content, family[f].head, restored),
         family' = [family EXCEPT ![f].head = Len(caseRevision) + 1]
  PROVE  /\ RowsInv' /\ Grows /\ Len(caseRevision') = Len(caseRevision) + 1
         /\ caseRevision'[Len(caseRevision) + 1].parent = family[f].head
<1> DEFINE new == Len(caseRevision) + 1
           row == [family |-> f, version |-> Cardinality(RevisionsOf(f)) + 1, content |-> content,
                   parent |-> family[f].head, restored |-> restored, status |-> "DRAFT"]
<1>1. RowsTyped  BY DEF RowsInv
<1>2. /\ Len(family) \in Nat /\ DOMAIN family = 1..Len(family) /\ f \in 1..(Len(family) + 1)
      /\ Len(caseRevision) \in Nat /\ DOMAIN caseRevision = 1..Len(caseRevision)
      /\ family[f] \in FamilyRow /\ new \in Nat
  BY <1>1, RowIds
<1>3. caseRevision' = Append(caseRevision, row)  BY DEF InsertRevision
<1>4. Cardinality(RevisionsOf(f)) + 1 \in Nat
  <2>1. IsFiniteSet(RevisionsOf(f))  BY ONLY <1>1, RevisionsFinite
  <2>2. Cardinality(RevisionsOf(f)) \in Nat  BY ONLY <2>1, FS_CardinalityType
  <2> QED  BY ONLY <2>2
<1>5. row \in CaseRow
  <2>1. family[f].head \in Nat /\ f \in Nat /\ restored \in Nat  BY <1>2 DEF FamilyRow
  <2> QED  BY <1>4, <2>1 DEF CaseRow
<1>6. /\ row.family = f /\ row.version = Cardinality(RevisionsOf(f)) + 1 /\ row.restored = restored
      /\ row.parent = family[f].head
  OBVIOUS
<1> HIDE DEF row
<1>7. /\ caseRevision' \in Seq(CaseRow) /\ Len(caseRevision') = new /\ caseRevision'[new] = row
      /\ \A r \in DOMAIN caseRevision : caseRevision'[r] = caseRevision[r]
  BY <1>1, <1>2, <1>3, <1>5 DEF RowsTyped
<1>8. /\ family' \in Seq(FamilyRow) /\ DOMAIN family' = DOMAIN family \cup {f} /\ family'[f].head = new
      /\ \A g \in DOMAIN family : g # f => family'[g].head = family[g].head
  <2>1. [family[f] EXCEPT !.head = new] \in FamilyRow  BY <1>2 DEF FamilyRow
  <2>2. family' = [family EXCEPT ![f] = [family[f] EXCEPT !.head = new]]  OBVIOUS
  <2>3. family' \in Seq(FamilyRow)  BY <1>1, <2>1, <2>2 DEF RowsTyped
  <2> QED  BY <1>2, <2>2, <2>3 DEF FamilyRow
<1> HIDE DEF new
<1>9. RowsInv' /\ Grows
  <2>1. row.parent = IF f \in DOMAIN family THEN family[f].head ELSE 0  BY <1>6
  <2> QED  BY <1>2, <1>5, <1>6, <1>7, <1>8, <2>1, RowsExtended DEF new
<1> QED  BY <1>6, <1>7, <1>9 DEF new

\* insertRevision as the first of a new family.
LEMMA FamilyAdded ==
  ASSUME RowsInv, NEW content \in Content, InsertRevision(Len(family) + 1, content, 0, 0),
         family' = Append(family, [archived |-> FALSE, head |-> Len(caseRevision) + 1])
  PROVE  RowsInv' /\ Grows
<1> DEFINE new == Len(caseRevision) + 1
           f == Len(family) + 1
           row == [family |-> f, version |-> Cardinality(RevisionsOf(f)) + 1, content |-> content,
                   parent |-> 0, restored |-> 0, status |-> "DRAFT"]
<1>1. RowsTyped  BY DEF RowsInv
<1>2. /\ Len(family) \in Nat /\ DOMAIN family = 1..Len(family) /\ f \in 1..(Len(family) + 1)
      /\ Len(caseRevision) \in Nat /\ DOMAIN caseRevision = 1..Len(caseRevision)
      /\ new \in Nat /\ f \in Nat /\ f \notin DOMAIN family
  BY <1>1, RowIds
<1>3. caseRevision' = Append(caseRevision, row)  BY DEF InsertRevision
<1>4. Cardinality(RevisionsOf(f)) + 1 \in Nat
  <2>1. IsFiniteSet(RevisionsOf(f))  BY ONLY <1>1, RevisionsFinite
  <2>2. Cardinality(RevisionsOf(f)) \in Nat  BY ONLY <2>1, FS_CardinalityType
  <2> QED  BY ONLY <2>2
<1>5. row \in CaseRow  BY <1>2, <1>4 DEF CaseRow
<1>6. /\ row.family = f /\ row.version = Cardinality(RevisionsOf(f)) + 1 /\ row.restored = 0 /\ row.parent = 0
  OBVIOUS
<1> HIDE DEF row
<1>7. /\ caseRevision' \in Seq(CaseRow) /\ Len(caseRevision') = new /\ caseRevision'[new] = row
      /\ \A r \in DOMAIN caseRevision : caseRevision'[r] = caseRevision[r]
  BY <1>1, <1>2, <1>3, <1>5 DEF RowsTyped
<1>8. /\ family' \in Seq(FamilyRow) /\ DOMAIN family' = DOMAIN family \cup {f} /\ family'[f].head = new
      /\ \A g \in DOMAIN family : g # f => family'[g].head = family[g].head
  <2>1. [archived |-> FALSE, head |-> new] \in FamilyRow  BY <1>2 DEF FamilyRow
  <2>2. family' \in Seq(FamilyRow) /\ Len(family') = f  BY <1>1, <1>2, <2>1 DEF RowsTyped
  <2>3. family'[f] = [archived |-> FALSE, head |-> new] /\ \A g \in DOMAIN family : family'[g] = family[g]
    BY <1>1, <1>2 DEF RowsTyped
  <2> QED  BY <1>2, <2>2, <2>3
<1> HIDE DEF new, f
<1>9. row.parent = IF f \in DOMAIN family THEN family[f].head ELSE 0  BY <1>2, <1>6
<1>10. row.restored \in 0..Len(caseRevision)  BY <1>2, <1>6
<1> QED  BY <1>2, <1>5, <1>6, <1>7, <1>8, <1>9, <1>10, RowsExtended DEF new, f

-----------------------------------------------------------------------------
(* Editors and publishers.                                                  *)

EditAsk == [family : Nat, head : Nat, content : Content \cup {<< >>}, from : Nat]
EditsTyped ==
    /\ edited \in [Editor -> Nat] /\ editor \in [Editor -> EditAsk]
    /\ \A e \in Editor : editor[e].family # 0 =>
          /\ editor[e].family \in DOMAIN family /\ editor[e].head \in DOMAIN caseRevision
          /\ editor[e].content \in Content /\ editor[e].from \in 0..Len(caseRevision)

\* A request that was answered replaced what it was shown, or repeated it.
EditsAnswered ==
    /\ \A e \in Editor : edited[e] # 0 =>
          /\ editor[e].family # 0 /\ edited[e] \in DOMAIN caseRevision
          /\ edited[e] = editor[e].head \/ caseRevision[edited[e]].parent = editor[e].head
    /\ \A d, e \in Editor : d # e /\ edited[d] = edited[e] /\ edited[d] # 0 =>
          edited[d] \in {editor[d].head, editor[e].head}
EditsInv == EditsTyped /\ EditsAnswered

Hashed == [items : SUBSET Nat, sources : Nat, covered : SUBSET Requirement, uncovered : SUBSET Requirement]
ShownPreview == [covered : SUBSET Requirement, uncovered : SUBSET Requirement, hash : Hashed]
Publication == [items : SUBSET Nat, shown : SUBSET ShownPreview, decided : BOOLEAN]
ReleaseRow == [items : SUBSET Nat, key : Publisher, covered : SUBSET Requirement, uncovered : SUBSET Requirement]

\* A hash stands for all that was shown with it.
HashesShown == \A p \in Publisher : \A preview \in publisher[p].shown :
    preview.covered = preview.hash.covered /\ preview.uncovered = preview.hash.uncovered
ReleasesInv ==
    /\ publisher \in [Publisher -> Publication] /\ release \in Seq(ReleaseRow)
    /\ \A p \in Publisher : publisher[p].items \subseteq DOMAIN caseRevision
    /\ \A n \in DOMAIN release : release[n].items # {} /\ release[n].items \subseteq DOMAIN caseRevision
    /\ HashesShown /\ PublishedAsPreviewed

CountsInv ==
    /\ standing \in [Requirement -> {"DRAFT", "APPROVED", "UNCLEAR", "SUPERSEDED"}]
    /\ sources \in Nat /\ changes \in Nat /\ sources <= changes /\ changes <= ChangeBound

CatalogInv == RowsInv /\ EditsInv /\ ReleasesInv /\ CountsInv

\* An empty catalog.
LEMMA CatalogStarts == CatalogInit => CatalogInv
<1> SUFFICES ASSUME CatalogInit PROVE CatalogInv  OBVIOUS
<1>1. RowsInv
  BY DEF CatalogInit, RowsInv, RowsTyped, ChainsLinked, VersionsCounted
<1>2. EditsInv
  <2>1. NoEdit \in EditAsk /\ NoEdit.family = 0  BY DEF NoEdit, EditAsk
  <2> QED  BY <2>1 DEF CatalogInit, EditsInv, EditsTyped, EditsAnswered
<1>3. ReleasesInv
  <2>1. NoPublication \in Publication /\ NoPublication.shown = {} /\ NoPublication.items = {}
    BY DEF NoPublication, Publication
  <2> QED  BY <2>1 DEF CatalogInit, ReleasesInv, HashesShown, PublishedAsPreviewed
<1>4. CountsInv  BY CatalogAssumption DEF CatalogInit, CountsInv
<1> QED  BY <1>1, <1>2, <1>3, <1>4 DEF CatalogInv

\* Of other actors' requests, a growing catalog changes nothing.
LEMMA EditsStand ==
  ASSUME CatalogInv, Grows, UNCHANGED <<edited, editor>>
  PROVE  EditsInv'
<1>1. /\ Len(caseRevision) \in Nat /\ Len(caseRevision') \in Nat /\ Len(caseRevision) <= Len(caseRevision')
  BY RowIds DEF CatalogInv, RowsInv, Grows
<1>2. EditsTyped'
  <2>1. \A e \in Editor : editor[e].family # 0 => editor[e].from \in 0..Len(caseRevision')
    <3> SUFFICES ASSUME NEW e \in Editor, editor[e].family # 0 PROVE editor[e].from \in 0..Len(caseRevision')
      OBVIOUS
    <3>1. editor[e].from \in 0..Len(caseRevision)  BY DEF CatalogInv, EditsInv, EditsTyped
    <3> QED  BY <1>1, <3>1
  <2> QED  BY <2>1 DEF CatalogInv, EditsInv, EditsTyped, Grows
<1>3. EditsAnswered'  BY DEF CatalogInv, EditsInv, EditsAnswered, Grows
<1> QED  BY <1>2, <1>3 DEF EditsInv
\* Releases that no step touches stand.
LEMMA ReleasesStand ==
  ASSUME CatalogInv, Grows, UNCHANGED <<release, publisher>>
  PROVE  ReleasesInv'
<1>1. /\ \A n \in DOMAIN release : release[n].items \subseteq DOMAIN caseRevision'
      /\ \A p \in Publisher : publisher[p].items \subseteq DOMAIN caseRevision'
  BY DEF CatalogInv, ReleasesInv, Grows
<1> QED  BY <1>1 DEF CatalogInv, ReleasesInv, HashesShown, PublishedAsPreviewed

\* Rows that stay leave everything else as it is.
LEMMA RowsUnchanged ==
  ASSUME CatalogInv, UNCHANGED <<family, caseRevision>>
  PROVE  RowsInv' /\ Grows
<1>1. RowsInv /\ family' \in Seq(FamilyRow) /\ caseRevision' \in Seq(CaseRow)
  BY DEF CatalogInv, RowsInv, RowsTyped
<1> QED  BY <1>1, RowsStand

\* Requirements and sources change, within their bounds.
LEMMA CountsMove ==
  ASSUME CatalogInv,
         \/ UNCHANGED <<standing, sources, changes>>
         \/ Changes /\ (\E q \in Requirement : ChangeRequirement(q))
         \/ Changes /\ sources' \in {sources, sources + 1} /\ standing' = standing
  PROVE  CountsInv'
<1>1. CASE UNCHANGED <<standing, sources, changes>>  BY <1>1 DEF CatalogInv, CountsInv
<1>2. CASE Changes /\ (\E q \in Requirement : ChangeRequirement(q))
  <2>1. PICK q \in Requirement : ChangeRequirement(q)  BY <1>2
  <2>2. \E s \in {"APPROVED", "UNCLEAR", "SUPERSEDED"} : standing' = [standing EXCEPT ![q] = s]
    BY <2>1 DEF ChangeRequirement
  <2>3. sources' = sources /\ changes' = changes + 1 /\ changes < ChangeBound  BY <1>2, <2>1 DEF ChangeRequirement, Changes
  <2>4. standing' \in [Requirement -> {"DRAFT", "APPROVED", "UNCLEAR", "SUPERSEDED"}]
    BY <2>2 DEF CatalogInv, CountsInv
  <2> QED  BY <2>3, <2>4, CatalogAssumption DEF CatalogInv, CountsInv
<1>3. CASE Changes /\ sources' \in {sources, sources + 1} /\ standing' = standing
  BY <1>3, CatalogAssumption DEF CatalogInv, CountsInv, Changes
<1> QED  BY <1>1, <1>2, <1>3

-----------------------------------------------------------------------------
(* Steps.                                                                   *)

\* A requirement changes: no revision of a case does.
LEMMA RequirementChanged ==
  ASSUME CatalogInv, (\E q \in Requirement : ChangeRequirement(q)) \/ ReplaceSources
  PROVE  CatalogInv' /\ Grows
<1>1. UNCHANGED <<family, caseRevision, edited, release, editor, publisher>>
  BY DEF ChangeRequirement, ReplaceSources
<1>2. CountsInv'
  <2>1. CASE \E q \in Requirement : ChangeRequirement(q)
    <3>1. Changes  BY <2>1 DEF ChangeRequirement
    <3> QED  BY <2>1, <3>1, CountsMove
  <2>2. CASE ReplaceSources
    <3>1. Changes /\ sources' \in {sources, sources + 1} /\ standing' = standing  BY <2>2 DEF ReplaceSources
    <3> QED  BY <3>1, CountsMove
  <2> QED  BY <2>1, <2>2
<1>3. RowsInv' /\ Grows  BY <1>1, RowsUnchanged
<1> QED  BY <1>1, <1>2, <1>3, EditsStand, ReleasesStand DEF CatalogInv

\* A case that the suite does not have begins a family.
LEMMA CaseGenerated ==
  ASSUME CatalogInv, NEW content \in Content, SaveGeneratedCase(content)
  PROVE  CatalogInv' /\ Grows
<1>1. /\ InsertRevision(Len(family) + 1, content, 0, 0)
      /\ family' = Append(family, [archived |-> FALSE, head |-> Len(caseRevision) + 1])
      /\ UNCHANGED <<standing, sources, changes, edited, release, editor, publisher>>
  BY DEF SaveGeneratedCase
<1>2. RowsInv' /\ Grows  BY <1>1, FamilyAdded DEF CatalogInv
<1>3. CountsInv'  BY <1>1, CountsMove
<1> QED  BY <1>1, <1>2, <1>3, EditsStand, ReleasesStand DEF CatalogInv

\* A family is archived with all its revisions.
LEMMA FamilyArchived ==
  ASSUME CatalogInv, NEW f \in DOMAIN family, NEW flag \in BOOLEAN, Archive(f, flag)
  PROVE  CatalogInv' /\ Grows
<1>1. /\ Changes /\ family' = [family EXCEPT ![f].archived = flag]
      /\ UNCHANGED <<standing, sources, caseRevision, edited, release, editor, publisher>>
  BY DEF Archive
<1>2. RowsInv' /\ Grows
  <2>1. RowsInv /\ family \in Seq(FamilyRow) /\ family[f] \in FamilyRow /\ caseRevision' \in Seq(CaseRow)
    BY <1>1, RowIds DEF CatalogInv, RowsInv, RowsTyped
  <2>2. [family[f] EXCEPT !.archived = flag] \in FamilyRow /\ [family[f] EXCEPT !.archived = flag].head = family[f].head
    BY <2>1 DEF FamilyRow
  <2>3. family' = [family EXCEPT ![f] = [family[f] EXCEPT !.archived = flag]]  BY <1>1
  <2>4. /\ family' \in Seq(FamilyRow) /\ Len(family') = Len(family)
        /\ \A g \in DOMAIN family : family'[g].head = family[g].head
    BY <2>1, <2>2, <2>3
  <2> QED  BY <1>1, <2>1, <2>4, RowsStand
<1>3. CountsInv'  BY <1>1, CountsMove
<1> QED  BY <1>1, <1>2, <1>3, EditsStand, ReleasesStand DEF CatalogInv

\* A review changes the status of one exact revision.
LEMMA RevisionReviewed ==
  ASSUME CatalogInv, NEW r \in DOMAIN caseRevision, NEW decision \in {"APPROVED", "REJECTED"},
         ReviewExact(r, decision)
  PROVE  CatalogInv' /\ Grows
<1>1. /\ Changes /\ caseRevision' = [caseRevision EXCEPT ![r].status = decision]
      /\ UNCHANGED <<standing, sources, family, edited, release, editor, publisher>>
  BY DEF ReviewExact
<1>2. RowsInv' /\ Grows
  <2> DEFINE row == [caseRevision[r] EXCEPT !.status = decision]
  <2>1. RowsInv /\ family' \in Seq(FamilyRow) /\ caseRevision[r] \in CaseRow /\ caseRevision \in Seq(CaseRow)
    BY <1>1, RowIds DEF CatalogInv, RowsInv, RowsTyped
  <2>2. /\ row \in CaseRow /\ row.family = caseRevision[r].family /\ row.content = caseRevision[r].content
        /\ row.parent = caseRevision[r].parent /\ row.restored = caseRevision[r].restored
        /\ row.version = caseRevision[r].version
    BY <2>1 DEF CaseRow
  <2>3. caseRevision' = [caseRevision EXCEPT ![r] = row]  BY <1>1
  <2> HIDE DEF row
  <2>4. /\ caseRevision' \in Seq(CaseRow) /\ Len(caseRevision') = Len(caseRevision)
        /\ caseRevision'[r] = row /\ \A s \in DOMAIN caseRevision : s # r => caseRevision'[s] = caseRevision[s]
    BY <2>1, <2>2, <2>3
  <2> QED  BY <1>1, <2>1, <2>2, <2>4, RowsStand
<1>3. CountsInv'  BY <1>1, CountsMove
<1> QED  BY <1>1, <1>2, <1>3, EditsStand, ReleasesStand DEF CatalogInv

\* An editor takes up what it is shown, when it has asked for nothing yet.
LEMMA EditsAsked ==
  ASSUME CatalogInv, NEW e \in Editor, NEW f \in DOMAIN family, NEW content \in Content,
         NEW from \in 0..Len(caseRevision), editor[e].family = 0,
         editor' = [editor EXCEPT ![e] = [family |-> f, head |-> family[f].head, content |-> content, from |-> from]],
         UNCHANGED <<standing, sources, changes, family, caseRevision, edited, release, publisher>>
  PROVE  CatalogInv' /\ Grows
<1> DEFINE ask == [family |-> f, head |-> family[f].head, content |-> content, from |-> from]
<1>1. /\ f \in Nat \ {0} /\ family[f].head \in Nat /\ from \in Nat /\ family[f].head \in DOMAIN caseRevision
  <2>1. RowsTyped  BY DEF CatalogInv, RowsInv
  <2>2. f \in Nat \ {0} /\ from \in Nat /\ family[f] \in FamilyRow  BY <2>1, RowIds
  <2>3. family[f].head \in DOMAIN caseRevision  BY <2>1 DEF RowsTyped, RevisionsOf
  <2> QED  BY <2>2, <2>3 DEF FamilyRow
<1>2. ask \in EditAsk /\ ask.family = f /\ ask.head = family[f].head /\ ask.content = content /\ ask.from = from
  BY <1>1 DEF EditAsk
<1>3. editor' = [editor EXCEPT ![e] = ask]  OBVIOUS
<1> HIDE DEF ask
<1>4. /\ editor' \in [Editor -> EditAsk] /\ editor'[e] = ask
      /\ \A d \in Editor : d # e => editor'[d] = editor[d]
  BY <1>2, <1>3 DEF CatalogInv, EditsInv, EditsTyped
<1>5. EditsInv'
  <2>1. EditsTyped'  BY <1>1, <1>2, <1>4 DEF CatalogInv, EditsInv, EditsTyped
  <2>2. edited[e] = 0  BY DEF CatalogInv, EditsInv, EditsAnswered
  <2> QED  BY <1>4, <2>1, <2>2 DEF CatalogInv, EditsInv, EditsAnswered
<1>6. RowsInv' /\ Grows  BY RowsUnchanged
<1>7. CountsInv'  BY CountsMove
<1> QED  BY <1>5, <1>6, <1>7, ReleasesStand DEF CatalogInv

\* The answer is the head that was shown, or what replaced it.
LEMMA EditAnswered ==
  ASSUME CatalogInv, Grows, NEW e \in Editor, NEW r \in DOMAIN caseRevision',
         editor[e].family # 0, edited[e] = 0, r # 0, r \in Nat,
         edited' = [edited EXCEPT ![e] = r], editor' = editor,
         \/ r = editor[e].head
         \/ caseRevision'[r].parent = editor[e].head /\ r \notin DOMAIN caseRevision
  PROVE  EditsInv'
<1>1. EditsTyped'
  <2>1. edited' \in [Editor -> Nat]  BY DEF CatalogInv, EditsInv, EditsTyped
  <2>2. Len(caseRevision) \in Nat /\ Len(caseRevision') \in Nat /\ Len(caseRevision) <= Len(caseRevision')
    BY RowIds DEF CatalogInv, RowsInv, Grows
  <2>3. \A d \in Editor : editor[d].family # 0 => editor[d].from \in 0..Len(caseRevision')
    BY <2>2 DEF CatalogInv, EditsInv, EditsTyped
  <2> QED  BY <2>1, <2>3 DEF CatalogInv, EditsInv, EditsTyped, Grows
<1>2. edited'[e] = r /\ \A d \in Editor : d # e => edited'[d] = edited[d]
  BY DEF CatalogInv, EditsInv, EditsTyped
<1>3. \A d \in Editor : edited'[d] # 0 =>
         /\ editor[d].family # 0 /\ edited'[d] \in DOMAIN caseRevision'
         /\ edited'[d] = editor[d].head \/ caseRevision'[edited'[d]].parent = editor[d].head
  BY <1>2 DEF CatalogInv, EditsInv, EditsAnswered, Grows
<1>4. \A c, d \in Editor : c # d /\ edited'[c] = edited'[d] /\ edited'[c] # 0 =>
         edited'[c] \in {editor[c].head, editor[d].head}
  <2>1. \A d \in Editor : d # e /\ edited[d] = r => r \in DOMAIN caseRevision
    BY DEF CatalogInv, EditsInv, EditsAnswered
  <2> QED  BY <1>2, <2>1 DEF CatalogInv, EditsInv, EditsAnswered
<1> QED  BY <1>1, <1>3, <1>4 DEF EditsInv, EditsAnswered

\* A revision is appended to its family and becomes its head.
LEMMA RevisionCreated ==
  ASSUME CatalogInv, NEW e \in Editor, CreateRevision(e)
  PROVE  CatalogInv' /\ Grows
<1> DEFINE f == editor[e].family
           head == family[f].head
           new == Len(caseRevision) + 1
<1>1. /\ f # 0 /\ edited[e] = 0 /\ head = editor[e].head
      /\ UNCHANGED <<standing, sources, changes, release, editor, publisher>>
  BY DEF CreateRevision, Done, HeadAsShown
<1>2. /\ f \in DOMAIN family /\ editor[e].content \in Content /\ editor[e].from \in 0..Len(caseRevision)
      /\ head \in DOMAIN caseRevision /\ RowsInv
  BY <1>1 DEF CatalogInv, EditsInv, EditsTyped
<1>3. CountsInv'  BY <1>1, CountsMove
<1>4. CASE edited' = [edited EXCEPT ![e] = head] /\ UNCHANGED <<family, caseRevision>>
  <2>1. RowsInv' /\ Grows  BY <1>4, RowsUnchanged
  <2>2. head \in Nat /\ head # 0 /\ head \in DOMAIN caseRevision'  BY <1>2, <1>4, RowIds DEF RowsInv
  <2>3. EditsInv'  BY <1>1, <1>4, <2>1, <2>2, EditAnswered
  <2> QED  BY <1>1, <1>3, <2>1, <2>3, ReleasesStand DEF CatalogInv
<1>5. CASE /\ InsertRevision(f, editor[e].content, head, editor[e].from)
           /\ family' = [family EXCEPT ![f].head = new]
           /\ edited' = [edited EXCEPT ![e] = new]
  <2>1. RowsInv' /\ Grows /\ Len(caseRevision') = new /\ caseRevision'[new].parent = head
    BY <1>2, <1>5, HeadReplaced
  <2>2. new \in Nat /\ new # 0 /\ new \in DOMAIN caseRevision' /\ new \notin DOMAIN caseRevision
    <3>1. Len(caseRevision) \in Nat /\ DOMAIN caseRevision = 1..Len(caseRevision)  BY <1>2, RowIds DEF RowsInv
    <3>2. DOMAIN caseRevision' = 1..Len(caseRevision')  BY <2>1 DEF RowsInv, RowsTyped
    <3> QED  BY <2>1, <3>1, <3>2
  <2>3. EditsInv'
    <3> HIDE DEF new, head
    <3> QED  BY <1>1, <1>5, <2>1, <2>2, EditAnswered
  <2> QED  BY <1>1, <1>3, <2>1, <2>3, ReleasesStand DEF CatalogInv
<1> QED  BY <1>4, <1>5 DEF CreateRevision

\* Releases as they are typed.
LEMMA ReleaseIds ==
  ASSUME CatalogInv
  PROVE  /\ \A n \in DOMAIN release : release[n] \in ReleaseRow /\ release[n].key \in Publisher
         /\ \A S \in SUBSET DOMAIN caseRevision : S \in SUBSET Nat
<1>1. release \in Seq(ReleaseRow)  BY DEF CatalogInv, ReleasesInv
<1>2. \A n \in DOMAIN release : release[n] \in ReleaseRow  BY <1>1
<1> QED  BY <1>2, RowIds DEF CatalogInv, RowsInv, ReleaseRow

\* What a preview shows is what its hash stands for.
LEMMA Previewed ==
  ASSUME CatalogInv, NEW p \in Publisher, NEW items \in SUBSET DOMAIN caseRevision, NEW decided \in BOOLEAN,
         Preview(p, items, decided)
  PROVE  CatalogInv' /\ Grows
<1> DEFINE preview == [covered |-> Covered(items), uncovered |-> Uncovered(items), hash |-> PreviewHash(items)]
           row == [items |-> items, decided |-> decided, shown |-> {preview}]
<1>1. /\ publisher[p].items = {} /\ publisher' = [publisher EXCEPT ![p] = row]
      /\ UNCHANGED <<standing, sources, changes, family, caseRevision, edited, release, editor>>
  BY DEF Preview
<1>2. /\ preview \in ShownPreview /\ items \in SUBSET Nat
      /\ preview.covered = preview.hash.covered /\ preview.uncovered = preview.hash.uncovered
  BY ReleaseIds DEF CatalogInv, CountsInv, ShownPreview, Hashed, PreviewHash, Covered, Uncovered, Coverable
<1> HIDE DEF preview
<1>3. row \in Publication /\ row.shown = {preview} /\ row.items = items  BY <1>2 DEF Publication
<1> HIDE DEF row
<1>4. /\ publisher' \in [Publisher -> Publication] /\ publisher'[p] = row
      /\ \A q \in Publisher : q # p => publisher'[q] = publisher[q]
  BY <1>1, <1>3 DEF CatalogInv, ReleasesInv
<1>5. \A n \in DOMAIN release : release[n].key \in Publisher /\ release[n].key # p
  BY <1>1, ReleaseIds DEF CatalogInv, ReleasesInv, PublishedAsPreviewed
<1>6. ReleasesInv'
  <2>1. HashesShown'  BY <1>2, <1>3, <1>4 DEF CatalogInv, ReleasesInv, HashesShown
  <2>2. PublishedAsPreviewed'
    BY <1>1, <1>4, <1>5 DEF CatalogInv, ReleasesInv, PublishedAsPreviewed
  <2> QED  BY <1>1, <1>3, <1>4, <2>1, <2>2 DEF CatalogInv, ReleasesInv
<1>7. RowsInv' /\ Grows  BY <1>1, RowsUnchanged
<1>8. CountsInv'  BY <1>1, CountsMove
<1> QED  BY <1>1, <1>6, <1>7, <1>8, EditsStand DEF CatalogInv

\* A release is of what is covered now, which is what the hash stands for.
LEMMA Prepared ==
  ASSUME CatalogInv, NEW p \in Publisher, NEW items \in SUBSET DOMAIN caseRevision, NEW shown, NEW decided,
         PrepareRelease(p, items, shown, decided),
         publisher' \in [Publisher -> Publication], publisher'[p].items = items, publisher'[p].shown = shown,
         \A q \in Publisher : q # p => publisher'[q] = publisher[q],
         \A preview \in shown : preview.covered = preview.hash.covered /\ preview.uncovered = preview.hash.uncovered,
         publisher[p].items = {} \/ publisher' = publisher
  PROVE  CatalogInv' /\ Grows
<1> DEFINE row == [items |-> items, key |-> p, covered |-> Covered(items), uncovered |-> Uncovered(items)]
           new == Len(release) + 1
<1>1. /\ items # {} /\ Replays(p, items) = {} /\ (\A preview \in shown : preview.hash = PreviewHash(items))
      /\ release' = Append(release, row)
      /\ UNCHANGED <<standing, sources, changes, family, caseRevision, edited, editor>>
  BY DEF PrepareRelease, Selectable
<1>2. items \in SUBSET Nat  BY ReleaseIds
<1>3. /\ row \in ReleaseRow /\ row.items = items /\ row.key = p
      /\ row.covered = Covered(items) /\ row.uncovered = Uncovered(items)
  BY <1>2 DEF ReleaseRow, Covered, Uncovered, Coverable
<1> HIDE DEF row
<1>4. /\ release' \in Seq(ReleaseRow) /\ DOMAIN release' = DOMAIN release \cup {new} /\ release'[new] = row
      /\ \A n \in DOMAIN release : release'[n] = release[n]
  BY <1>1, <1>3 DEF CatalogInv, ReleasesInv
<1> HIDE DEF new
<1>5. \A n \in DOMAIN release : release[n].key \in Publisher /\ release[n].key # p /\ release[n].items # items
  BY <1>1, ReleaseIds DEF Replays
<1>6. \A preview \in shown : row.covered = preview.covered /\ row.uncovered = preview.uncovered
  BY <1>1, <1>3 DEF PreviewHash
<1>7. PublishedAsPreviewed'
  <2>1. \A n \in DOMAIN release' : LET q == publisher'[release'[n].key] IN
           /\ release'[n].items = q.items
           /\ \A preview \in q.shown : release'[n].covered = preview.covered /\ release'[n].uncovered = preview.uncovered
    BY <1>3, <1>4, <1>5, <1>6 DEF CatalogInv, ReleasesInv, PublishedAsPreviewed
  <2>2. \A m, n \in DOMAIN release' : m # n => release'[m].items # release'[n].items
    BY <1>3, <1>4, <1>5 DEF CatalogInv, ReleasesInv, PublishedAsPreviewed
  <2> QED  BY <2>1, <2>2 DEF PublishedAsPreviewed
<1>8. ReleasesInv'
  <2>1. HashesShown'  BY DEF CatalogInv, ReleasesInv, HashesShown
  <2>2. \A n \in DOMAIN release' : release'[n].items # {} /\ release'[n].items \subseteq DOMAIN caseRevision'
    BY <1>1, <1>3, <1>4 DEF CatalogInv, ReleasesInv
  <2>3. \A q \in Publisher : publisher'[q].items \subseteq DOMAIN caseRevision'
    BY <1>1 DEF CatalogInv, ReleasesInv
  <2> QED  BY <1>4, <1>7, <2>1, <2>2, <2>3 DEF ReleasesInv
<1>9. RowsInv' /\ Grows  BY <1>1, RowsUnchanged
<1>10. CountsInv'  BY <1>1, CountsMove
<1> QED  BY <1>1, <1>8, <1>9, <1>10, EditsStand DEF CatalogInv

\* Both ways to publish: with the hash of a preview, and with none.
LEMMA Published ==
  ASSUME CatalogInv, NEW p \in Publisher,
         \/ Publish(p)
         \/ \E items \in SUBSET DOMAIN caseRevision, decided \in BOOLEAN : PublishUnseen(p, items, decided)
  PROVE  CatalogInv' /\ Grows
<1>1. publisher \in [Publisher -> Publication]  BY DEF CatalogInv, ReleasesInv
<1>2. CASE Publish(p)
  <2>1. /\ PrepareRelease(p, publisher[p].items, publisher[p].shown, publisher[p].decided)
        /\ publisher' = publisher /\ publisher[p].items \in SUBSET DOMAIN caseRevision
    BY <1>2 DEF Publish, CatalogInv, ReleasesInv
  <2>2. \A preview \in publisher[p].shown :
           preview.covered = preview.hash.covered /\ preview.uncovered = preview.hash.uncovered
    BY DEF CatalogInv, ReleasesInv, HashesShown
  <2> QED  BY <1>1, <2>1, <2>2, Prepared
<1>3. ASSUME NEW items \in SUBSET DOMAIN caseRevision, NEW decided \in BOOLEAN, PublishUnseen(p, items, decided)
      PROVE  CatalogInv' /\ Grows
  <2> DEFINE row == [items |-> items, decided |-> decided, shown |-> {}]
  <2>1. /\ publisher[p].items = {} /\ PrepareRelease(p, items, {}, decided)
        /\ publisher' = [publisher EXCEPT ![p] = row]
    BY <1>3 DEF PublishUnseen
  <2>2. row \in Publication /\ row.items = items /\ row.shown = {}  BY ReleaseIds DEF Publication
  <2> HIDE DEF row
  <2>3. /\ publisher' \in [Publisher -> Publication] /\ publisher'[p] = row
        /\ \A q \in Publisher : q # p => publisher'[q] = publisher[q]
    BY <1>1, <2>1, <2>2
  <2> QED  BY <2>1, <2>2, <2>3, Prepared
<1> QED  BY <1>2, <1>3

\* Every step of the catalog keeps its invariant.
LEMMA CatalogStep ==
  ASSUME CatalogInv, [CatalogNext]_catalogVars
  PROVE  CatalogInv' /\ Grows
<1>1. CASE (\E q \in Requirement : ChangeRequirement(q)) \/ ReplaceSources
  BY ONLY CatalogInv, <1>1, RequirementChanged
<1>2. ASSUME NEW content \in Content, SaveGeneratedCase(content) PROVE CatalogInv' /\ Grows
  BY ONLY CatalogInv, <1>2, CaseGenerated
<1>3. ASSUME NEW f \in DOMAIN family, NEW flag \in BOOLEAN, Archive(f, flag) PROVE CatalogInv' /\ Grows
  BY ONLY CatalogInv, <1>3, FamilyArchived
<1>4. ASSUME NEW r \in DOMAIN caseRevision, NEW decision \in {"APPROVED", "REJECTED"}, ReviewExact(r, decision)
      PROVE  CatalogInv' /\ Grows
  BY ONLY CatalogInv, <1>4, RevisionReviewed
<1>5. Len(caseRevision) \in Nat /\ DOMAIN caseRevision = 1..Len(caseRevision)
  BY RowIds DEF CatalogInv, RowsInv
<1>6. ASSUME NEW e \in Editor, NEW f \in DOMAIN family, NEW content \in Content, Edit(e, f, content)
      PROVE  CatalogInv' /\ Grows
  <2>1. 0 \in 0..Len(caseRevision)  BY <1>5
  <2> QED  BY <1>6, <2>1, EditsAsked DEF Edit
<1>7. ASSUME NEW e \in Editor, NEW r \in DOMAIN caseRevision, AskRestore(e, r)
      PROVE  CatalogInv' /\ Grows
  <2>1. /\ caseRevision[r].family \in DOMAIN family /\ caseRevision[r].content \in Content
        /\ r \in 0..Len(caseRevision)
    BY <1>5, RowIds DEF CatalogInv, RowsInv, RowsTyped, CaseRow
  <2> QED  BY <1>7, <2>1, EditsAsked DEF AskRestore
<1>8. ASSUME NEW e \in Editor, CreateRevision(e) PROVE CatalogInv' /\ Grows
  BY ONLY CatalogInv, <1>8, RevisionCreated
<1>9. ASSUME NEW p \in Publisher, NEW items \in SUBSET DOMAIN caseRevision, NEW decided \in BOOLEAN,
             Preview(p, items, decided)
      PROVE  CatalogInv' /\ Grows
  BY ONLY CatalogInv, <1>9, Previewed
<1>10. ASSUME NEW p \in Publisher,
              \/ Publish(p)
              \/ \E items \in SUBSET DOMAIN caseRevision, decided \in BOOLEAN : PublishUnseen(p, items, decided)
       PROVE  CatalogInv' /\ Grows
  BY ONLY CatalogInv, <1>10, Published
<1>11. CASE UNCHANGED catalogVars
  <2>1. RowsInv' /\ Grows  BY <1>11, RowsUnchanged DEF catalogVars
  <2>2. CountsInv'  BY <1>11, CountsMove DEF catalogVars
  <2> QED  BY <1>11, <2>1, <2>2, EditsStand, ReleasesStand DEF catalogVars, CatalogInv
<1> QED  BY <1>1, <1>2, <1>3, <1>4, <1>6, <1>7, <1>8, <1>9, <1>10, <1>11 DEF CatalogNext

\* The catalog's invariant holds in every behaviour.
LEMMA Catalog == CatalogSpec => []CatalogInv
<1>1. CatalogInv /\ [CatalogNext]_catalogVars => CatalogInv'  BY CatalogStep
<1> QED  BY <1>1, CatalogStarts, PTL DEF CatalogSpec

\* Rows, references and the numbers of versions keep to their types: a
\* revision's number counts those of its family up to it.
THEOREM CatalogTyped == CatalogSpec => []CatalogTypeOK
<1>1. CatalogInv => CatalogTypeOK
  <2> SUFFICES ASSUME CatalogInv PROVE CatalogTypeOK  OBVIOUS
  <2>1. \A f \in DOMAIN family : family[f].archived \in BOOLEAN /\ family[f].head \in DOMAIN caseRevision
    BY RowIds DEF CatalogInv, RowsInv, RowsTyped, FamilyRow, RevisionsOf
  <2>2. ASSUME NEW r \in DOMAIN caseRevision
        PROVE  /\ caseRevision[r].content \in Content
               /\ caseRevision[r].status \in {"DRAFT", "APPROVED", "REJECTED"}
               /\ caseRevision[r].family \in DOMAIN family
               /\ caseRevision[r].version = Cardinality({v \in RevisionsOf(caseRevision[r].family) : v <= r})
               /\ {caseRevision[r].parent, caseRevision[r].restored} \subseteq 0..(r - 1)
    <3>1. caseRevision[r] \in CaseRow /\ r \in Nat  BY RowIds DEF CatalogInv, RowsInv
    <3>2. caseRevision[r].family \in DOMAIN family /\ Linked1(r) /\ caseRevision[r].version = Cardinality(UpTo(r))
      BY DEF CatalogInv, RowsInv, RowsTyped, ChainsLinked, VersionsCounted
    <3>3. {caseRevision[r].parent, caseRevision[r].restored} \subseteq 0..(r - 1)
      BY <3>1, <3>2 DEF CaseRow, Linked1
    <3> QED  BY <3>1, <3>2, <3>3 DEF CaseRow, UpTo
  <2>3. \A e \in Editor : edited[e] \in {0} \cup DOMAIN caseRevision
    BY DEF CatalogInv, EditsInv, EditsAnswered
  <2> QED  BY <2>1, <2>2, <2>3 DEF CatalogInv, CountsInv, ReleasesInv, CatalogTypeOK
<1> QED  BY <1>1, Catalog, PTL

\* No edit is lost and none is made twice: revisions replace what their editors
\* were shown and are one chain up to the head, however edits, restores and
\* their repetitions interleave (lockFamily, the command's key).
THEOREM Edits == CatalogSpec => []EditsBuildOnHead
<1>1. CatalogInv => EditsBuildOnHead
  <2> SUFFICES ASSUME CatalogInv PROVE EditsBuildOnHead  OBVIOUS
  <2>1. ASSUME NEW f \in DOMAIN family
        PROVE  {r \in RevisionsOf(f) : ~\E n \in RevisionsOf(f) : caseRevision[n].parent = r} = {family[f].head}
    <3>1. family[f].head \in RevisionsOf(f)  BY DEF CatalogInv, RowsInv, RowsTyped
    <3>2. \A r \in RevisionsOf(f) : caseRevision[r].family = f /\ r \in DOMAIN caseRevision /\ Linked1(r) /\ r \in Nat
      BY RowIds DEF CatalogInv, RowsInv, ChainsLinked, RevisionsOf
    <3>3. \A n \in RevisionsOf(f) : caseRevision[n].parent # family[f].head
      <4> SUFFICES ASSUME NEW n \in RevisionsOf(f), caseRevision[n].parent = family[f].head PROVE FALSE  OBVIOUS
      <4>1. family[f].head < n /\ n <= family[f].head  BY <3>2 DEF Linked1
      <4>2. family[f].head \in Nat /\ n \in Nat  BY <3>1, <3>2
      <4> QED  BY <4>1, <4>2
    <3>4. \A r \in RevisionsOf(f) : r # family[f].head => \E n \in RevisionsOf(f) : caseRevision[n].parent = r
      BY <3>2 DEF Linked1
    <3> QED  BY <3>1, <3>3, <3>4
  <2> QED  BY <2>1 DEF EditsBuildOnHead, CatalogInv, EditsInv, EditsAnswered
<1> QED  BY <1>1, Catalog, PTL

\* A release pins and covers what its publisher was shown, whatever is reviewed,
\* edited or archived before it publishes, and no selection has two.
THEOREM Releases == CatalogSpec => []PublishedAsPreviewed
<1>1. CatalogInv => PublishedAsPreviewed  BY DEF CatalogInv, ReleasesInv
<1> QED  BY <1>1, Catalog, PTL
=============================================================================
