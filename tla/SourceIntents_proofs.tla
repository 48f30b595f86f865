------------------------- MODULE SourceIntents_proofs -------------------------
(***************************************************************************)
(* Proofs about the guided workflow of a document set, for any number of     *)
(* builders, jobs, versions and commands.  The index is complete: the status *)
(* row and the generation it names agree, older generations have ended, and  *)
(* a ready one holds exactly the parsed sources of its snapshot (IndexInv).  *)
(* A continuation keeps to the revision of its command: what rows of the     *)
(* other tables say of one another (LinksInv), of which rows of generations  *)
(* keep their snapshots and succeeded index jobs keep their generation.      *)
(***************************************************************************)
EXTENDS SourceIntents, SequenceTheorems, TLAPS

SnapshotRow == [revision : Nat, excluded : SUBSET Nat]
VersionRow == [doc : Document, parse : {"UPLOADED", "PARSED", "FAILED"},
               approval : {"DRAFT", "APPROVED", "REJECTED"}]
GenerationRow == [status : {"INDEXING", "READY", "FAILED", "SUPERSEDED"}, snapshot : SnapshotRow,
                  versions : SUBSET Nat]
IndexRow == [status : {"NOT_INDEXED", "INDEXING", "READY", "FAILED"}, generation : Nat, snapshot : SnapshotRow]

\* A snapshot of rows that were all parsed when it was taken.
Shows(rows, s) ==
    /\ s.revision <= Len(rows)
    /\ \A v \in SourcesOf(rows, s) : rows[v].parse = "PARSED"

IndexTyped ==
    /\ version \in Seq(VersionRow) /\ generation \in Seq(GenerationRow) /\ index \in IndexRow
    /\ DOMAIN builder = Builder
    /\ \A b \in Builder : DOMAIN builder[b] = {"phase", "job", "snapshot", "generation"}

\* What is built, and what is about to be, is of parsed sources.
BuildsShown ==
    /\ \A g \in DOMAIN generation : Shows(version, generation[g].snapshot)
    /\ \A b \in Builder :
          /\ builder[b].phase = "building" => builder[b].generation \in DOMAIN generation
          /\ builder[b].phase = "pinned" =>
                builder[b].snapshot \in SnapshotRow /\ Shows(version, builder[b].snapshot)

IndexInv == IndexTyped /\ BuildsShown /\ IndexIsComplete

-----------------------------------------------------------------------------
\* Versions keep their documents, and parsed ones stay parsed.
Grown(old, new) ==
    /\ Len(old) <= Len(new)
    /\ \A v \in DOMAIN old : /\ new[v].doc = old[v].doc
                             /\ old[v].parse = "PARSED" => new[v].parse = "PARSED"

\* A snapshot lists the same versions, still parsed, whatever is uploaded,
\* parsed or reviewed after it.
LEMMA SnapshotStays ==
  ASSUME NEW old \in Seq(VersionRow), NEW new \in Seq(VersionRow), Grown(old, new),
         NEW s \in SnapshotRow, Shows(old, s)
  PROVE  SourcesOf(new, s) = SourcesOf(old, s) /\ Shows(new, s)
<1>1. /\ Len(old) \in Nat /\ Len(new) \in Nat
      /\ DOMAIN old = 1..Len(old) /\ DOMAIN new = 1..Len(new)
  BY LenProperties
<1>2. s.revision \in Nat /\ s.revision <= Len(old)  BY DEF SnapshotRow, Shows
<1>3. \A v \in 1..s.revision : new[v].doc = old[v].doc  BY <1>1, <1>2 DEF Grown
<1>4. SourcesOf(new, s) = SourcesOf(old, s)  BY <1>3 DEF SourcesOf
<1>5. SourcesOf(old, s) \subseteq DOMAIN old  BY <1>1, <1>2 DEF SourcesOf
<1> QED  BY <1>1, <1>2, <1>4, <1>5 DEF Shows, Grown

\* Every generation is a row of the table.
LEMMA RowsOfGenerations ==
  ASSUME IndexInv
  PROVE  /\ Len(generation) \in Nat /\ DOMAIN generation = 1..Len(generation)
         /\ \A g \in DOMAIN generation : generation[g] \in GenerationRow
<1>1. generation \in Seq(GenerationRow)  BY DEF IndexInv, IndexTyped
<1> QED  BY <1>1, LenProperties, ElementOfSeq

\* A step of the versions only.
LEMMA VersionsMove ==
  ASSUME IndexInv, version' \in Seq(VersionRow), Grown(version, version'),
         UNCHANGED <<index, generation, builder>>
  PROVE  IndexInv'
<1>1. \A g \in DOMAIN generation : generation[g].snapshot \in SnapshotRow
  BY RowsOfGenerations DEF GenerationRow
<1>2. \A g \in DOMAIN generation :
         /\ SourcesOf(version', generation[g].snapshot) = SourcesOf(version, generation[g].snapshot)
         /\ Shows(version', generation[g].snapshot)
  BY <1>1, SnapshotStays DEF IndexInv, IndexTyped, BuildsShown
<1>3. \A b \in Builder : builder[b].phase = "pinned" => Shows(version', builder[b].snapshot)
  BY SnapshotStays DEF IndexInv, IndexTyped, BuildsShown
<1>4. IndexTyped' /\ BuildsShown'
  BY <1>2, <1>3 DEF IndexInv, IndexTyped, BuildsShown
<1>5. IndexIsComplete'
  BY <1>2 DEF IndexInv, IndexIsComplete, Sources, Shows
<1> QED  BY <1>4, <1>5 DEF IndexInv

\* A step of the builders only: who starts a build holds its generation, who
\* pins a snapshot one of parsed sources.
LEMMA BuildersMove ==
  ASSUME IndexInv, UNCHANGED <<version, index, generation>>,
         DOMAIN builder' = Builder,
         \A b \in Builder : DOMAIN builder'[b] = {"phase", "job", "snapshot", "generation"},
         \A b \in Builder : builder'[b].phase = "building" => builder'[b].generation \in DOMAIN generation,
         \A b \in Builder : builder'[b].phase = "pinned" =>
            builder'[b].snapshot \in SnapshotRow /\ Shows(version, builder'[b].snapshot)
  PROVE  IndexInv'
BY DEF IndexInv, IndexTyped, BuildsShown, IndexIsComplete, Sources

\* A step of neither.
LEMMA JobsMove ==
  ASSUME IndexInv, UNCHANGED <<version, index, generation, builder>>
  PROVE  IndexInv'
BY DEF IndexInv, IndexTyped, BuildsShown, IndexIsComplete, Sources

\* A snapshot that may be taken is one of parsed sources.
LEMMA TakenIsShown ==
  ASSUME IndexInv, NEW excluded, Indexable(excluded)
  PROVE  CreateSourceSnapshot(excluded) \in SnapshotRow /\ Shows(version, CreateSourceSnapshot(excluded))
<1>1. version \in Seq(VersionRow) /\ Len(version) \in Nat /\ DOMAIN version = 1..Len(version)
  BY LenProperties DEF IndexInv, IndexTyped
<1>2. excluded \subseteq Nat  BY <1>1 DEF Indexable, Latest
<1>3. CreateSourceSnapshot(excluded) \in SnapshotRow
  BY <1>1, <1>2 DEF CreateSourceSnapshot, SourceRevision, SnapshotRow
<1>4. SourcesOf(version, CreateSourceSnapshot(excluded)) = Latest \ excluded
  BY <1>1 DEF SourcesOf, CreateSourceSnapshot, SourceRevision, Latest
<1>5. CreateSourceSnapshot(excluded).revision <= Len(version)
  BY <1>1 DEF CreateSourceSnapshot, SourceRevision
<1> QED  BY <1>3, <1>4, <1>5 DEF Shows, Indexable

\* A new document set has neither versions nor an index.
LEMMA SourcesStart == IntentsInit => IndexInv
<1> SUFFICES ASSUME IntentsInit PROVE IndexInv  OBVIOUS
<1>1. /\ version \in Seq(VersionRow) /\ DOMAIN version = {}
      /\ generation \in Seq(GenerationRow) /\ DOMAIN generation = {} /\ Len(generation) = 0
  BY EmptySeq DEF IntentsInit, SourcesInit
<1>2. IndexTyped
  BY <1>1 DEF IntentsInit, SourcesInit, IndexTyped, IndexRow, SnapshotRow, NoSnapshot, NoBuild
<1>3. BuildsShown  BY <1>1 DEF IntentsInit, BuildsShown, NoBuild
<1>4. IndexIsComplete  BY <1>1 DEF IntentsInit, SourcesInit, IndexIsComplete
<1> QED  BY <1>2, <1>3, <1>4 DEF IndexInv

-----------------------------------------------------------------------------
(* Builds. *)

\* A begun build supersedes the one that is under way.
LEMMA BuildBegins ==
  ASSUME IndexInv, NEW b \in Builder, builder[b].phase = "pinned", BeginGeneration(builder[b].snapshot),
         builder' = [builder EXCEPT ![b].phase = "building", ![b].generation = Len(generation) + 1],
         UNCHANGED version
  PROVE  IndexInv'
<1> DEFINE s == builder[b].snapshot
           n == Len(generation) + 1
           new == [status |-> "INDEXING", snapshot |-> s, versions |-> {}]
<1>1. /\ n \in Nat /\ n - 1 \in Nat /\ DOMAIN generation = 1..(n - 1)
      /\ generation \in [1..(n - 1) -> GenerationRow]
      /\ \A g \in DOMAIN generation : generation[g] \in GenerationRow
  <2>1. generation \in Seq(GenerationRow)  BY DEF IndexInv, IndexTyped
  <2> QED  BY <2>1, RowsOfGenerations
<1>2. s \in SnapshotRow /\ Shows(version, s)  BY DEF IndexInv, BuildsShown
<1>3. new \in GenerationRow  BY <1>2 DEF GenerationRow
<1>4. index' = [status |-> "INDEXING", generation |-> n, snapshot |-> s]
  BY DEF BeginGeneration
<1>5. /\ Superseded \in [1..(n - 1) -> GenerationRow]
      /\ \A g \in DOMAIN generation :
            /\ Superseded[g] \in GenerationRow
            /\ Superseded[g].snapshot = generation[g].snapshot
            /\ Superseded[g].versions = generation[g].versions
            /\ Superseded[g].status # "INDEXING"
            /\ Superseded[g].status = "READY" => generation[g].status = "READY"
  <2>1. CASE index.status = "INDEXING"
    <3>1. Superseded = [generation EXCEPT ![index.generation].status = "SUPERSEDED"]
      BY <2>1 DEF Superseded
    <3>2. \A g \in DOMAIN generation : generation[g].status = "INDEXING" => g = index.generation
      BY DEF IndexInv, IndexIsComplete
    <3> QED  BY <1>1, <3>1, <3>2 DEF GenerationRow
  <2>2. CASE index.status # "INDEXING"
    <3>1. Superseded = generation  BY <2>2 DEF Superseded
    <3>2. \A g \in DOMAIN generation : generation[g].status # "INDEXING"
      <4>1. \A g \in DOMAIN generation : g # 0  BY <1>1
      <4> QED  BY <2>2, <4>1 DEF IndexInv, IndexIsComplete
    <3> QED  BY <1>1, <3>1, <3>2
  <2> QED  BY <2>1, <2>2
<1>6. Superseded \in Seq(GenerationRow) /\ Len(Superseded) = n - 1
  BY <1>1, <1>5, LenProperties
<1>7. generation' = Append(Superseded, new)  BY DEF BeginGeneration
<1> HIDE DEF new, n, s
<1>8. /\ generation' \in Seq(GenerationRow) /\ Len(generation') = n
      /\ DOMAIN generation' = DOMAIN generation \cup {n} /\ n \notin DOMAIN generation
      /\ generation'[n] = new
      /\ \A g \in DOMAIN generation : generation'[g] = Superseded[g]
  <2>1. /\ generation' \in Seq(GenerationRow) /\ Len(generation') = n
        /\ \A g \in 1..(n - 1) : generation'[g] = Superseded[g]
        /\ generation'[n] = new
    BY <1>1, <1>3, <1>6, <1>7, AppendProperties
  <2>2. DOMAIN generation' = 1..n  BY <2>1, LenProperties
  <2> QED  BY <1>1, <2>1, <2>2
<1>9. IndexTyped'
  <2>1. index' \in IndexRow
    <3>1. n \in Nat  BY <1>1
    <3> QED  BY <1>2, <1>4, <3>1 DEF IndexRow
  <2> QED  BY <1>8, <2>1 DEF IndexInv, IndexTyped
<1>10. new.snapshot = s /\ new.status = "INDEXING"  BY DEF new
<1>11. BuildsShown'
  <2>1. \A g \in DOMAIN generation' : Shows(version', generation'[g].snapshot)
    BY <1>2, <1>5, <1>8, <1>10 DEF IndexInv, BuildsShown
  <2>2. \A a \in Builder : /\ builder'[a].phase = "building" => builder'[a].generation \in DOMAIN generation'
                           /\ builder'[a].phase = "pinned" => builder'[a] = builder[a]
    BY <1>8 DEF IndexInv, IndexTyped, BuildsShown, n
  <2> QED  BY <2>1, <2>2 DEF IndexInv, BuildsShown
<1>12. IndexIsComplete'
  <2>1. index'.generation = n /\ index'.status = "INDEXING" /\ index'.snapshot = s  BY <1>4
  <2>2. \A g \in DOMAIN generation' : generation'[g].status = "READY" =>
          /\ g \in DOMAIN generation /\ generation[g].status = "READY"
          /\ generation'[g].snapshot = generation[g].snapshot
          /\ generation'[g].versions = generation[g].versions
    BY <1>5, <1>8, <1>10
  <2>3. \A g \in DOMAIN generation' : generation'[g].status = "INDEXING" => g = n
    BY <1>5, <1>8
  <2> QED  BY <1>8, <1>10, <2>1, <2>2, <2>3 DEF IndexInv, IndexIsComplete, Sources
<1> QED  BY <1>9, <1>11, <1>12 DEF IndexInv

\* A build that ends writes its own generation, and the index only if it is the
\* one the index is being built in.
LEMMA BuildEnds ==
  ASSUME IndexInv, NEW b \in Builder, builder[b].phase = "building",
         NEW outcome \in {"READY", "FAILED"}, NEW g, g = builder[b].generation,
         NEW row \in GenerationRow, row.snapshot = generation[g].snapshot,
         row.versions = IF outcome = "READY" THEN Sources(generation[g].snapshot) ELSE generation[g].versions,
         row.status = IF generation[g].status = "INDEXING" THEN outcome ELSE generation[g].status,
         generation' = [generation EXCEPT ![g] = row],
         index' = IF StatusOf(g) THEN [index EXCEPT !.status = outcome] ELSE index,
         NEW phase \in {"stored", "failed"},
         builder' = [builder EXCEPT ![b].phase = phase],
         UNCHANGED version
  PROVE  IndexInv'
<1>1. /\ generation \in Seq(GenerationRow) /\ Len(generation) \in Nat /\ DOMAIN generation = 1..Len(generation)
      /\ generation \in [1..Len(generation) -> GenerationRow]
      /\ \A h \in DOMAIN generation : generation[h] \in GenerationRow
  <2>1. generation \in Seq(GenerationRow)  BY DEF IndexInv, IndexTyped
  <2> QED  BY <2>1, RowsOfGenerations
<1>2. g \in DOMAIN generation  BY DEF IndexInv, BuildsShown
<1>7. /\ generation' \in Seq(GenerationRow) /\ Len(generation') = Len(generation)
      /\ DOMAIN generation' = DOMAIN generation /\ generation'[g] = row
      /\ \A h \in DOMAIN generation : h # g => generation'[h] = generation[h]
  <2>1. generation' \in [1..Len(generation) -> GenerationRow]  BY <1>1
  <2> QED  BY <1>1, <1>2, <2>1, LenProperties
<1>8. index' \in IndexRow /\ index'.generation = index.generation /\ index'.snapshot = index.snapshot
  BY DEF IndexInv, IndexTyped, IndexRow
<1>9. index'.status = IF StatusOf(g) THEN outcome ELSE index.status
  BY DEF IndexInv, IndexTyped, IndexRow
<1>10. \A h \in DOMAIN generation' : Shows(version, generation'[h].snapshot)
  BY <1>2, <1>7 DEF IndexInv, BuildsShown
<1>11. IndexTyped' /\ BuildsShown'
  <2>1. \A a \in Builder : /\ DOMAIN builder'[a] = {"phase", "job", "snapshot", "generation"}
                           /\ builder'[a].phase \in {"building", "pinned"} => builder'[a] = builder[a]
    BY DEF IndexInv, IndexTyped
  <2>2. DOMAIN builder' = Builder  BY DEF IndexInv, IndexTyped
  <2> QED  BY <1>7, <1>8, <1>10, <2>1, <2>2 DEF IndexInv, IndexTyped, BuildsShown
<1>12. IndexIsComplete'
  <2>1. index.generation # 0 => generation'[index.generation].status = index'.status
    BY <1>2, <1>7, <1>9 DEF IndexInv, IndexIsComplete, StatusOf
  <2>2. index.generation # 0 => generation'[index.generation].snapshot = index.snapshot
    BY <1>2, <1>7 DEF IndexInv, IndexIsComplete
  <2>3. \A h \in DOMAIN generation : generation'[h].status = "INDEXING" => h = index.generation
    BY <1>7 DEF IndexInv, IndexIsComplete
  <2>4. ASSUME NEW h \in DOMAIN generation, generation'[h].status = "READY"
        PROVE  /\ generation'[h].versions = Sources(generation'[h].snapshot)
               /\ \A v \in generation'[h].versions : version[v].parse = "PARSED"
    <3>1. CASE h # g
      BY <1>7, <2>4, <3>1 DEF IndexInv, IndexIsComplete
    <3>2. CASE h = g
      <4>1. generation'[g].versions = row.versions /\ generation'[g].snapshot = generation[g].snapshot
        BY <1>7
      <4>2. CASE outcome = "READY"
        BY <1>2, <3>2, <4>1, <4>2 DEF IndexInv, BuildsShown, Shows, Sources
      <4>3. CASE outcome = "FAILED"
        <5>1. generation[g].status = "READY"  BY <1>7, <2>4, <3>2, <4>3
        <5> QED  BY <1>2, <3>2, <4>1, <4>3, <5>1 DEF IndexInv, IndexIsComplete
      <4> QED  BY <4>2, <4>3
    <3> QED  BY <3>1, <3>2
  <2> QED  BY <1>7, <1>8, <2>1, <2>2, <2>3, <2>4 DEF IndexInv, IndexIsComplete, Sources
<1> QED  BY <1>11, <1>12 DEF IndexInv

-----------------------------------------------------------------------------
(* Steps. *)

\* Versions that are updated in place.
LEMMA VersionsUpdated ==
  ASSUME IndexInv, version' \in [DOMAIN version -> VersionRow],
         \A v \in DOMAIN version : /\ version'[v].doc = version[v].doc
                                   /\ version[v].parse = "PARSED" => version'[v].parse = "PARSED",
         UNCHANGED <<index, generation, builder>>
  PROVE  IndexInv'
<1>1. version \in Seq(VersionRow) /\ Len(version) \in Nat /\ DOMAIN version = 1..Len(version)
  BY LenProperties DEF IndexInv, IndexTyped
<1>2. version' \in Seq(VersionRow) /\ Len(version') = Len(version)
  BY <1>1, LenProperties
<1>3. Len(version) <= Len(version')  BY <1>1, <1>2
<1>4. Grown(version, version')  BY <1>3 DEF Grown
<1> QED  BY <1>2, <1>4, VersionsMove

\* A stored version is a row.
LEMMA RowsOfVersions ==
  ASSUME IndexInv
  PROVE  \A v \in DOMAIN version : version[v] \in VersionRow
<1>1. version \in Seq(VersionRow)  BY DEF IndexInv, IndexTyped
<1> QED  BY <1>1, LenProperties, ElementOfSeq

\* An upload adds a row, and leaves the older ones as they are.
LEMMA SourceUploaded ==
  ASSUME IndexInv, NEW d \in Document, UploadSource(d)
  PROVE  IndexInv'
<1> DEFINE row == [doc |-> d, parse |-> "UPLOADED", approval |-> "DRAFT"]
<1>1. version' = Append(version, row) /\ UNCHANGED <<index, generation, builder>>
  BY DEF UploadSource, AddVersion
<1>2. row \in VersionRow  BY DEF VersionRow
<1> HIDE DEF row
<1>3. version \in Seq(VersionRow) /\ Len(version) \in Nat /\ DOMAIN version = 1..Len(version)
  BY LenProperties DEF IndexInv, IndexTyped
<1>4. /\ version' \in Seq(VersionRow) /\ Len(version') = Len(version) + 1
      /\ \A v \in 1..Len(version) : version'[v] = version[v]
  BY <1>1, <1>2, <1>3, AppendProperties
<1>5. Grown(version, version')  BY <1>3, <1>4 DEF Grown
<1> QED  BY <1>1, <1>4, <1>5, VersionsMove

\* Approvals, reviews and parses update rows; a parsed one is never parsed again.
LEMMA SourcesApproved ==
  ASSUME IndexInv, NEW command, NEW selected, NEW excluded, SourceCommand(command, selected, excluded)
  PROVE  IndexInv'
<1>1. /\ version' = [v \in DOMAIN version |->
             IF v \in selected THEN [version[v] EXCEPT !.approval = "APPROVED"] ELSE version[v]]
      /\ UNCHANGED <<index, generation, builder>>
  BY DEF SourceCommand
<1>2. version' \in [DOMAIN version -> VersionRow]
  BY <1>1, RowsOfVersions DEF VersionRow
<1>3. \A v \in DOMAIN version : version'[v].doc = version[v].doc /\ version'[v].parse = version[v].parse
  BY <1>1, RowsOfVersions DEF VersionRow
<1> QED  BY <1>1, <1>2, <1>3, VersionsUpdated

\* A rejection leaves the parse as it is.
LEMMA SourceReviewed ==
  ASSUME IndexInv, NEW v \in DOMAIN version, NEW requiredBy \in BOOLEAN, ReviewSource(v, "REJECTED", requiredBy)
  PROVE  IndexInv'
<1>1. version' = [version EXCEPT ![v].approval = "REJECTED"] /\ UNCHANGED <<index, generation, builder>>
  BY DEF ReviewSource, ReviewVersion
<1>2. \A u \in DOMAIN version : version[u] \in VersionRow  BY RowsOfVersions
<1>3. version \in [DOMAIN version -> VersionRow]
  BY <1>2, LenProperties DEF IndexInv, IndexTyped
<1>4. version' \in [DOMAIN version -> VersionRow]
  BY <1>1, <1>2, <1>3 DEF VersionRow
<1>5. \A u \in DOMAIN version : version'[u].doc = version[u].doc /\ version'[u].parse = version[u].parse
  BY <1>1, <1>2, <1>3 DEF VersionRow
<1> QED  BY <1>1, <1>4, <1>5, VersionsUpdated

\* A parse ends once, and only for a version that was not parsed.
LEMMA SourceIsParsed ==
  ASSUME IndexInv, NEW v \in DOMAIN version, NEW outcome \in {"PARSED", "FAILED"}, SourceParsed(v, outcome)
  PROVE  IndexInv'
<1>1. /\ version[v].parse = "UPLOADED"
      /\ version' = [version EXCEPT ![v].parse = outcome] /\ UNCHANGED <<index, generation, builder>>
  BY DEF SourceParsed, ParseEnds
<1>2. \A u \in DOMAIN version : version[u] \in VersionRow  BY RowsOfVersions
<1>3. version \in [DOMAIN version -> VersionRow]
  BY <1>2, LenProperties DEF IndexInv, IndexTyped
<1>4. version' \in [DOMAIN version -> VersionRow]
  BY <1>1, <1>2, <1>3 DEF VersionRow
<1>5. \A u \in DOMAIN version : /\ version'[u].doc = version[u].doc
                                /\ version[u].parse = "PARSED" => version'[u].parse = "PARSED"
  BY <1>1, <1>2, <1>3 DEF VersionRow
<1> QED  BY <1>1, <1>4, <1>5, VersionsUpdated

\* Users: commands about sources, jobs and rows.
LEMMA UserSteps == IndexInv /\ SourceUser => IndexInv'
<1> SUFFICES ASSUME IndexInv, SourceUser PROVE IndexInv'  OBVIOUS
<1>1. ASSUME NEW d \in Document, UploadSource(d) PROVE IndexInv'  BY <1>1, SourceUploaded
<1>2. ASSUME NEW j \in DOMAIN sourceJob, ReadJob(j) PROVE IndexInv'
  BY <1>2, JobsMove DEF ReadJob, sourceVars
<1>3. ASSUME NEW c \in SourceCommands, NEW s \in SUBSET Latest, NEW x \in SUBSET Latest, SourceCommand(c, s, x)
      PROVE  IndexInv'
  BY <1>3, SourcesApproved
<1>4. CASE ArchiveSources  BY <1>4, JobsMove DEF ArchiveSources
<1>5. CASE EnqueueDirectly  BY <1>5, JobsMove DEF EnqueueDirectly, sourceVars
<1>6. CASE RequestExtraction  BY <1>6, JobsMove DEF RequestExtraction, sourceVars
<1>7. ASSUME NEW v \in DOMAIN version, NEW r \in BOOLEAN, ReviewSource(v, "REJECTED", r) PROVE IndexInv'
  BY <1>7, SourceReviewed
<1>8. ASSUME NEW j \in DOMAIN sourceJob, RetryJob(j) PROVE IndexInv'
  BY <1>8, JobsMove DEF RetryJob, sourceVars
<1>9. ASSUME NEW b \in Builder, NEW x \in SUBSET Latest, RequestIndex(b, x) PROVE IndexInv'
  <2> DEFINE s == CreateSourceSnapshot(x)
  <2>1. s \in SnapshotRow /\ Shows(version, s)  BY <1>9, TakenIsShown DEF RequestIndex
  <2>2. builder' = [builder EXCEPT ![b] = [NoBuild EXCEPT !.phase = "pinned", !.snapshot = s]]
    BY <1>9 DEF RequestIndex
  <2>3. UNCHANGED <<version, index, generation>>  BY <1>9 DEF RequestIndex, sourceVars
  <2> HIDE DEF s
  <2> QED  BY <2>1, <2>2, <2>3, BuildersMove DEF IndexInv, IndexTyped, BuildsShown, NoBuild
<1> QED
  BY <1>1, <1>2, <1>3, <1>4, <1>5, <1>6, <1>7, <1>8, <1>9 DEF SourceUser

\* Workers: they pin what may be indexed, and build what they pinned.
LEMMA WorkerSteps ==
  ASSUME IndexInv, NEW b \in Builder, IndexWorker(b)
  PROVE  IndexInv'
<1> USE DEF IndexInv, IndexTyped, BuildsShown, sourceVars
<1>1. ASSUME NEW j \in DOMAIN sourceJob, ClaimIndex(b, j) PROVE IndexInv'
  <2>1. UNCHANGED <<version, index, generation>>  BY <1>1 DEF ClaimIndex
  <2>2. \/ UNCHANGED builder
        \/ builder' = [builder EXCEPT ![b] = [NoBuild EXCEPT !.phase = "valid", !.job = j]]
    BY <1>1 DEF ClaimIndex
  <2> QED  BY <2>1, <2>2, BuildersMove, JobsMove DEF NoBuild
<1>2. CASE PinSources(b)
  <2>1. UNCHANGED <<version, index, generation>>  BY <1>2 DEF PinSources
  <2>2. CASE Indexable(ScopeOf(b))
    <3> DEFINE s == CreateSourceSnapshot(ScopeOf(b))
    <3>1. s \in SnapshotRow /\ Shows(version, s)  BY <2>2, TakenIsShown
    <3>2. builder' = [builder EXCEPT ![b].phase = "pinned", ![b].snapshot = s]
      BY <1>2, <2>2 DEF PinSources
    <3> HIDE DEF s
    <3> QED  BY <2>1, <3>1, <3>2, BuildersMove
  <2>3. CASE ~Indexable(ScopeOf(b))
    <3>1. PICK phase \in {"refused", "failed"} : builder' = [builder EXCEPT ![b].phase = phase]
      BY <1>2, <2>3 DEF PinSources
    <3> QED  BY <2>1, <3>1, BuildersMove
  <2> QED  BY <2>2, <2>3
<1>3. CASE Begin(b)
  <2>1. CASE Goes(b, "stored") /\ UNCHANGED sourceVars
    BY <2>1, BuildersMove DEF Goes
  <2>2. CASE /\ BeginGeneration(builder[b].snapshot)
             /\ builder' = [builder EXCEPT ![b].phase = "building", ![b].generation = Len(generation) + 1]
             /\ UNCHANGED version
    BY <1>3, <2>2, BuildBegins DEF Begin
  <2> QED  BY <1>3, <2>1, <2>2 DEF Begin
<1>4. CASE Build(b)
  <2> DEFINE g == builder[b].generation
  <2>0. builder[b].phase = "building" /\ UNCHANGED version  BY <1>4 DEF Build
  <2>1. g \in DOMAIN generation /\ generation[g] \in GenerationRow  BY <2>0, RowsOfGenerations
  <2>4. Sources(generation[g].snapshot) \subseteq Nat  BY DEF Sources, SourcesOf
  <2>2. CASE CompleteGeneration(g) /\ Goes(b, "stored")
    <3>1. PICK row : row = generation'[g]  OBVIOUS
    <3>3. /\ row \in GenerationRow /\ row.snapshot = generation[g].snapshot
          /\ row.versions = Sources(generation[g].snapshot)
          /\ row.status = IF generation[g].status = "INDEXING" THEN "READY" ELSE generation[g].status
      BY <2>1, <2>2, <3>1, <2>4 DEF CompleteGeneration, GenerationRow
    <3>4. generation' = [generation EXCEPT ![g] = row]
      BY <2>1, <2>2, <3>1 DEF CompleteGeneration
    <3>2. /\ index' = IF StatusOf(g) THEN [index EXCEPT !.status = "READY"] ELSE index
          /\ builder' = [builder EXCEPT ![b].phase = "stored"]
      BY <2>2 DEF CompleteGeneration, Goes
    <3> QED  BY <2>0, <3>2, <3>3, <3>4, BuildEnds
  <2>3. CASE FailGeneration(g) /\ Goes(b, "failed")
    <3>1. PICK row : row = generation'[g]  OBVIOUS
    <3>3. /\ row \in GenerationRow /\ row.snapshot = generation[g].snapshot
          /\ row.versions = generation[g].versions
          /\ row.status = IF generation[g].status = "INDEXING" THEN "FAILED" ELSE generation[g].status
      BY <2>1, <2>3, <3>1, <2>4 DEF FailGeneration, GenerationRow
    <3>4. generation' = [generation EXCEPT ![g] = row]
      BY <2>1, <2>3, <3>1 DEF FailGeneration
    <3>2. /\ index' = IF StatusOf(g) THEN [index EXCEPT !.status = "FAILED"] ELSE index
          /\ builder' = [builder EXCEPT ![b].phase = "failed"]
      BY <2>3 DEF FailGeneration, Goes
    <3> QED  BY <2>0, <3>2, <3>3, <3>4, BuildEnds
  <2> QED  BY <1>4, <2>2, <2>3 DEF Build
<1>5. CASE ReadStatus(b)
  <2>1. /\ UNCHANGED <<version, index, generation>>
        /\ builder' = [builder EXCEPT ![b].phase = "built", ![b].generation = Answered(b)]
    BY <1>5 DEF ReadStatus
  <2> QED  BY <2>1, BuildersMove
<1>6. CASE PublishIndex(b)
  <2>1. UNCHANGED <<version, index, generation>> /\ builder' = [builder EXCEPT ![b] = NoBuild]
    BY <1>6 DEF PublishIndex
  <2> QED  BY <2>1, BuildersMove DEF NoBuild
<1>7. CASE FailIndex(b)
  <2>1. UNCHANGED <<version, index, generation>> /\ builder' = [builder EXCEPT ![b] = NoBuild]
    BY <1>7 DEF FailIndex
  <2> QED  BY <2>1, BuildersMove DEF NoBuild
<1>8. CASE BuilderDies(b)
  <2>1. UNCHANGED <<version, index, generation>> /\ builder' = [builder EXCEPT ![b] = NoBuild]
    BY <1>8 DEF BuilderDies
  <2> QED  BY <2>1, BuildersMove DEF NoBuild
<1> QED  BY <1>1, <1>2, <1>3, <1>4, <1>5, <1>6, <1>7, <1>8 DEF IndexWorker

\* Continuations read the index, and write none of it.
LEMMA ContinuationSteps == IndexInv /\ Advancing => IndexInv'
<1> SUFFICES ASSUME IndexInv, Advancing PROVE IndexInv'  OBVIOUS
<1>1. UNCHANGED <<sourceVars, builder>>
  BY DEF Advancing, AdvanceStops, AwaitParse, StartIndex, FollowIndex, StartExtraction, FollowExtraction,
         ReadFailure, FailIntent
<1> QED  BY <1>1, JobsMove DEF sourceVars

\* The index stays complete in every step.
LEMMA IndexStep == IndexInv /\ [IntentsNext]_intentVars => IndexInv'
<1> SUFFICES ASSUME IndexInv, [IntentsNext]_intentVars PROVE IndexInv'  OBVIOUS
<1>1. CASE SourceUser  BY <1>1, UserSteps
<1>2. CASE Advancing  BY <1>2, ContinuationSteps
<1>3. ASSUME NEW b \in Builder, IndexWorker(b) PROVE IndexInv'  BY <1>3, WorkerSteps
<1>4. ASSUME NEW j \in DOMAIN sourceJob, ExhaustIndex(j) PROVE IndexInv'
  BY <1>4, JobsMove DEF ExhaustIndex, sourceVars
<1>5. ASSUME NEW v \in DOMAIN version, NEW o \in {"PARSED", "FAILED"}, SourceParsed(v, o) PROVE IndexInv'
  BY <1>5, SourceIsParsed
<1>6. ASSUME NEW x \in DOMAIN extracting, NEW o \in {"COMPLETED", "FAILED"}, ExtractionEnds(x, o)
      PROVE  IndexInv'
  BY <1>6, JobsMove DEF ExtractionEnds, sourceVars
<1>7. CASE UNCHANGED intentVars  BY <1>7, JobsMove DEF intentVars, sourceVars
<1> QED  BY <1>1, <1>2, <1>3, <1>4, <1>5, <1>6, <1>7 DEF IntentsNext

\* Whichever builds overlap, die or come late, and whatever is uploaded
\* meanwhile, a ready index holds the chunks of exactly its parsed sources.
THEOREM Complete == IntentsSpec => []IndexIsComplete
<1>1. IndexInv => IndexIsComplete  BY DEF IndexInv
<1> QED  BY <1>1, SourcesStart, IndexStep, PTL DEF IntentsSpec

-----------------------------------------------------------------------------
(* Continuations, jobs and what they name.                                  *)

StatusPair == {"UPLOADED", "PARSED", "FAILED"} \X {"DRAFT", "APPROVED", "REJECTED"}
Input == Nat \cup [snapshot : SnapshotType, seen : UNION {[V -> StatusPair] : V \in SUBSET (1..VersionBound)}]
IntentRow == [command : SourceCommands, revision : Nat, excluded : SUBSET Nat,
              status : Unfinished \cup {"SUCCEEDED", "FAILED", "SUPERSEDED"}, index : Nat, extract : Nat]
JobRow == [operation : {"INDEX", "EXTRACT"}, key : Nat, input : Input, row : Nat,
           status : ActiveJob \cup {"SUCCEEDED", "FAILED"}, attempt : 0..MaxIndexAttempts,
           holder : Builder \cup {NoBuilder}, generation : Nat]
ExtractingRow == [generation : Nat, status : {"PENDING", "COMPLETED", "FAILED"}]
BuildRow == [phase : {"idle", "valid", "pinned", "refused", "failed", "building", "stored", "built"},
             job : Nat, snapshot : SnapshotType, generation : Nat]

SourcesOK ==
    /\ archived \in BOOLEAN /\ Len(version) <= VersionBound
    /\ index.snapshot \in SnapshotType /\ (index.status # "NOT_INDEXED" => index.generation # 0)
    /\ \A g \in DOMAIN generation :
          generation[g].snapshot \in SnapshotType /\ generation[g].versions \subseteq 1..Len(version)
ExtractingOK ==
    /\ extracting \in Seq(ExtractingRow)
    /\ \A x \in DOMAIN extracting : extracting[x].generation \in 1..Len(generation)

\* What KeepsItsRevision says of the index that continuation i waited for.
Keeps(i) ==
    LET built == sourceJob[intent[i].index].generation
    IN  /\ intent[i].status = "SUCCEEDED" => generation[built].snapshot.revision <= intent[i].revision
        /\ intent[i].extract # 0 =>
              /\ sourceJob[intent[i].extract].input = built
              /\ generation[built].snapshot.revision = intent[i].revision

\* A continuation that has gone past its index waits for a job that succeeded
\* for good.
IntentOK(i) ==
    /\ intent[i].revision \in 1..Len(version) /\ intent[i].excluded \subseteq 1..Len(version)
    /\ intent[i].index <= Len(sourceJob) /\ intent[i].extract <= Len(sourceJob)
    /\ intent[i].index # 0 => sourceJob[intent[i].index].operation = "INDEX"
    /\ intent[i].extract # 0 => sourceJob[intent[i].extract].operation = "EXTRACT"
    /\ intent[i].status = "EXTRACTING" => intent[i].extract # 0
    /\ intent[i].status = "SUCCEEDED" \/ intent[i].extract # 0 =>
          intent[i].index # 0 /\ sourceJob[intent[i].index].status = "SUCCEEDED"
    /\ Keeps(i)
IntentsOK == intent \in Seq(IntentRow) /\ \A i \in DOMAIN intent : IntentOK(i)

\* The row that an EXTRACT job follows is of no later sources than the job's
\* input: it was made or found while the index was of the newest.
RowKept(j) ==
    /\ sourceJob[j].input \in 1..Len(generation)
    /\ generation[extracting[sourceJob[j].row].generation].snapshot.revision
          <= generation[sourceJob[j].input].snapshot.revision

\* A job stored for a continuation is asked to extract from the index that the
\* continuation waited for.
JobOK(j) ==
    /\ sourceJob[j].generation <= Len(generation)
    /\ sourceJob[j].operation = "INDEX" /\ sourceJob[j].status = "SUCCEEDED" => sourceJob[j].generation # 0
    /\ sourceJob[j].operation = "EXTRACT" => sourceJob[j].row \in 1..Len(extracting) /\ RowKept(j)
    /\ sourceJob[j].operation = "EXTRACT" /\ sourceJob[j].key # 0 =>
          LET i == sourceJob[j].key
          IN  /\ i \in 1..Len(intent) /\ intent[i].index \in 1..Len(sourceJob)
              /\ sourceJob[intent[i].index].operation = "INDEX" /\ sourceJob[intent[i].index].status = "SUCCEEDED"
              /\ sourceJob[j].input = sourceJob[intent[i].index].generation
              /\ generation[sourceJob[j].input].snapshot.revision = intent[i].revision
JobsOK == sourceJob \in Seq(JobRow) /\ \A j \in DOMAIN sourceJob : JobOK(j)

BuildOK(b) ==
    /\ builder[b].job <= Len(sourceJob) /\ builder[b].generation <= Len(generation)
    /\ builder[b].phase = "stored" => Len(generation) # 0
    /\ builder[b].phase = "built" => builder[b].generation # 0
BuildsOK == builder \in [Builder -> BuildRow] /\ \A b \in Builder : BuildOK(b)

CountsOK == failing \in 0..Len(intent) /\ commands \in 0..CommandBound
LinksInv == IndexInv /\ SourcesOK /\ ExtractingOK /\ IntentsOK /\ JobsOK /\ BuildsOK /\ CountsOK

-----------------------------------------------------------------------------
\* What later steps leave of rows that are there.
VersionsStay == Len(version') \in Nat /\ Len(version) <= Len(version')
GenerationsStay ==
    /\ Len(generation') \in Nat /\ Len(generation) <= Len(generation')
    /\ \A g \in 1..Len(generation) : generation'[g].snapshot = generation[g].snapshot
ExtractingStays ==
    /\ Len(extracting') \in Nat /\ Len(extracting) <= Len(extracting')
    /\ \A x \in 1..Len(extracting) : extracting'[x].generation = extracting[x].generation
JobsStay ==
    /\ Len(sourceJob') \in Nat /\ Len(sourceJob) <= Len(sourceJob')
    /\ \A j \in 1..Len(sourceJob) :
          /\ sourceJob'[j].operation = sourceJob[j].operation /\ sourceJob'[j].key = sourceJob[j].key
          /\ sourceJob'[j].input = sourceJob[j].input /\ sourceJob'[j].row = sourceJob[j].row
          /\ sourceJob[j].operation = "INDEX" /\ sourceJob[j].status = "SUCCEEDED" => sourceJob'[j] = sourceJob[j]
IntentsStay ==
    /\ Len(intent') \in Nat /\ Len(intent) <= Len(intent')
    /\ \A i \in 1..Len(intent) :
          /\ intent'[i].revision = intent[i].revision
          /\ intent[i].index # 0 => intent'[i].index = intent[i].index
RowsStay == VersionsStay /\ GenerationsStay /\ ExtractingStays /\ JobsStay /\ IntentsStay

\* The rows of all tables.
LEMMA Tables ==
  ASSUME LinksInv
  PROVE  /\ Len(version) \in Nat /\ DOMAIN version = 1..Len(version) /\ version \in Seq(VersionRow)
         /\ Len(generation) \in Nat /\ DOMAIN generation = 1..Len(generation)
         /\ \A g \in DOMAIN generation : generation[g] \in GenerationRow
         /\ Len(extracting) \in Nat /\ DOMAIN extracting = 1..Len(extracting)
         /\ \A x \in DOMAIN extracting : extracting[x] \in ExtractingRow
         /\ Len(sourceJob) \in Nat /\ DOMAIN sourceJob = 1..Len(sourceJob)
         /\ \A j \in DOMAIN sourceJob : sourceJob[j] \in JobRow /\ JobOK(j)
         /\ Len(intent) \in Nat /\ DOMAIN intent = 1..Len(intent)
         /\ \A i \in DOMAIN intent : intent[i] \in IntentRow /\ IntentOK(i)
         /\ \A b \in Builder : builder[b] \in BuildRow /\ BuildOK(b)
         /\ index.generation = Len(generation)
BY DEF LinksInv, IndexInv, IndexTyped, IndexIsComplete, ExtractingOK, JobsOK, IntentsOK, BuildsOK

\* A table that is left alone keeps its rows.
LEMMA TablesStay ==
  ASSUME LinksInv
  PROVE  /\ UNCHANGED version => VersionsStay
         /\ UNCHANGED generation => GenerationsStay
         /\ UNCHANGED extracting => ExtractingStays
         /\ UNCHANGED sourceJob => JobsStay
         /\ UNCHANGED intent => IntentsStay
BY Tables DEF VersionsStay, GenerationsStay, ExtractingStays, JobsStay, IntentsStay

\* A continuation whose status moves on, short of succeeding by its index.
LEMMA IntentKept ==
  ASSUME LinksInv, RowsStay, NEW i \in DOMAIN intent,
         intent'[i].revision = intent[i].revision, intent'[i].excluded = intent[i].excluded,
         intent'[i].index = intent[i].index, intent'[i].extract = intent[i].extract,
         intent'[i].status = "EXTRACTING" => intent[i].extract # 0,
         intent'[i].status = "SUCCEEDED" => intent[i].status = "SUCCEEDED" \/ intent[i].extract # 0
  PROVE  IntentOK(i)'
<1> DEFINE x == intent[i].index
           e == intent[i].extract
           r == intent[i].revision
<1>1. /\ intent[i] \in IntentRow /\ IntentOK(i) /\ x \in Nat /\ e \in Nat /\ r \in Nat
      /\ Len(version) \in Nat /\ Len(sourceJob) \in Nat /\ Len(generation) \in Nat
  BY Tables DEF IntentRow
<1>2. /\ r \in 1..Len(version') /\ intent[i].excluded \subseteq 1..Len(version')
      /\ x <= Len(sourceJob') /\ e <= Len(sourceJob')
  BY <1>1 DEF IntentOK, RowsStay, VersionsStay, JobsStay
<1>3. /\ x # 0 => x \in 1..Len(sourceJob) /\ sourceJob'[x].operation = "INDEX"
      /\ e # 0 => e \in 1..Len(sourceJob) /\ sourceJob'[e].operation = "EXTRACT"
                /\ sourceJob'[e].input = sourceJob[e].input
  BY <1>1 DEF IntentOK, RowsStay, JobsStay
<1>4. intent[i].status = "SUCCEEDED" \/ e # 0 =>
         /\ x # 0 /\ sourceJob'[x] = sourceJob[x] /\ sourceJob[x].status = "SUCCEEDED"
         /\ sourceJob[x].generation \in 1..Len(generation)
         /\ generation'[sourceJob[x].generation].snapshot = generation[sourceJob[x].generation].snapshot
  <2> SUFFICES ASSUME intent[i].status = "SUCCEEDED" \/ e # 0
               PROVE /\ x # 0 /\ sourceJob'[x] = sourceJob[x] /\ sourceJob[x].status = "SUCCEEDED"
                     /\ sourceJob[x].generation \in 1..Len(generation)
                     /\ generation'[sourceJob[x].generation].snapshot = generation[sourceJob[x].generation].snapshot
    OBVIOUS
  <2>1. /\ x # 0 /\ x \in 1..Len(sourceJob) /\ sourceJob[x].status = "SUCCEEDED"
        /\ sourceJob[x].operation = "INDEX"
    BY <1>1, <1>3 DEF IntentOK
  <2>2. sourceJob[x] \in JobRow /\ JobOK(x)  BY <2>1, Tables
  <2>3. sourceJob[x].generation \in 1..Len(generation)  BY <1>1, <2>1, <2>2 DEF JobRow, JobOK
  <2> QED  BY <2>1, <2>3 DEF RowsStay, JobsStay, GenerationsStay
<1>5. Keeps(i)'
  <2>1. intent'[i].status = "SUCCEEDED" => intent[i].status = "SUCCEEDED" \/ e # 0  OBVIOUS
  <2>2. Keeps(i)  BY <1>1 DEF IntentOK
  <2>3. PICK built : built = sourceJob[x].generation  OBVIOUS
  <2>4. e # 0 => generation'[built].snapshot.revision = r /\ sourceJob'[e].input = built /\ sourceJob'[x].generation = built
    BY <1>3, <1>4, <2>2, <2>3 DEF Keeps
  <2>5. intent[i].status = "SUCCEEDED" => generation'[built].snapshot.revision <= r /\ sourceJob'[x].generation = built
    BY <1>4, <2>2, <2>3 DEF Keeps
  <2>6. r <= r  BY <1>1
  <2> QED  BY <2>1, <2>4, <2>5, <2>6 DEF Keeps
<1> QED  BY <1>2, <1>3, <1>4, <1>5, <1>1 DEF IntentOK

\* Continuations that no step touches stay in order when other tables move on.
LEMMA IntentsKept ==
  ASSUME LinksInv, RowsStay, UNCHANGED intent
  PROVE  IntentsOK'
<1>1. \A i \in DOMAIN intent : IntentOK(i)'
  <2> SUFFICES ASSUME NEW i \in DOMAIN intent PROVE IntentOK(i)'  OBVIOUS
  <2>1. IntentOK(i)  BY Tables
  <2> QED  BY <2>1, IntentKept DEF IntentOK
<1> QED  BY <1>1 DEF LinksInv, IntentsOK

\* A row keeps to the input of the job that follows it.
LEMMA RowKeeps ==
  ASSUME LinksInv, GenerationsStay, ExtractingStays, NEW j \in DOMAIN sourceJob, sourceJob[j].operation = "EXTRACT",
         sourceJob'[j].row = sourceJob[j].row, sourceJob'[j].input = sourceJob[j].input
  PROVE  sourceJob'[j].row \in 1..Len(extracting') /\ RowKept(j)'
<1>1. PICK x, y, g : x = sourceJob[j].row /\ y = sourceJob[j].input /\ g = extracting[x].generation  OBVIOUS
<1>2. /\ x \in 1..Len(extracting) /\ y \in 1..Len(generation)
      /\ generation[g].snapshot.revision <= generation[y].snapshot.revision
  BY <1>1, Tables DEF JobOK, RowKept
<1>3. Len(extracting) \in Nat /\ Len(generation) \in Nat /\ DOMAIN extracting = 1..Len(extracting)  BY Tables
<1>4. g \in 1..Len(generation)  BY <1>1, <1>2, <1>3 DEF LinksInv, ExtractingOK
<1>5. x \in 1..Len(extracting') /\ extracting'[x].generation = g
  BY <1>1, <1>2, <1>3 DEF ExtractingStays
<1>6. /\ y \in 1..Len(generation') /\ generation'[y].snapshot = generation[y].snapshot
      /\ generation'[g].snapshot = generation[g].snapshot
  BY <1>2, <1>3, <1>4 DEF GenerationsStay
<1> QED  BY <1>1, <1>2, <1>5, <1>6 DEF RowKept

\* A job that does not come to succeed with an index.
LEMMA JobKept ==
  ASSUME LinksInv, RowsStay, NEW j \in DOMAIN sourceJob, sourceJob'[j].generation = sourceJob[j].generation,
         sourceJob[j].operation = "INDEX" /\ sourceJob'[j].status = "SUCCEEDED" => sourceJob[j].status = "SUCCEEDED"
  PROVE  JobOK(j)'
<1>1. /\ sourceJob[j] \in JobRow /\ JobOK(j) /\ sourceJob[j].generation \in Nat /\ j \in 1..Len(sourceJob)
      /\ Len(sourceJob) \in Nat /\ Len(generation) \in Nat /\ Len(extracting) \in Nat /\ Len(intent) \in Nat
  BY Tables DEF JobRow
<1>2. /\ sourceJob'[j].operation = sourceJob[j].operation /\ sourceJob'[j].key = sourceJob[j].key
      /\ sourceJob'[j].input = sourceJob[j].input /\ sourceJob'[j].row = sourceJob[j].row
  BY <1>1 DEF RowsStay, JobsStay
<1>3. /\ sourceJob[j].generation <= Len(generation')
      /\ sourceJob[j].operation = "EXTRACT" => sourceJob[j].row \in 1..Len(extracting') /\ RowKept(j)'
  <2>1. sourceJob[j].generation <= Len(generation')  BY <1>1 DEF JobOK, RowsStay, GenerationsStay
  <2> QED  BY <1>2, <2>1, RowKeeps DEF RowsStay
<1>4. ASSUME sourceJob[j].operation = "EXTRACT", sourceJob[j].key # 0, NEW i, i = sourceJob[j].key
      PROVE  /\ i \in 1..Len(intent') /\ intent'[i].index \in 1..Len(sourceJob')
             /\ sourceJob'[intent'[i].index].operation = "INDEX"
             /\ sourceJob'[intent'[i].index].status = "SUCCEEDED"
             /\ sourceJob[j].input = sourceJob'[intent'[i].index].generation
             /\ generation'[sourceJob[j].input].snapshot.revision = intent'[i].revision
  <2>1. PICK x : x = intent[i].index  OBVIOUS
  <2>2. /\ i \in 1..Len(intent) /\ x \in 1..Len(sourceJob) /\ sourceJob[x].operation = "INDEX"
        /\ sourceJob[x].status = "SUCCEEDED" /\ sourceJob[j].input = sourceJob[x].generation
        /\ generation[sourceJob[j].input].snapshot.revision = intent[i].revision
    BY <1>1, <1>4, <2>1 DEF JobOK
  <2>3. sourceJob[x] \in JobRow /\ JobOK(x)  BY <2>2, Tables
  <2>4. sourceJob[x].generation \in 1..Len(generation)  BY <1>1, <2>2, <2>3 DEF JobRow, JobOK
  <2>5. /\ x # 0 /\ i \in 1..Len(intent') /\ x \in 1..Len(sourceJob')
        /\ Len(intent) <= Len(intent') /\ Len(sourceJob) <= Len(sourceJob')
    BY <1>1, <2>2 DEF RowsStay, JobsStay, IntentsStay
  <2>6. sourceJob'[x] = sourceJob[x]  BY <2>2 DEF RowsStay, JobsStay
  <2>7. intent'[i].index = x /\ intent'[i].revision = intent[i].revision
    BY <2>1, <2>2, <2>5 DEF RowsStay, IntentsStay
  <2>8. generation'[sourceJob[x].generation].snapshot = generation[sourceJob[x].generation].snapshot
    BY <2>4 DEF RowsStay, GenerationsStay
  <2> QED  BY <2>2, <2>5, <2>6, <2>7, <2>8
<1>5. sourceJob[j].operation = "INDEX" /\ sourceJob'[j].status = "SUCCEEDED" => sourceJob[j].generation # 0
  BY <1>1 DEF JobOK
<1> QED  BY <1>2, <1>3, <1>4, <1>5 DEF JobOK

\* Jobs that no step touches stay in order when other tables move on.
LEMMA JobsKept ==
  ASSUME LinksInv, RowsStay, UNCHANGED sourceJob
  PROVE  JobsOK'
<1>1. \A j \in DOMAIN sourceJob : JobOK(j)'  BY JobKept
<1> QED  BY <1>1 DEF LinksInv, JobsOK

\* What a worker holds stays in order when other tables move on.
LEMMA BuildsKept ==
  ASSUME LinksInv, RowsStay, NEW b \in Builder, builder'[b] = builder[b]
  PROVE  BuildOK(b)'
<1>1. /\ builder[b] \in BuildRow /\ BuildOK(b) /\ builder[b].job \in Nat /\ builder[b].generation \in Nat
      /\ Len(sourceJob) \in Nat /\ Len(generation) \in Nat
  BY Tables DEF BuildRow
<1> QED  BY <1>1 DEF BuildOK, RowsStay, JobsStay, GenerationsStay

\* Sources, their index and the rows of extraction, when no step touches them.
LEMMA SourcesKept ==
  ASSUME LinksInv
  PROVE  /\ UNCHANGED sourceVars => SourcesOK'
         /\ GenerationsStay /\ UNCHANGED extracting => ExtractingOK'
         /\ UNCHANGED <<failing, commands>> /\ IntentsStay => CountsOK'
<1>1. UNCHANGED sourceVars => SourcesOK'  BY DEF LinksInv, SourcesOK, sourceVars
<1>2. GenerationsStay /\ UNCHANGED extracting => ExtractingOK'
  BY Tables DEF LinksInv, ExtractingOK, GenerationsStay
<1>3. UNCHANGED <<failing, commands>> /\ IntentsStay => CountsOK'
  BY Tables DEF LinksInv, CountsOK, IntentsStay
<1> QED  BY <1>1, <1>2, <1>3

-----------------------------------------------------------------------------
(* Changes of one table. *)

\* One job is updated: the columns that enqueue wrote stay.
LEMMA JobUpdated ==
  ASSUME LinksInv, NEW j \in DOMAIN sourceJob, NEW row \in JobRow,
         sourceJob' = [sourceJob EXCEPT ![j] = row],
         row.operation = sourceJob[j].operation, row.key = sourceJob[j].key,
         row.input = sourceJob[j].input, row.row = sourceJob[j].row,
         sourceJob[j].operation = "INDEX" /\ sourceJob[j].status = "SUCCEEDED" => row = sourceJob[j]
  PROVE  /\ JobsStay /\ sourceJob' \in Seq(JobRow) /\ Len(sourceJob') = Len(sourceJob)
         /\ DOMAIN sourceJob' = DOMAIN sourceJob /\ sourceJob'[j] = row
         /\ \A k \in DOMAIN sourceJob : k # j => sourceJob'[k] = sourceJob[k]
<1>1. /\ sourceJob \in Seq(JobRow) /\ Len(sourceJob) \in Nat /\ DOMAIN sourceJob = 1..Len(sourceJob)
      /\ \A k \in DOMAIN sourceJob : sourceJob[k] \in JobRow
  BY Tables DEF LinksInv, JobsOK
<1>2. sourceJob' \in [1..Len(sourceJob) -> JobRow]  BY <1>1
<1>3. /\ sourceJob' \in Seq(JobRow) /\ Len(sourceJob') = Len(sourceJob)
      /\ DOMAIN sourceJob' = DOMAIN sourceJob
  BY <1>1, <1>2, LenProperties
<1>4. /\ sourceJob'[j] = row
      /\ \A k \in DOMAIN sourceJob : k # j => sourceJob'[k] = sourceJob[k]
  BY <1>1
<1>5. JobsStay
  <2>1. Len(sourceJob') \in Nat /\ Len(sourceJob) <= Len(sourceJob')  BY <1>1, <1>3
  <2>2. ASSUME NEW k \in 1..Len(sourceJob)
        PROVE  /\ sourceJob'[k].operation = sourceJob[k].operation /\ sourceJob'[k].key = sourceJob[k].key
               /\ sourceJob'[k].input = sourceJob[k].input /\ sourceJob'[k].row = sourceJob[k].row
               /\ sourceJob[k].operation = "INDEX" /\ sourceJob[k].status = "SUCCEEDED" =>
                     sourceJob'[k] = sourceJob[k]
    BY <1>1, <1>4
  <2> QED  BY <2>1, <2>2 DEF JobsStay
<1> QED  BY <1>3, <1>4, <1>5

\* An updated job that does not come to succeed with an index.
LEMMA JobUpdatedOK ==
  ASSUME LinksInv, NEW j \in DOMAIN sourceJob, NEW row \in JobRow,
         sourceJob' = [sourceJob EXCEPT ![j] = row],
         row.operation = sourceJob[j].operation, row.key = sourceJob[j].key,
         row.input = sourceJob[j].input, row.row = sourceJob[j].row, row.generation = sourceJob[j].generation,
         sourceJob[j].operation = "INDEX" /\ sourceJob[j].status = "SUCCEEDED" => row = sourceJob[j],
         sourceJob[j].operation = "INDEX" /\ row.status = "SUCCEEDED" => sourceJob[j].status = "SUCCEEDED",
         VersionsStay, GenerationsStay, ExtractingStays, IntentsStay
  PROVE  RowsStay /\ JobsOK'
<1>1. /\ JobsStay /\ sourceJob' \in Seq(JobRow) /\ DOMAIN sourceJob' = DOMAIN sourceJob
      /\ sourceJob'[j] = row
      /\ \A k \in DOMAIN sourceJob : k # j => sourceJob'[k] = sourceJob[k]
  BY JobUpdated
<1>2. RowsStay  BY <1>1 DEF RowsStay
<1>3. ASSUME NEW k \in DOMAIN sourceJob PROVE JobOK(k)'
  <2>1. CASE k = j  BY <1>1, <1>2, <2>1, JobKept
  <2>2. CASE k # j  BY <1>1, <1>2, <2>2, JobKept
  <2> QED  BY <2>1, <2>2
<1> QED  BY <1>1, <1>2, <1>3 DEF JobsOK

\* One job is added: the older ones stay as they are.
LEMMA JobAdded ==
  ASSUME LinksInv, NEW row \in JobRow, sourceJob' = Append(sourceJob, row)
  PROVE  /\ JobsStay /\ sourceJob' \in Seq(JobRow) /\ Len(sourceJob') = Len(sourceJob) + 1
         /\ DOMAIN sourceJob' = DOMAIN sourceJob \cup {Len(sourceJob) + 1}
         /\ sourceJob'[Len(sourceJob) + 1] = row
         /\ \A k \in DOMAIN sourceJob : sourceJob'[k] = sourceJob[k]
<1>1. /\ sourceJob \in Seq(JobRow) /\ Len(sourceJob) \in Nat /\ DOMAIN sourceJob = 1..Len(sourceJob)
  BY Tables DEF LinksInv, JobsOK
<1>2. /\ sourceJob' \in Seq(JobRow) /\ Len(sourceJob') = Len(sourceJob) + 1
      /\ sourceJob'[Len(sourceJob) + 1] = row
      /\ \A k \in 1..Len(sourceJob) : sourceJob'[k] = sourceJob[k]
  BY <1>1, AppendProperties
<1>3. DOMAIN sourceJob' = DOMAIN sourceJob \cup {Len(sourceJob) + 1}
  <2>1. DOMAIN sourceJob' = 1..(Len(sourceJob) + 1)  BY <1>2, LenProperties
  <2> QED  BY <1>1, <2>1
<1>4. Len(sourceJob') \in Nat /\ Len(sourceJob) <= Len(sourceJob')  BY <1>1, <1>2
<1> QED  BY <1>1, <1>2, <1>3, <1>4 DEF JobsStay

\* An added job: what must be true of it alone.
LEMMA JobAddedOK ==
  ASSUME LinksInv, NEW row \in JobRow, sourceJob' = Append(sourceJob, row),
         NEW n, n = Len(sourceJob) + 1, RowsStay => JobOK(n)',
         VersionsStay, GenerationsStay, ExtractingStays, IntentsStay
  PROVE  RowsStay /\ JobsOK'
<1>1. /\ JobsStay /\ sourceJob' \in Seq(JobRow) /\ DOMAIN sourceJob' = DOMAIN sourceJob \cup {n}
      /\ sourceJob'[n] = row
      /\ \A k \in DOMAIN sourceJob : sourceJob'[k] = sourceJob[k]
  BY JobAdded
<1>2. RowsStay  BY <1>1 DEF RowsStay
<1>3. \A k \in DOMAIN sourceJob : JobOK(k)'  BY <1>1, <1>2, JobKept
<1> QED  BY <1>1, <1>2, <1>3 DEF JobsOK

\* One continuation is updated: its revision stays, and its index job once it
\* has one.
LEMMA IntentUpdated ==
  ASSUME LinksInv, NEW i \in DOMAIN intent, NEW row \in IntentRow, intent' = [intent EXCEPT ![i] = row],
         row.revision = intent[i].revision, intent[i].index # 0 => row.index = intent[i].index
  PROVE  /\ IntentsStay /\ intent' \in Seq(IntentRow) /\ Len(intent') = Len(intent)
         /\ DOMAIN intent' = DOMAIN intent /\ intent'[i] = row
         /\ \A k \in DOMAIN intent : k # i => intent'[k] = intent[k]
<1>1. /\ intent \in Seq(IntentRow) /\ Len(intent) \in Nat /\ DOMAIN intent = 1..Len(intent)
      /\ \A k \in DOMAIN intent : intent[k] \in IntentRow
  BY Tables DEF LinksInv, IntentsOK
<1>2. intent' \in [1..Len(intent) -> IntentRow]  BY <1>1
<1>3. intent' \in Seq(IntentRow) /\ Len(intent') = Len(intent) /\ DOMAIN intent' = DOMAIN intent
  BY <1>1, <1>2, LenProperties
<1>4. intent'[i] = row /\ \A k \in DOMAIN intent : k # i => intent'[k] = intent[k]
  BY <1>1
<1>5. IntentsStay
  <2>1. Len(intent') \in Nat /\ Len(intent) <= Len(intent')  BY <1>1, <1>3
  <2>2. ASSUME NEW k \in 1..Len(intent)
        PROVE  /\ intent'[k].revision = intent[k].revision
               /\ intent[k].index # 0 => intent'[k].index = intent[k].index
    BY <1>1, <1>4
  <2> QED  BY <2>1, <2>2 DEF IntentsStay
<1> QED  BY <1>3, <1>4, <1>5

\* What is left of the other continuations when one is updated.
LEMMA OtherIntents ==
  ASSUME LinksInv, RowsStay, NEW i \in DOMAIN intent, DOMAIN intent' = DOMAIN intent,
         intent' \in Seq(IntentRow), \A k \in DOMAIN intent : k # i => intent'[k] = intent[k],
         IntentOK(i)'
  PROVE  IntentsOK'
<1>1. ASSUME NEW k \in DOMAIN intent, k # i PROVE IntentOK(k)'
  <2>1. IntentOK(k) /\ intent'[k] = intent[k]  BY <1>1, Tables
  <2> QED  BY <2>1, IntentKept DEF IntentOK
<1> QED  BY <1>1 DEF IntentsOK

\* A new continuation waits for its sources and has no job yet.
LEMMA IntentAdded ==
  ASSUME LinksInv, RowsStay \/ (VersionsStay /\ GenerationsStay /\ ExtractingStays /\ JobsStay),
         NEW row \in IntentRow, intent' = Append(intent, row),
         row.revision \in 1..Len(version'), row.excluded \subseteq 1..Len(version'),
         row.index = 0, row.extract = 0, row.status = "WAITING_PARSE"
  PROVE  IntentsStay /\ RowsStay /\ IntentsOK'
<1>1. intent \in Seq(IntentRow) /\ Len(intent) \in Nat /\ DOMAIN intent = 1..Len(intent)
  BY Tables DEF LinksInv, IntentsOK
<1>2. /\ intent' \in Seq(IntentRow) /\ Len(intent') = Len(intent) + 1
      /\ intent'[Len(intent) + 1] = row
      /\ \A k \in 1..Len(intent) : intent'[k] = intent[k]
  BY <1>1, AppendProperties
<1>3. DOMAIN intent' = DOMAIN intent \cup {Len(intent) + 1}
  <2>1. DOMAIN intent' = 1..(Len(intent) + 1)  BY <1>2, LenProperties
  <2> QED  BY <1>1, <2>1
<1>4. IntentsStay
  <2>1. Len(intent') \in Nat /\ Len(intent) <= Len(intent')  BY <1>1, <1>2
  <2> QED  BY <1>2, <2>1 DEF IntentsStay
<1>5. RowsStay  BY <1>4 DEF RowsStay
<1>6. ASSUME NEW k \in DOMAIN intent PROVE IntentOK(k)'
  <2>1. IntentOK(k) /\ intent'[k] = intent[k]  BY <1>1, <1>2, Tables
  <2> QED  BY <1>5, <2>1, IntentKept DEF IntentOK
<1>7. PICK n : n = Len(intent) + 1  OBVIOUS
<1>8. IntentOK(n)'
  <2>1. intent'[n] = row  BY <1>2, <1>7
  <2>2. Len(sourceJob') \in Nat  BY <1>5 DEF RowsStay, JobsStay
  <2>3. 0 <= Len(sourceJob')  BY <2>2
  <2>4. Keeps(n)'  BY <2>1 DEF Keeps
  <2> QED  BY <2>1, <2>3, <2>4 DEF IntentOK
<1> QED  BY <1>2, <1>3, <1>4, <1>5, <1>6, <1>7, <1>8 DEF IntentsOK

\* A builder that moves on.
LEMMA BuilderUpdated ==
  ASSUME LinksInv, RowsStay, NEW b \in Builder, NEW row \in BuildRow,
         builder' = [builder EXCEPT ![b] = row],
         row.job <= Len(sourceJob'), row.generation <= Len(generation'),
         row.phase = "stored" => Len(generation') # 0,
         row.phase = "built" => row.generation # 0
  PROVE  BuildsOK'
<1>1. builder \in [Builder -> BuildRow]  BY DEF LinksInv, BuildsOK
<1>2. builder' \in [Builder -> BuildRow]  BY <1>1
<1>3. ASSUME NEW a \in Builder PROVE BuildOK(a)'
  <2>1. CASE a = b
    <3>1. builder'[b] = row  BY <1>1
    <3> QED  BY <2>1, <3>1 DEF BuildOK
  <2>2. CASE a # b
    <3>1. builder'[a] = builder[a]  BY <1>1, <2>2
    <3> QED  BY <3>1, BuildsKept
  <2> QED  BY <2>1, <2>2
<1> QED  BY <1>2, <1>3 DEF BuildsOK

\* All that the workers hold, in a step that touches none of it.
LEMMA BuildersKept ==
  ASSUME LinksInv, RowsStay, UNCHANGED builder
  PROVE  BuildsOK'
<1>1. \A b \in Builder : BuildOK(b)'  BY BuildsKept
<1> QED  BY <1>1 DEF LinksInv, BuildsOK

\* A step of builders only.
LEMMA OnlyBuilders ==
  ASSUME LinksInv, IndexInv', UNCHANGED <<sourceVars, intent, sourceJob, extracting, failing>>,
         commands' \in 0..CommandBound, NEW b \in Builder, NEW row \in BuildRow,
         builder' = [builder EXCEPT ![b] = row],
         row.job <= Len(sourceJob), row.generation <= Len(generation),
         row.phase = "stored" => Len(generation) # 0,
         row.phase = "built" => row.generation # 0
  PROVE  LinksInv'
<1>1. RowsStay  BY TablesStay DEF RowsStay, sourceVars
<1>2. UNCHANGED generation  BY DEF sourceVars
<1>3. BuildsOK'  BY <1>1, <1>2, BuilderUpdated
<1>4. SourcesOK' /\ ExtractingOK'  BY <1>1, SourcesKept DEF RowsStay
<1>5. CountsOK'  BY DEF LinksInv, CountsOK
<1> QED  BY <1>1, <1>3, <1>4, <1>5, IntentsKept, JobsKept DEF LinksInv

\* A step of versions only, which neither adds nor drops one.
LEMMA OnlyVersions ==
  ASSUME LinksInv, IndexInv', UNCHANGED <<index, generation, intent, sourceJob, extracting, builder, failing>>,
         commands' \in 0..CommandBound, archived' \in BOOLEAN, Len(version') = Len(version)
  PROVE  LinksInv'
<1>1. VersionsStay  BY Tables DEF VersionsStay
<1>2. RowsStay  BY <1>1, TablesStay DEF RowsStay
<1>3. SourcesOK'  BY DEF LinksInv, SourcesOK
<1>4. ExtractingOK'  BY <1>2, SourcesKept DEF RowsStay
<1>5. CountsOK'  BY DEF LinksInv, CountsOK
<1> QED  BY <1>2, <1>3, <1>4, <1>5, IntentsKept, JobsKept, BuildersKept DEF LinksInv

\* A step of one job only, which does not come to succeed with an index.
LEMMA OnlyJob ==
  ASSUME LinksInv, IndexInv', UNCHANGED <<sourceVars, intent, extracting, builder, failing, commands>>,
         NEW j \in DOMAIN sourceJob, NEW row \in JobRow, sourceJob' = [sourceJob EXCEPT ![j] = row],
         row.operation = sourceJob[j].operation, row.key = sourceJob[j].key,
         row.input = sourceJob[j].input, row.row = sourceJob[j].row, row.generation = sourceJob[j].generation,
         sourceJob[j].operation = "INDEX" /\ sourceJob[j].status = "SUCCEEDED" => row = sourceJob[j],
         sourceJob[j].operation = "INDEX" /\ row.status = "SUCCEEDED" => sourceJob[j].status = "SUCCEEDED"
  PROVE  LinksInv'
<1>1. VersionsStay /\ GenerationsStay /\ ExtractingStays /\ IntentsStay
  BY TablesStay DEF sourceVars
<1>2. RowsStay /\ JobsOK'  BY <1>1, JobUpdatedOK
<1>3. SourcesOK' /\ ExtractingOK' /\ CountsOK'  BY <1>1, SourcesKept
<1> QED  BY <1>2, <1>3, IntentsKept, BuildersKept DEF LinksInv

\* A step of one continuation's row only.
LEMMA OnlyIntent ==
  ASSUME LinksInv, IndexInv', UNCHANGED <<sourceVars, sourceJob, extracting, builder, commands>>,
         failing' \in 0..Len(intent),
         NEW i \in DOMAIN intent, NEW row \in IntentRow, intent' = [intent EXCEPT ![i] = row],
         row.revision = intent[i].revision, intent[i].index # 0 => row.index = intent[i].index,
         RowsStay /\ intent'[i] = row => IntentOK(i)'
  PROVE  LinksInv'
<1>1. VersionsStay /\ GenerationsStay /\ ExtractingStays /\ JobsStay
  BY TablesStay DEF sourceVars
<1>2. /\ IntentsStay /\ intent' \in Seq(IntentRow) /\ Len(intent') = Len(intent)
      /\ DOMAIN intent' = DOMAIN intent /\ intent'[i] = row
      /\ \A k \in DOMAIN intent : k # i => intent'[k] = intent[k]
  BY IntentUpdated
<1>3. RowsStay  BY <1>1, <1>2 DEF RowsStay
<1>4. IntentsOK'  BY <1>2, <1>3, OtherIntents
<1>5. SourcesOK' /\ ExtractingOK'  BY <1>1, SourcesKept
<1>6. CountsOK'  BY <1>2 DEF LinksInv, CountsOK
<1> QED  BY <1>3, <1>4, <1>5, <1>6, JobsKept, BuildersKept DEF LinksInv

\* A continuation whose status moves on, in a step of nothing else.
LEMMA StatusMoves ==
  ASSUME LinksInv, IndexInv', UNCHANGED <<sourceVars, sourceJob, extracting, builder, commands>>,
         failing' \in 0..Len(intent),
         NEW i \in DOMAIN intent, NEW status \in {"WAITING_PARSE", "INDEXING", "FAILED", "SUPERSEDED"},
         Becomes(i, status)
  PROVE  LinksInv'
<1>1. PICK row : row = [intent[i] EXCEPT !.status = status]  OBVIOUS
<1>2. intent[i] \in IntentRow  BY Tables
<1>3. /\ row \in IntentRow /\ row.revision = intent[i].revision /\ row.excluded = intent[i].excluded
      /\ row.index = intent[i].index /\ row.extract = intent[i].extract /\ row.status = status
  BY <1>1, <1>2 DEF IntentRow, Unfinished
<1>4. intent' = [intent EXCEPT ![i] = row]  BY <1>1 DEF Becomes
<1>5. RowsStay /\ intent'[i] = row => IntentOK(i)'  BY <1>3, IntentKept
<1> QED  BY <1>3, <1>4, <1>5, OnlyIntent

-----------------------------------------------------------------------------
\* An empty set of documents.
LEMMA LinksStart == IntentsInit => LinksInv
<1> SUFFICES ASSUME IntentsInit PROVE LinksInv  OBVIOUS
<1>1. /\ version = << >> /\ generation = << >> /\ intent = << >> /\ sourceJob = << >> /\ extracting = << >>
      /\ index = [status |-> "NOT_INDEXED", generation |-> 0, snapshot |-> NoSnapshot]
      /\ archived = FALSE /\ failing = 0 /\ commands = 0 /\ builder = [b \in Builder |-> NoBuild]
  BY DEF IntentsInit, SourcesInit
<1>2. NoSnapshot \in SnapshotType
  BY VersionAssumption DEF NoSnapshot, SnapshotType
<1>3. /\ Len(version) = 0 /\ Len(generation) = 0 /\ Len(intent) = 0 /\ Len(sourceJob) = 0 /\ Len(extracting) = 0
      /\ DOMAIN version = {} /\ DOMAIN generation = {} /\ DOMAIN intent = {}
      /\ DOMAIN sourceJob = {} /\ DOMAIN extracting = {}
      /\ intent \in Seq(IntentRow) /\ sourceJob \in Seq(JobRow) /\ extracting \in Seq(ExtractingRow)
  BY <1>1, EmptySeq
<1>4. SourcesOK
  <2>1. Len(version) <= VersionBound  BY <1>3, VersionAssumption
  <2>2. index.snapshot = NoSnapshot /\ index.status = "NOT_INDEXED"  BY <1>1
  <2> QED  BY <1>1, <1>2, <1>3, <2>1, <2>2 DEF SourcesOK
<1>5. ExtractingOK /\ IntentsOK /\ JobsOK  BY <1>3 DEF ExtractingOK, IntentsOK, JobsOK
<1>6. BuildsOK
  <2>1. NoBuild \in BuildRow  BY <1>2 DEF NoBuild, BuildRow
  <2> QED  BY <1>1, <1>3, <2>1 DEF BuildsOK, BuildOK, NoBuild
<1>7. CountsOK  BY <1>1, <1>3, IntentBoundsAssumption DEF CountsOK
<1> QED  BY <1>4, <1>5, <1>6, <1>7, SourcesStart DEF LinksInv

-----------------------------------------------------------------------------
(* Users. *)

\* A source may be indexed when it is a latest version: one of the rows.
LEMMA IndexableTyped ==
  ASSUME LinksInv, NEW excluded, Indexable(excluded)
  PROVE  /\ CreateSourceSnapshot(excluded) \in SnapshotType /\ IndexInput(excluded) \in Input
         /\ excluded \subseteq 1..Len(version)
<1>1. /\ Len(version) \in Nat /\ DOMAIN version = 1..Len(version) /\ Len(version) <= VersionBound
      /\ \A v \in DOMAIN version : version[v] \in VersionRow
  BY Tables, RowsOfVersions DEF LinksInv, SourcesOK
<1>2. Latest \subseteq 1..Len(version) /\ excluded \subseteq 1..Len(version)
  BY <1>1 DEF Indexable, Latest
<1>3. Latest \subseteq 1..VersionBound /\ excluded \subseteq 1..VersionBound /\ Len(version) \in 0..VersionBound
  BY <1>1, <1>2, VersionAssumption
<1>4. CreateSourceSnapshot(excluded) \in SnapshotType
  BY <1>3 DEF CreateSourceSnapshot, SourceRevision, SnapshotType
<1>5. [v \in Latest |-> <<version[v].parse, version[v].approval>>] \in [Latest -> StatusPair]
  BY <1>1, <1>2 DEF StatusPair, VersionRow
<1>6. IndexInput(excluded) \in
         [snapshot : SnapshotType, seen : UNION {[V -> StatusPair] : V \in SUBSET (1..VersionBound)}]
  BY <1>3, <1>4, <1>5 DEF IndexInput
<1> QED  BY <1>2, <1>4, <1>6 DEF Input

\* An upload stores a version and the continuation that indexes it.
LEMMA LinksUpload ==
  ASSUME LinksInv, IndexInv', NEW d \in Document, UploadSource(d), UNCHANGED commands
  PROVE  LinksInv'
<1>1. PICK row : row = Stored("INDEX", {})  OBVIOUS
<1>2. /\ version' = Append(version, [doc |-> d, parse |-> "UPLOADED", approval |-> "DRAFT"])
      /\ Len(version) < VersionBound /\ intent' = Append(intent, row) /\ failing = 0 /\ failing' = 0
      /\ UNCHANGED <<archived, index, generation, sourceJob, extracting, builder>>
  BY <1>1 DEF UploadSource, AddVersion, SetUnlocked, SourceRevision
<1>3. Len(version) \in Nat /\ Len(version') = Len(version) + 1
  BY <1>2, Tables, AppendProperties DEF VersionRow
<1>4. VersionsStay  BY <1>3 DEF VersionsStay
<1>5. GenerationsStay /\ ExtractingStays /\ JobsStay  BY <1>2, TablesStay
<1>6. /\ row \in IntentRow /\ row.revision = Len(version') /\ row.excluded = {} /\ row.index = 0
      /\ row.extract = 0 /\ row.status = "WAITING_PARSE"
  BY <1>1, <1>3 DEF Stored, SourceRevision, IntentRow, Unfinished, SourceCommands
<1>7. row.revision \in 1..Len(version') /\ row.excluded \subseteq 1..Len(version')  BY <1>3, <1>6
<1>8. IntentsStay /\ RowsStay /\ IntentsOK'  BY <1>2, <1>4, <1>5, <1>6, <1>7, IntentAdded
<1>9. SourcesOK'
  <2>1. Len(version') <= VersionBound  BY <1>2, <1>3, VersionAssumption
  <2>2. 1..Len(version) \subseteq 1..Len(version')  BY <1>3
  <2> QED  BY <1>2, <2>1, <2>2 DEF LinksInv, SourcesOK
<1>10. ExtractingOK'  BY <1>2, <1>5, SourcesKept
<1>11. CountsOK'  BY <1>2, <1>8, SourcesKept
<1> QED  BY <1>2, <1>8, <1>9, <1>10, <1>11, JobsKept, BuildersKept DEF LinksInv

\* A command stores approvals and its continuation, of the revision it saw.
LEMMA LinksCommand ==
  ASSUME LinksInv, IndexInv', NEW command \in SourceCommands, NEW selected \in SUBSET Latest,
         NEW excluded \in SUBSET Latest,
         SourceCommand(command, selected, excluded), commands' \in 0..CommandBound
  PROVE  LinksInv'
<1>1. PICK row : row = Stored(command, excluded)  OBVIOUS
<1>2. /\ version' = [v \in DOMAIN version |->
             IF v \in selected THEN [version[v] EXCEPT !.approval = "APPROVED"] ELSE version[v]]
      /\ intent' = Append(intent, row) /\ failing = 0 /\ failing' = 0
      /\ Latest \ excluded # {}
      /\ UNCHANGED <<archived, index, generation, sourceJob, extracting, builder>>
  BY <1>1 DEF SourceCommand, SetUnlocked
<1>3. Len(version') = Len(version) /\ Len(version) \in Nat /\ Len(version) # 0
      /\ excluded \subseteq 1..Len(version)
  <2>1. Len(version) \in Nat /\ DOMAIN version = 1..Len(version)  BY Tables
  <2>2. version' \in Seq(VersionRow)  BY DEF IndexInv, IndexTyped
  <2>3. DOMAIN version' = 1..Len(version') /\ Len(version') \in Nat  BY <2>2, LenProperties
  <2>4. DOMAIN version' = DOMAIN version  BY <1>2
  <2>5. Latest \subseteq 1..Len(version)  BY <2>1 DEF Latest
  <2>6. Len(version) # 0  BY <1>2, <2>1, <2>5
  <2>7. Len(version') = Len(version)
    <3>1. PICK m \in Nat, n \in Nat : m = Len(version') /\ n = Len(version)  BY <2>1, <2>3
    <3>2. 1..m = 1..n  BY <2>1, <2>3, <2>4, <3>1
    <3> QED  BY <3>1, <3>2
  <2> QED  BY <2>1, <2>5, <2>6, <2>7
<1>4. VersionsStay  BY <1>3 DEF VersionsStay
<1>5. GenerationsStay /\ ExtractingStays /\ JobsStay  BY <1>2, TablesStay
<1>6. /\ row \in IntentRow /\ row.revision = Len(version') /\ row.excluded = excluded /\ row.index = 0
      /\ row.extract = 0 /\ row.status = "WAITING_PARSE"
  <2>1. excluded \subseteq Nat  BY <1>3
  <2> QED  BY <1>1, <1>3, <2>1 DEF Stored, SourceRevision, IntentRow, Unfinished
<1>7. row.revision \in 1..Len(version') /\ row.excluded \subseteq 1..Len(version')  BY <1>3, <1>6
<1>8. IntentsStay /\ RowsStay /\ IntentsOK'  BY <1>2, <1>4, <1>5, <1>6, <1>7, IntentAdded
<1>9. SourcesOK'  BY <1>2, <1>3 DEF LinksInv, SourcesOK
<1>10. ExtractingOK'  BY <1>2, <1>5, SourcesKept
<1>11. CountsOK'
  <2>1. Len(intent') \in Nat /\ 0 <= Len(intent')  BY <1>8 DEF IntentsStay
  <2> QED  BY <1>2, <2>1 DEF CountsOK
<1> QED  BY <1>2, <1>8, <1>9, <1>10, <1>11, JobsKept, BuildersKept DEF LinksInv

\* Versions that are reviewed or parsed.
LEMMA LinksVersions ==
  ASSUME LinksInv, IndexInv', NEW v \in DOMAIN version, commands' \in 0..CommandBound,
         \/ \E r \in BOOLEAN : ReviewSource(v, "REJECTED", r)
         \/ \E o \in {"PARSED", "FAILED"} : SourceParsed(v, o)
  PROVE  LinksInv'
<1>1. /\ \/ version' = [version EXCEPT ![v].approval = "REJECTED"]
         \/ \E o \in {"PARSED", "FAILED"} : version' = [version EXCEPT ![v].parse = o]
      /\ UNCHANGED <<archived, index, generation, intent, sourceJob, extracting, builder, failing>>
  BY DEF ReviewSource, ReviewVersion, SourceParsed, ParseEnds
<1>2. DOMAIN version' = DOMAIN version  BY <1>1
<1>3. Len(version') = Len(version)
  <2>1. version' \in Seq(VersionRow)  BY DEF IndexInv, IndexTyped
  <2>2. DOMAIN version' = 1..Len(version') /\ Len(version') \in Nat  BY <2>1, LenProperties
  <2> QED  BY <1>2, <2>2, Tables
<1>4. archived' \in BOOLEAN  BY <1>1 DEF LinksInv, SourcesOK
<1> QED  BY <1>1, <1>3, <1>4, OnlyVersions

-----------------------------------------------------------------------------
(* Jobs and the rows of extraction. *)

\* What enqueue answers.
LEMMA Answers ==
  ASSUME LinksInv, NEW operation \in {"INDEX", "EXTRACT"}, NEW key \in Nat, NEW input,
         NEW j \in Enqueued(operation, key, input)
  PROVE  \/ j = 0
         \/ /\ j \in DOMAIN sourceJob /\ sourceJob[j].operation = operation
            /\ (key # 0 /\ sourceJob[j].key = key) \/ sourceJob[j].input = input
         \/ j = Len(sourceJob) + 1 /\ KeyedJob(operation, key) = {}
BY DEF Enqueued, KeyedJob, ActiveOf

\* What AddJob does with the answer.
LEMMA AddedOrNot ==
  ASSUME LinksInv, NEW j, NEW row, AddJob(j, row)
  PROVE  /\ j = Len(sourceJob) + 1 => sourceJob' = Append(sourceJob, row)
         /\ j \in {0} \cup DOMAIN sourceJob => UNCHANGED sourceJob
<1>1. Len(sourceJob) \in Nat /\ DOMAIN sourceJob = 1..Len(sourceJob)  BY Tables
<1>2. j = Len(sourceJob) + 1 => j > Len(sourceJob)  BY <1>1
<1>3. j \in {0} \cup DOMAIN sourceJob => ~(j > Len(sourceJob))  BY <1>1
<1> QED  BY <1>2, <1>3 DEF AddJob

\* The row that enqueue adds.
LEMMA NewJobTyped ==
  ASSUME LinksInv, NEW operation \in {"INDEX", "EXTRACT"}, NEW key \in Nat, NEW input \in Input,
         NEW row \in Nat
  PROVE  /\ NewJob(operation, key, input, row) \in JobRow
         /\ NewJob(operation, key, input, row).operation = operation
         /\ NewJob(operation, key, input, row).key = key
         /\ NewJob(operation, key, input, row).input = input
         /\ NewJob(operation, key, input, row).row = row
         /\ NewJob(operation, key, input, row).status = "QUEUED"
         /\ NewJob(operation, key, input, row).generation = 0
<1>1. 0 \in 0..MaxIndexAttempts  BY IndexAttemptsAssumption
<1> QED  BY <1>1 DEF NewJob, JobRow, ActiveJob

\* INDEX is enqueued, by a user or for a continuation.
LEMMA IndexEnqueued ==
  ASSUME LinksInv, NEW key \in Nat, NEW excluded, NEW j, EnqueueIndex(key, excluded, j),
         VersionsStay, GenerationsStay, ExtractingStays, IntentsStay
  PROVE  /\ RowsStay /\ JobsOK'
         /\ j # 0 => j \in 1..Len(sourceJob') /\ sourceJob'[j].operation = "INDEX"
<1>1. PICK row : row = NewJob("INDEX", key, IndexInput(excluded), 0)  OBVIOUS
<1>2. Indexable(excluded) /\ AddJob(j, row) /\ j \in Enqueued("INDEX", key, IndexInput(excluded))
  BY <1>1 DEF EnqueueIndex
<1>3. IndexInput(excluded) \in Input  BY <1>2, IndexableTyped
<1>4. /\ row \in JobRow /\ row.operation = "INDEX" /\ row.status = "QUEUED" /\ row.generation = 0
  BY <1>1, <1>3, NewJobTyped
<1>5. Len(sourceJob) \in Nat /\ DOMAIN sourceJob = 1..Len(sourceJob)  BY Tables
<1>6. CASE j = Len(sourceJob) + 1
  <2>1. sourceJob' = Append(sourceJob, row)  BY <1>2, <1>6, AddedOrNot
  <2>2. sourceJob'[j] = row /\ Len(sourceJob') = j  BY <1>4, <1>6, <2>1, JobAdded
  <2>3. ASSUME RowsStay PROVE JobOK(j)'
    <3>1. Len(generation') \in Nat /\ 0 <= Len(generation')  BY <2>3 DEF RowsStay, GenerationsStay
    <3> QED  BY <1>4, <2>2, <3>1 DEF JobOK
  <2>4. RowsStay /\ JobsOK'  BY <1>4, <1>6, <2>1, <2>3, JobAddedOK
  <2>5. j \in 1..Len(sourceJob')  BY <1>5, <1>6, <2>2
  <2> QED  BY <1>4, <2>2, <2>4, <2>5
<1>7. CASE j = 0 \/ (j \in DOMAIN sourceJob /\ sourceJob[j].operation = "INDEX")
  <2>1. UNCHANGED sourceJob  BY <1>2, <1>7, AddedOrNot
  <2>2. RowsStay  BY <2>1, TablesStay DEF RowsStay
  <2>3. JobsOK'  BY <2>1, <2>2, JobsKept
  <2> QED  BY <1>5, <1>7, <2>1, <2>2, <2>3
<1>8. j = 0 \/ (j \in DOMAIN sourceJob /\ sourceJob[j].operation = "INDEX") \/ j = Len(sourceJob) + 1
  BY <1>2, Answers
<1> QED  BY <1>6, <1>7, <1>8

\* The index that is extracted from is of the newest sources.
LEMMA NewestIndex ==
  ASSUME LinksInv, ExtractionReady
  PROVE  /\ index.generation \in 1..Len(generation)
         /\ \A g \in 1..Len(generation) :
               generation[g].snapshot.revision <= generation[index.generation].snapshot.revision
<1>1. Len(generation) \in Nat /\ index.generation = Len(generation) /\ DOMAIN generation = 1..Len(generation)
  BY Tables
<1>2. index.generation # 0 /\ index.snapshot.revision = Len(version)
  BY DEF ExtractionReady, Fresh, SourceRevision
<1>3. generation[index.generation].snapshot = index.snapshot  BY <1>2 DEF LinksInv, IndexInv, IndexIsComplete
<1>4. \A g \in 1..Len(generation) : generation[g].snapshot.revision <= Len(version)
  BY <1>1 DEF LinksInv, IndexInv, BuildsShown, Shows
<1> QED  BY <1>1, <1>2, <1>3, <1>4

\* A row of extraction is found or added; neither is of later sources than the
\* index.
LEMMA RowFound ==
  ASSUME LinksInv, ExtractionReady, EnqueueExtraction
  PROVE  /\ ExtractingStays /\ RowOf \in 1..Len(extracting')
         /\ UNCHANGED generation => ExtractingOK'
         /\ generation[extracting'[RowOf].generation].snapshot.revision
               <= generation[index.generation].snapshot.revision
<1>1. /\ extracting \in Seq(ExtractingRow) /\ Len(extracting) \in Nat /\ DOMAIN extracting = 1..Len(extracting)
      /\ Len(generation) \in Nat /\ index.generation = Len(generation)
  BY Tables DEF LinksInv, ExtractingOK
<1>2. index.generation \in 1..Len(generation)
  BY NewestIndex
<1>3. CASE ActiveRow # {}
  <2>1. UNCHANGED extracting  BY <1>3 DEF EnqueueExtraction
  <2>2. RowOf \in 1..Len(extracting)  BY <1>1, <1>3 DEF RowOf, ActiveRow
  <2>3. extracting[RowOf].generation \in 1..Len(generation)  BY <1>1, <2>2 DEF LinksInv, ExtractingOK
  <2>4. generation[extracting'[RowOf].generation].snapshot.revision <= generation[index.generation].snapshot.revision
    BY <2>1, <2>3, NewestIndex
  <2> QED  BY <1>1, <2>1, <2>2, <2>4 DEF LinksInv, ExtractingOK, ExtractingStays
<1>4. CASE ActiveRow = {}
  <2>1. PICK new : new = [generation |-> index.generation, status |-> "PENDING"]  OBVIOUS
  <2>2. extracting' = Append(extracting, new)  BY <1>4, <2>1 DEF EnqueueExtraction
  <2>3. new \in ExtractingRow /\ new.generation = index.generation  BY <1>1, <2>1 DEF ExtractingRow
  <2>4. /\ extracting' \in Seq(ExtractingRow) /\ Len(extracting') = Len(extracting) + 1
        /\ extracting'[Len(extracting) + 1] = new
        /\ \A x \in 1..Len(extracting) : extracting'[x] = extracting[x]
    BY <1>1, <2>2, <2>3, AppendProperties
  <2>5. DOMAIN extracting' = 1..Len(extracting) \cup {Len(extracting) + 1}
    <3>1. DOMAIN extracting' = 1..(Len(extracting) + 1)  BY <2>4, LenProperties
    <3> QED  BY <1>1, <3>1
  <2>6. RowOf \in 1..Len(extracting')  BY <1>1, <1>4, <2>4 DEF RowOf
  <2>7. ExtractingStays  BY <1>1, <2>4 DEF ExtractingStays
  <2>8. UNCHANGED generation => ExtractingOK'
    BY <1>1, <1>2, <2>3, <2>4, <2>5 DEF LinksInv, ExtractingOK
  <2>9. RowOf = Len(extracting) + 1  BY <1>4 DEF RowOf
  <2>10. generation[extracting'[RowOf].generation].snapshot.revision <= generation[index.generation].snapshot.revision
    BY <1>2, <2>3, <2>4, <2>9, NewestIndex
  <2> QED  BY <2>6, <2>7, <2>8, <2>10
<1> QED  BY <1>3, <1>4

\* EXTRACT is enqueued, by a user or for a continuation: the job of a key is of
\* the index that the continuation of that key waited for.
LEMMA ExtractEnqueued ==
  ASSUME LinksInv, NEW key \in Nat, NEW j, EnqueueExtract(key, j),
         VersionsStay, GenerationsStay, IntentsStay, UNCHANGED generation,
         key # 0 =>
            /\ key \in DOMAIN intent /\ intent[key].index \in 1..Len(sourceJob)
            /\ sourceJob[intent[key].index].operation = "INDEX"
            /\ sourceJob[intent[key].index].status = "SUCCEEDED"
            /\ index.generation = sourceJob[intent[key].index].generation
            /\ intent[key].revision = SourceRevision
  PROVE  /\ RowsStay /\ JobsOK' /\ ExtractingOK'
         /\ j # 0 => /\ j \in 1..Len(sourceJob') /\ sourceJob'[j].operation = "EXTRACT"
                     /\ key # 0 => /\ sourceJob'[j].input = index.generation
                                   /\ generation[index.generation].snapshot.revision = intent[key].revision
<1>1. j \in Enqueued("EXTRACT", key, index.generation)  BY DEF EnqueueExtract
<1>2. /\ Len(sourceJob) \in Nat /\ DOMAIN sourceJob = 1..Len(sourceJob) /\ Len(generation) \in Nat
      /\ index.generation = Len(generation) /\ Len(intent) \in Nat /\ DOMAIN intent = 1..Len(intent)
  BY Tables
<1>3. CASE KeyedJob("EXTRACT", key) # {}
  <2>1. UNCHANGED <<sourceJob, extracting>>  BY <1>3 DEF EnqueueExtract
  <2>2. j \in DOMAIN sourceJob /\ sourceJob[j].operation = "EXTRACT" /\ sourceJob[j].key = key /\ key # 0
    BY <1>1, <1>3 DEF Enqueued, KeyedJob
  <2>3. RowsStay  BY <2>1, TablesStay DEF RowsStay
  <2>4. ExtractingOK' /\ JobsOK'  BY <2>1, <2>3, JobsKept, SourcesKept
  <2>5. JobOK(j)  BY <2>2, Tables
  <2>6. /\ sourceJob[j].input = index.generation
        /\ generation[index.generation].snapshot.revision = intent[key].revision
    BY <2>2, <2>5 DEF JobOK
  <2> QED  BY <1>2, <2>1, <2>2, <2>3, <2>4, <2>6
<1>4. CASE KeyedJob("EXTRACT", key) = {}
  <2>1. PICK row : row = NewJob("EXTRACT", key, index.generation, RowOf)  OBVIOUS
  <2>2. ExtractionReady /\ EnqueueExtraction /\ AddJob(j, row)  BY <1>4, <2>1 DEF EnqueueExtract
  <2>3. /\ ExtractingStays /\ RowOf \in 1..Len(extracting') /\ ExtractingOK'
        /\ generation[extracting'[RowOf].generation].snapshot.revision
              <= generation[index.generation].snapshot.revision
    BY <2>2, RowFound
  <2>4. RowOf \in Nat /\ index.generation \in Input
    BY <1>2, <2>3 DEF ExtractingStays, Input
  <2>5. /\ row \in JobRow /\ row.operation = "EXTRACT" /\ row.key = key /\ row.input = index.generation
        /\ row.row = RowOf /\ row.status = "QUEUED" /\ row.generation = 0
    <3>1. PICK r \in Nat, g \in Input : r = RowOf /\ g = index.generation  BY <2>4
    <3>2. row = NewJob("EXTRACT", key, g, r)  BY <2>1, <3>1
    <3> QED  BY <3>1, <3>2, NewJobTyped
  <2>6. key # 0 => generation[index.generation].snapshot.revision = intent[key].revision
    BY <2>2 DEF ExtractionReady, Fresh, LinksInv, IndexInv, IndexIsComplete
  <2>7. CASE j = Len(sourceJob) + 1
    <3>1. sourceJob' = Append(sourceJob, row)  BY <2>2, <2>7, AddedOrNot
    <3>2. sourceJob'[j] = row /\ Len(sourceJob') = j /\ j \in 1..Len(sourceJob')
      <4>1. sourceJob'[j] = row /\ Len(sourceJob') = j  BY <2>5, <2>7, <3>1, JobAdded
      <4> QED  BY <1>2, <2>7, <4>1
    <3>3. ASSUME RowsStay PROVE JobOK(j)'
      <4>1. Len(generation') \in Nat /\ 0 <= Len(generation')  BY <3>3 DEF RowsStay, GenerationsStay
      <4>2. ASSUME key # 0, NEW x, x = intent[key].index
            PROVE  /\ key \in 1..Len(intent') /\ intent'[key].index = x /\ x \in 1..Len(sourceJob')
                   /\ sourceJob'[x] = sourceJob[x] /\ intent'[key].revision = intent[key].revision
        <5>1. /\ key \in 1..Len(intent) /\ x \in 1..Len(sourceJob) /\ sourceJob[x].operation = "INDEX"
              /\ sourceJob[x].status = "SUCCEEDED" /\ x # 0
          BY <1>2, <4>2
        <5>2. key \in 1..Len(intent') /\ x \in 1..Len(sourceJob')
          BY <1>2, <3>3, <5>1 DEF RowsStay, IntentsStay, JobsStay
        <5> QED  BY <3>3, <4>2, <5>1, <5>2 DEF RowsStay, IntentsStay, JobsStay
      <4>3. key # 0 =>
               /\ key \in 1..Len(intent') /\ intent'[key].index \in 1..Len(sourceJob')
               /\ sourceJob'[intent'[key].index].operation = "INDEX"
               /\ sourceJob'[intent'[key].index].status = "SUCCEEDED"
               /\ index.generation = sourceJob'[intent'[key].index].generation
               /\ generation'[index.generation].snapshot.revision = intent'[key].revision
        <5>1. PICK x : x = intent[key].index  OBVIOUS
        <5> QED  BY <2>6, <4>2, <5>1
      <4>4. RowKept(j)'
        <5>1. sourceJob'[j].input = index.generation /\ sourceJob'[j].row = RowOf  BY <2>5, <3>2
        <5>2. index.generation \in 1..Len(generation')  BY <2>2, NewestIndex
        <5> QED  BY <2>3, <5>1, <5>2 DEF RowKept
      <4> QED  BY <2>3, <2>5, <3>2, <4>1, <4>3, <4>4 DEF JobOK
    <3>4. RowsStay /\ JobsOK'  BY <2>3, <2>5, <2>7, <3>1, <3>3, JobAddedOK
    <3> QED  BY <2>3, <2>5, <2>6, <3>2, <3>4
  <2>8. CASE j = 0 \/ (j \in DOMAIN sourceJob /\ sourceJob[j].operation = "EXTRACT"
                       /\ sourceJob[j].input = index.generation)
    <3>1. UNCHANGED sourceJob  BY <2>2, <2>8, AddedOrNot
    <3>2. RowsStay  BY <2>3, <3>1, TablesStay DEF RowsStay
    <3>3. JobsOK'
      <4>1. \A k \in DOMAIN sourceJob : JobOK(k)'  BY <3>1, <3>2, JobKept
      <4> QED  BY <3>1, <4>1 DEF LinksInv, JobsOK
    <3> QED  BY <1>2, <2>3, <2>6, <2>8, <3>1, <3>2, <3>3
  <2>9. \/ j = 0 \/ j = Len(sourceJob) + 1
        \/ (j \in DOMAIN sourceJob /\ sourceJob[j].operation = "EXTRACT" /\ sourceJob[j].input = index.generation)
    <3>1. \A k \in DOMAIN sourceJob : ~(sourceJob[k].operation = "EXTRACT" /\ key # 0 /\ sourceJob[k].key = key)
      BY <1>4 DEF KeyedJob
    <3> QED  BY <1>1, <3>1, Answers
  <2> QED  BY <2>7, <2>8, <2>9
<1> QED  BY <1>3, <1>4

\* A user enqueues with a key of its own, or asks for the rows alone.
LEMMA LinksEnqueue ==
  ASSUME LinksInv, IndexInv', EnqueueDirectly \/ RequestExtraction, commands' \in 0..CommandBound
  PROVE  LinksInv'
<1>1. UNCHANGED <<sourceVars, intent, builder, failing>>
  BY DEF EnqueueDirectly, RequestExtraction
<1>2. VersionsStay /\ GenerationsStay /\ IntentsStay /\ UNCHANGED generation
  BY <1>1, TablesStay DEF sourceVars
<1>3. RowsStay /\ JobsOK' /\ ExtractingOK'
  <2>1. ASSUME NEW j, EnqueueIndex(0, {}, j) PROVE RowsStay /\ JobsOK' /\ ExtractingOK'
    <3>1. ExtractingStays /\ ExtractingOK'
      BY <1>2, <2>1, TablesStay, SourcesKept DEF EnqueueIndex
    <3> QED  BY <1>2, <2>1, <3>1, IndexEnqueued
  <2>2. ASSUME NEW j, EnqueueExtract(0, j) PROVE RowsStay /\ JobsOK' /\ ExtractingOK'
    BY <1>2, <2>2, ExtractEnqueued
  <2>3. CASE RequestExtraction
    <3>1. ExtractionReady /\ EnqueueExtraction /\ UNCHANGED sourceJob  BY <2>3 DEF RequestExtraction
    <3>2. ExtractingStays /\ ExtractingOK'  BY <1>2, <3>1, RowFound
    <3>3. RowsStay  BY <1>2, <3>1, <3>2, TablesStay DEF RowsStay
    <3> QED  BY <3>1, <3>2, <3>3, JobsKept
  <2> QED  BY <2>1, <2>2, <2>3 DEF EnqueueDirectly
<1>4. SourcesOK' /\ CountsOK'
  BY <1>1, SourcesKept DEF LinksInv, CountsOK
<1> QED  BY <1>1, <1>3, <1>4, IntentsKept, BuildersKept DEF LinksInv

\* Retry: a failed job, its row and its continuations start again.
LEMMA LinksRetry ==
  ASSUME LinksInv, IndexInv', NEW j \in DOMAIN sourceJob, RetryJob(j), commands' \in 0..CommandBound
  PROVE  LinksInv'
<1>1. UNCHANGED <<sourceVars, builder, failing>> /\ sourceJob[j].status = "FAILED"
  BY DEF RetryJob
<1>2. VersionsStay /\ GenerationsStay /\ UNCHANGED generation
  BY <1>1, TablesStay DEF sourceVars
<1>3. ExtractingStays /\ ExtractingOK'
  <2>1. PICK r : r = sourceJob[j].row  OBVIOUS
  <2>2. extracting' = [x \in DOMAIN extracting |->
           IF x = r THEN [extracting[x] EXCEPT !.status = "PENDING"] ELSE extracting[x]]
    BY <2>1 DEF RetryJob
  <2>3. /\ Len(extracting) \in Nat /\ DOMAIN extracting = 1..Len(extracting)
        /\ \A x \in DOMAIN extracting : /\ extracting[x] \in ExtractingRow
                                        /\ extracting[x].generation \in 1..Len(generation)
    BY Tables DEF LinksInv, ExtractingOK
  <2>4. \A x \in DOMAIN extracting : /\ extracting'[x] \in ExtractingRow
                                     /\ extracting'[x].generation = extracting[x].generation
    BY <2>2, <2>3 DEF ExtractingRow
  <2>5. extracting' \in [1..Len(extracting) -> ExtractingRow]  BY <2>2, <2>3, <2>4
  <2>6. extracting' \in Seq(ExtractingRow) /\ Len(extracting') = Len(extracting)
    BY <2>3, <2>5, LenProperties
  <2>7. DOMAIN extracting' = DOMAIN extracting  BY <2>2
  <2>8. ExtractingStays  BY <2>3, <2>4, <2>6 DEF ExtractingStays
  <2>9. ExtractingOK'  BY <1>2, <2>3, <2>4, <2>6, <2>7 DEF ExtractingOK
  <2> QED  BY <2>8, <2>9
<1>4. PICK changed : changed = {i \in DOMAIN intent : intent[i].status = "FAILED" /\ j \in {intent[i].index, intent[i].extract}
                                                     /\ intent[i].revision = SourceRevision}
  OBVIOUS
<1>5. intent' = [i \in DOMAIN intent |->
         IF i \in changed THEN [intent[i] EXCEPT
              !.status = IF intent[i].extract = j THEN "EXTRACTING" ELSE "INDEXING"]
         ELSE intent[i]]
  BY <1>4 DEF RetryJob
<1>6. /\ Len(intent) \in Nat /\ DOMAIN intent = 1..Len(intent)
      /\ \A i \in DOMAIN intent : intent[i] \in IntentRow
      /\ Len(sourceJob) \in Nat /\ DOMAIN sourceJob = 1..Len(sourceJob) /\ sourceJob[j] \in JobRow
  BY Tables
<1>7. j # 0  BY <1>6
<1>8. ASSUME NEW i \in DOMAIN intent
      PROVE  /\ intent'[i] \in IntentRow /\ intent'[i].revision = intent[i].revision
             /\ intent'[i].excluded = intent[i].excluded /\ intent'[i].index = intent[i].index
             /\ intent'[i].extract = intent[i].extract
             /\ intent'[i].status = "EXTRACTING" => intent[i].status = "EXTRACTING" \/ intent[i].extract = j
             /\ intent'[i].status = "SUCCEEDED" => intent[i].status = "SUCCEEDED"
  <2>1. intent[i] \in IntentRow  BY <1>6
  <2>2. CASE i \in changed
    <3>1. PICK s \in {"EXTRACTING", "INDEXING"} :
             intent'[i] = [intent[i] EXCEPT !.status = s] /\ (s = "EXTRACTING" => intent[i].extract = j)
      BY <1>5, <2>2
    <3> QED  BY <2>1, <3>1 DEF IntentRow, Unfinished
  <2>3. CASE i \notin changed
    <3>1. intent'[i] = intent[i]  BY <1>5, <2>3
    <3> QED  BY <2>1, <3>1
  <2> QED  BY <2>2, <2>3
<1>9. intent' \in Seq(IntentRow) /\ Len(intent') = Len(intent) /\ DOMAIN intent' = DOMAIN intent
  <2>1. intent' \in [1..Len(intent) -> IntentRow]  BY <1>5, <1>6, <1>8
  <2> QED  BY <1>5, <1>6, <2>1, LenProperties
<1>10. IntentsStay
  <2>1. Len(intent') \in Nat /\ Len(intent) <= Len(intent')  BY <1>6, <1>9
  <2> QED  BY <1>6, <1>8, <2>1 DEF IntentsStay
<1>11. PICK row : row = [sourceJob[j] EXCEPT !.status = "QUEUED", !.attempt = 0]  OBVIOUS
<1>12. /\ row \in JobRow /\ row.operation = sourceJob[j].operation /\ row.key = sourceJob[j].key
       /\ row.input = sourceJob[j].input /\ row.row = sourceJob[j].row
       /\ row.generation = sourceJob[j].generation /\ row.status = "QUEUED"
  <2>1. 0 \in 0..MaxIndexAttempts  BY IndexAttemptsAssumption
  <2> QED  BY <1>6, <1>11, <2>1 DEF JobRow, ActiveJob
<1>13. sourceJob' = [sourceJob EXCEPT ![j] = row]  BY <1>11 DEF RetryJob
<1>14. RowsStay /\ JobsOK'  BY <1>1, <1>2, <1>3, <1>10, <1>12, <1>13, JobUpdatedOK
<1>15. ASSUME NEW i \in DOMAIN intent PROVE IntentOK(i)'
  <2>1. IntentOK(i)  BY Tables
  <2>2. intent[i].status = "EXTRACTING" => intent[i].extract # 0  BY <2>1 DEF IntentOK
  <2> QED  BY <1>7, <1>8, <1>14, <2>2, IntentKept
<1>16. IntentsOK'  BY <1>9, <1>15 DEF IntentsOK
<1>17. SourcesOK' /\ CountsOK'
  <2>1. SourcesOK'  BY <1>1, SourcesKept
  <2>2. CountsOK'  BY <1>1, <1>9 DEF LinksInv, CountsOK
  <2> QED  BY <2>1, <2>2
<1> QED  BY <1>1, <1>3, <1>14, <1>16, <1>17, BuildersKept DEF LinksInv

\* What a row of extraction says its job is.
LEMMA FollowsTyped ==
  ASSUME LinksInv, NEW j \in DOMAIN sourceJob, sourceJob[j].operation = "EXTRACT"
  PROVE  RowStatus(j) \in {"QUEUED", "SUCCEEDED", "FAILED"}
<1>1. sourceJob[j].row \in DOMAIN extracting  BY Tables DEF JobOK
<1>2. extracting[sourceJob[j].row] \in ExtractingRow  BY <1>1, Tables
<1> QED  BY <1>2 DEF RowStatus, Follows, ExtractingRow

\* A job read again takes the status of its row.
LEMMA JobRead ==
  ASSUME LinksInv, NEW j \in DOMAIN sourceJob, sourceJob[j].operation = "EXTRACT"
  PROVE  \E row \in JobRow :
            /\ Reconciled(j) = [sourceJob EXCEPT ![j] = row] /\ row.operation = sourceJob[j].operation
            /\ row.key = sourceJob[j].key /\ row.input = sourceJob[j].input /\ row.row = sourceJob[j].row
            /\ row.generation = sourceJob[j].generation
<1>1. PICK s \in {"QUEUED", "SUCCEEDED", "FAILED"} : s = RowStatus(j)  BY FollowsTyped
<1>2. PICK row : row = [sourceJob[j] EXCEPT !.status = s]  OBVIOUS
<1>3. sourceJob[j] \in JobRow  BY Tables
<1>4. /\ row \in JobRow /\ row.operation = sourceJob[j].operation
      /\ row.key = sourceJob[j].key /\ row.input = sourceJob[j].input /\ row.row = sourceJob[j].row
      /\ row.generation = sourceJob[j].generation
  BY <1>2, <1>3 DEF JobRow, ActiveJob
<1>5. Reconciled(j) = [sourceJob EXCEPT ![j] = row]  BY <1>1, <1>2 DEF Reconciled
<1> QED  BY <1>4, <1>5

\* A user reads a job: it follows its row of extraction.
LEMMA LinksReadJob ==
  ASSUME LinksInv, IndexInv', NEW j \in DOMAIN sourceJob, ReadJob(j)
  PROVE  LinksInv'
<1>1. sourceJob[j].operation = "EXTRACT" /\ sourceJob' = Reconciled(j)
  BY DEF ReadJob
<1>2. UNCHANGED <<sourceVars, intent, extracting, builder, failing, commands>>  BY DEF ReadJob
<1> QED  BY <1>1, <1>2, JobRead, OnlyJob

\* A row of extraction ends.
LEMMA LinksExtractionEnds ==
  ASSUME LinksInv, IndexInv', NEW x \in DOMAIN extracting, NEW o \in {"COMPLETED", "FAILED"}, ExtractionEnds(x, o)
  PROVE  LinksInv'
<1>1. /\ extracting' = [extracting EXCEPT ![x].status = o]
      /\ UNCHANGED <<sourceVars, intent, sourceJob, builder, failing, commands>>
  BY DEF ExtractionEnds
<1>2. /\ extracting \in Seq(ExtractingRow) /\ Len(extracting) \in Nat /\ DOMAIN extracting = 1..Len(extracting)
      /\ \A y \in DOMAIN extracting : /\ extracting[y] \in ExtractingRow
                                      /\ extracting[y].generation \in 1..Len(generation)
  BY Tables DEF LinksInv, ExtractingOK
<1>3. \A y \in DOMAIN extracting : /\ extracting'[y] \in ExtractingRow
                                   /\ extracting'[y].generation = extracting[y].generation
  BY <1>1, <1>2 DEF ExtractingRow
<1>4. extracting' \in [1..Len(extracting) -> ExtractingRow]  BY <1>1, <1>2, <1>3
<1>5. extracting' \in Seq(ExtractingRow) /\ Len(extracting') = Len(extracting) /\ DOMAIN extracting' = DOMAIN extracting
  BY <1>1, <1>2, <1>4, LenProperties
<1>6. ExtractingStays  BY <1>2, <1>3, <1>5 DEF ExtractingStays
<1>7. ExtractingOK'
  <2>1. UNCHANGED generation  BY <1>1 DEF sourceVars
  <2> QED  BY <1>2, <1>3, <1>5, <2>1 DEF ExtractingOK
<1>8. RowsStay  BY <1>1, <1>6, TablesStay DEF RowsStay, sourceVars
<1>9. SourcesOK' /\ CountsOK'  BY <1>1, <1>8, SourcesKept DEF RowsStay
<1> QED  BY <1>1, <1>7, <1>8, <1>9, IntentsKept, JobsKept, BuildersKept DEF LinksInv

-----------------------------------------------------------------------------
(* Workers. *)

\* A worker lets go of what it holds, or takes up an index job; the jobs are
\* shown to be in order apart.
LEMMA WorkerMoves ==
  ASSUME LinksInv, IndexInv', UNCHANGED <<sourceVars, intent, extracting, failing, commands>>,
         RowsStay, JobsOK', BuildsOK'
  PROVE  LinksInv'
<1>1. SourcesOK' /\ ExtractingOK' /\ CountsOK'  BY SourcesKept DEF RowsStay
<1> QED  BY <1>1, IntentsKept DEF LinksInv

\* A job that was being worked on ends, or is queued again.
LEMMA JobEnded ==
  ASSUME LinksInv, NEW j \in DOMAIN sourceJob, NEW s \in {"FAILED", "QUEUED"}, JobEnds(j, s),
         sourceJob[j].status \in ActiveJob,
         VersionsStay, GenerationsStay, ExtractingStays, IntentsStay
  PROVE  RowsStay /\ JobsOK'
<1>1. PICK row : row = [sourceJob[j] EXCEPT !.status = s, !.holder = NoBuilder]  OBVIOUS
<1>2. sourceJob[j] \in JobRow  BY Tables
<1>3. /\ row \in JobRow /\ row.operation = sourceJob[j].operation /\ row.key = sourceJob[j].key
      /\ row.input = sourceJob[j].input /\ row.row = sourceJob[j].row
      /\ row.generation = sourceJob[j].generation /\ row.status = s
  BY <1>1, <1>2 DEF JobRow, ActiveJob
<1>4. sourceJob' = [sourceJob EXCEPT ![j] = row]
  BY <1>1 DEF JobEnds
<1>5. sourceJob[j].status # "SUCCEEDED" /\ s # "SUCCEEDED"  BY DEF ActiveJob
<1> QED  BY <1>3, <1>4, <1>5, JobUpdatedOK

\* The job a worker holds.
LEMMA HeldJob ==
  ASSUME LinksInv, NEW b \in Builder, HoldsJob(b)
  PROVE  builder[b].job \in DOMAIN sourceJob /\ sourceJob[builder[b].job].status = "RUNNING"
<1>1. builder[b] \in BuildRow /\ BuildOK(b) /\ Len(sourceJob) \in Nat /\ DOMAIN sourceJob = 1..Len(sourceJob)
  BY Tables
<1>2. builder[b].job \in Nat /\ builder[b].job # 0 /\ builder[b].job <= Len(sourceJob)
  BY <1>1 DEF BuildRow, BuildOK, HoldsJob
<1> QED  BY <1>1, <1>2 DEF HoldsJob

\* What an idle worker holds.
LEMMA NoBuildRow ==
  ASSUME LinksInv
  PROVE  /\ NoBuild \in BuildRow /\ NoBuild.job = 0 /\ NoBuild.generation = 0 /\ NoBuild.phase = "idle"
         /\ NoSnapshot \in SnapshotType
<1>1. NoSnapshot \in SnapshotType  BY VersionAssumption DEF NoSnapshot, SnapshotType
<1> QED  BY <1>1 DEF NoBuild, BuildRow

\* A worker that holds nothing any more.
LEMMA WorkerIdle ==
  ASSUME LinksInv, RowsStay, NEW b \in Builder, builder' = [builder EXCEPT ![b] = NoBuild]
  PROVE  BuildsOK'
<1>1. PICK row : row = NoBuild  OBVIOUS
<1>2. row \in BuildRow /\ row.job = 0 /\ row.generation = 0 /\ row.phase = "idle"  BY <1>1, NoBuildRow
<1>3. 0 <= Len(sourceJob') /\ 0 <= Len(generation')
  BY DEF RowsStay, JobsStay, GenerationsStay
<1>4. builder' = [builder EXCEPT ![b] = row]  BY <1>1
<1> QED  BY <1>2, <1>3, <1>4, BuilderUpdated

\* A claim starts the job, or fails it when its sources have changed.
LEMMA LinksClaim ==
  ASSUME LinksInv, IndexInv', NEW b \in Builder, NEW j \in DOMAIN sourceJob, ClaimIndex(b, j)
  PROVE  LinksInv'
<1>1. /\ UNCHANGED <<sourceVars, intent, extracting, failing, commands>>
      /\ sourceJob[j].status \in ActiveJob /\ sourceJob[j].attempt < MaxIndexAttempts
      /\ \/ /\ sourceJob' = [sourceJob EXCEPT ![j].status = "RUNNING", ![j].attempt = @ + 1, ![j].holder = b]
            /\ builder' = [builder EXCEPT ![b] = [NoBuild EXCEPT !.phase = "valid", !.job = j]]
         \/ JobEnds(j, "FAILED") /\ UNCHANGED builder
  BY DEF ClaimIndex
<1>2. VersionsStay /\ GenerationsStay /\ ExtractingStays /\ IntentsStay  BY <1>1, TablesStay DEF sourceVars
<1>3. CASE JobEnds(j, "FAILED") /\ UNCHANGED builder
  <2>1. RowsStay /\ JobsOK'  BY <1>1, <1>2, <1>3, JobEnded
  <2> QED  BY <1>1, <1>3, <2>1, BuildersKept, WorkerMoves
<1>4. CASE /\ sourceJob' = [sourceJob EXCEPT ![j].status = "RUNNING", ![j].attempt = @ + 1, ![j].holder = b]
           /\ builder' = [builder EXCEPT ![b] = [NoBuild EXCEPT !.phase = "valid", !.job = j]]
  <2>1. sourceJob[j] \in JobRow /\ j \in Nat /\ j # 0 /\ j <= Len(sourceJob) /\ Len(sourceJob) \in Nat  BY Tables
  <2>2. PICK row : row = [sourceJob[j] EXCEPT !.status = "RUNNING", !.attempt = @ + 1, !.holder = b]  OBVIOUS
  <2>3. sourceJob[j].attempt + 1 \in 0..MaxIndexAttempts
    BY <1>1, <2>1, IndexAttemptsAssumption DEF JobRow
  <2>4. /\ row \in JobRow /\ row.operation = sourceJob[j].operation /\ row.key = sourceJob[j].key
        /\ row.input = sourceJob[j].input /\ row.row = sourceJob[j].row
        /\ row.generation = sourceJob[j].generation /\ row.status = "RUNNING"
    BY <2>1, <2>2, <2>3 DEF JobRow, ActiveJob
  <2>5. sourceJob' = [sourceJob EXCEPT ![j] = row]  BY <1>4, <2>2
  <2>6. RowsStay /\ JobsOK'
    <3>1. sourceJob[j].status # "SUCCEEDED"  BY <1>1 DEF ActiveJob
    <3> QED  BY <1>2, <2>4, <2>5, <3>1, JobUpdatedOK
  <2>7. PICK held : held = [NoBuild EXCEPT !.phase = "valid", !.job = j]  OBVIOUS
  <2>8. held \in BuildRow /\ held.job = j /\ held.generation = 0 /\ held.phase = "valid"
    BY <2>1, <2>7, NoBuildRow DEF NoBuild, BuildRow
  <2>9. j <= Len(sourceJob') /\ 0 <= Len(generation')
    BY <2>1, <2>6 DEF RowsStay, JobsStay, GenerationsStay
  <2>10. builder' = [builder EXCEPT ![b] = held]  BY <1>4, <2>7
  <2>11. BuildsOK'  BY <2>6, <2>8, <2>9, <2>10, BuilderUpdated
  <2> QED  BY <1>1, <2>6, <2>11, WorkerMoves
<1> QED  BY <1>1, <1>3, <1>4

\* A worker whose claim is in force publishes the generation it was answered.
LEMMA LinksPublish ==
  ASSUME LinksInv, IndexInv', NEW b \in Builder, PublishIndex(b)
  PROVE  LinksInv'
<1>1. /\ UNCHANGED <<sourceVars, intent, extracting, failing, commands>>
      /\ builder[b].phase = "built" /\ builder' = [builder EXCEPT ![b] = NoBuild]
  BY DEF PublishIndex
<1>2. VersionsStay /\ GenerationsStay /\ ExtractingStays /\ IntentsStay  BY <1>1, TablesStay DEF sourceVars
<1>3. CASE ~HoldsJob(b)
  <2>1. UNCHANGED sourceJob  BY <1>3 DEF PublishIndex
  <2>2. RowsStay  BY <1>2, <2>1, TablesStay DEF RowsStay
  <2> QED  BY <1>1, <2>1, <2>2, JobsKept, WorkerIdle, WorkerMoves
<1>4. CASE HoldsJob(b)
  <2>1. PICK j : j = builder[b].job  OBVIOUS
  <2>2. j \in DOMAIN sourceJob /\ sourceJob[j].status = "RUNNING"  BY <1>4, <2>1, HeldJob
  <2>3. builder[b] \in BuildRow /\ BuildOK(b) /\ sourceJob[j] \in JobRow /\ JobOK(j)  BY <2>2, Tables
  <2>4. PICK g : g = builder[b].generation  OBVIOUS
  <2>5. g \in Nat /\ g # 0 /\ g <= Len(generation)  BY <1>1, <2>3, <2>4 DEF BuildRow, BuildOK
  <2>6. PICK row : row = [sourceJob[j] EXCEPT !.status = "SUCCEEDED", !.holder = NoBuilder, !.generation = g]
    OBVIOUS
  <2>7. /\ row \in JobRow /\ row.operation = sourceJob[j].operation /\ row.key = sourceJob[j].key
        /\ row.input = sourceJob[j].input /\ row.row = sourceJob[j].row
        /\ row.generation = g /\ row.status = "SUCCEEDED"
    BY <2>3, <2>5, <2>6 DEF JobRow
  <2>8. sourceJob' = [sourceJob EXCEPT ![j] = row]
    BY <1>4, <2>1, <2>4, <2>6 DEF PublishIndex
  <2>9. /\ JobsStay /\ sourceJob' \in Seq(JobRow) /\ DOMAIN sourceJob' = DOMAIN sourceJob
        /\ sourceJob'[j] = row
        /\ \A k \in DOMAIN sourceJob : k # j => sourceJob'[k] = sourceJob[k]
    BY <2>2, <2>7, <2>8, JobUpdated
  <2>10. RowsStay  BY <1>2, <2>9 DEF RowsStay
  <2>11. JobOK(j)'
    <3>2. g <= Len(generation')  BY <1>1, <2>5 DEF sourceVars
    <3>3. CASE sourceJob[j].operation = "INDEX"
      BY <2>5, <2>7, <2>9, <3>2, <3>3 DEF JobOK
    <3>4. CASE sourceJob[j].operation = "EXTRACT"
      <4>2. sourceJob[j].row \in 1..Len(extracting')
        BY <1>2, <2>2, <2>7, <2>9, <3>4, RowKeeps
      <4>1. RowKept(j)'  BY <1>2, <2>2, <2>7, <2>9, <3>4, RowKeeps
      <4>3. ASSUME sourceJob[j].key # 0, NEW i, i = sourceJob[j].key
            PROVE  /\ i \in 1..Len(intent') /\ intent'[i].index \in 1..Len(sourceJob')
                   /\ sourceJob'[intent'[i].index].operation = "INDEX"
                   /\ sourceJob'[intent'[i].index].status = "SUCCEEDED"
                   /\ sourceJob[j].input = sourceJob'[intent'[i].index].generation
                   /\ generation'[sourceJob[j].input].snapshot.revision = intent'[i].revision
        <5>1. UNCHANGED <<intent, generation>>  BY <1>1 DEF sourceVars
        <5>2. PICK x : x = intent[i].index  OBVIOUS
        <5>3. /\ i \in 1..Len(intent) /\ x \in 1..Len(sourceJob) /\ sourceJob[x].operation = "INDEX"
              /\ sourceJob[x].status = "SUCCEEDED" /\ sourceJob[j].input = sourceJob[x].generation
              /\ generation[sourceJob[j].input].snapshot.revision = intent[i].revision
          BY <2>3, <3>4, <4>3, <5>2 DEF JobOK
        <5>4. sourceJob'[x] = sourceJob[x]  BY <2>9, <5>3 DEF JobsStay
        <5>5. x \in 1..Len(sourceJob')
          BY <2>9, <5>3, Tables DEF JobsStay
        <5> QED  BY <5>1, <5>2, <5>3, <5>4, <5>5
      <4> QED  BY <2>7, <2>9, <3>2, <3>4, <4>1, <4>2, <4>3 DEF JobOK
    <3> QED  BY <3>3, <3>4, <2>3 DEF JobRow
  <2>12. ASSUME NEW k \in DOMAIN sourceJob, k # j PROVE JobOK(k)'
    BY <2>9, <2>10, <2>12, JobKept
  <2>13. JobsOK'  BY <2>9, <2>11, <2>12 DEF JobsOK
  <2> QED  BY <1>1, <2>10, <2>13, WorkerIdle, WorkerMoves
<1> QED  BY <1>3, <1>4

\* A build that failed, and a worker that dies.
LEMMA LinksFailOrDie ==
  ASSUME LinksInv, IndexInv', NEW b \in Builder, FailIndex(b) \/ BuilderDies(b)
  PROVE  LinksInv'
<1>1. /\ UNCHANGED <<sourceVars, intent, extracting, failing, commands>>
      /\ builder' = [builder EXCEPT ![b] = NoBuild]
  BY DEF FailIndex, BuilderDies
<1>2. VersionsStay /\ GenerationsStay /\ ExtractingStays /\ IntentsStay  BY <1>1, TablesStay DEF sourceVars
<1>3. CASE UNCHANGED sourceJob
  <2>1. RowsStay  BY <1>2, <1>3, TablesStay DEF RowsStay
  <2> QED  BY <1>1, <1>3, <2>1, JobsKept, WorkerIdle, WorkerMoves
<1>4. CASE HoldsJob(b) /\ \E s \in {"QUEUED", "FAILED"} : JobEnds(builder[b].job, s)
  <2>0. PICK s \in {"QUEUED", "FAILED"} : JobEnds(builder[b].job, s)  BY <1>4
  <2>4. PICK j : j = builder[b].job  OBVIOUS
  <2>1. j = builder[b].job /\ JobEnds(j, s)  BY <2>0, <2>4 DEF JobEnds
  <2>2. j \in DOMAIN sourceJob /\ sourceJob[j].status = "RUNNING"  BY <1>4, <2>1, HeldJob
  <2>3. RowsStay /\ JobsOK'  BY <1>2, <2>1, <2>2, JobEnded DEF ActiveJob
  <2> QED  BY <1>1, <2>3, WorkerIdle, WorkerMoves
<1> QED  BY <1>3, <1>4 DEF FailIndex, BuilderDies

\* The last attempt of a job is lost.
LEMMA LinksExhaust ==
  ASSUME LinksInv, IndexInv', NEW j \in DOMAIN sourceJob, ExhaustIndex(j)
  PROVE  LinksInv'
<1>1. /\ UNCHANGED <<sourceVars, intent, extracting, builder, failing, commands>>
      /\ sourceJob[j].status = "RUNNING" /\ JobEnds(j, "FAILED")
  BY DEF ExhaustIndex
<1>2. VersionsStay /\ GenerationsStay /\ ExtractingStays /\ IntentsStay  BY <1>1, TablesStay DEF sourceVars
<1>3. RowsStay /\ JobsOK'  BY <1>1, <1>2, JobEnded DEF ActiveJob
<1> QED  BY <1>1, <1>3, BuildersKept, WorkerMoves

\* A worker pins its sources, or a request does, or it reads the status.
LEMMA LinksPin ==
  ASSUME LinksInv, IndexInv', NEW b \in Builder, PinSources(b) \/ ReadStatus(b)
  PROVE  LinksInv'
<1>1. UNCHANGED <<sourceVars, intent, sourceJob, extracting, failing, commands>>
  BY DEF PinSources, ReadStatus
<1>2. builder[b] \in BuildRow /\ BuildOK(b)  BY Tables
<1>3. commands' \in 0..CommandBound  BY <1>1 DEF LinksInv, CountsOK
<1>4. CASE PinSources(b) /\ Indexable(ScopeOf(b))
  <2>1. PICK s : s = CreateSourceSnapshot(ScopeOf(b))  OBVIOUS
  <2>2. s \in SnapshotType  BY <1>4, <2>1, IndexableTyped
  <2>3. PICK row : row = [builder[b] EXCEPT !.phase = "pinned", !.snapshot = s]  OBVIOUS
  <2>4. /\ row \in BuildRow /\ row.phase = "pinned" /\ row.job = builder[b].job
        /\ row.generation = builder[b].generation
    BY <1>2, <2>2, <2>3 DEF BuildRow
  <2>5. builder' = [builder EXCEPT ![b] = row]  BY <1>4, <2>1, <2>3 DEF PinSources
  <2> QED  BY <1>1, <1>2, <1>3, <2>4, <2>5, OnlyBuilders DEF BuildOK
<1>5. CASE PinSources(b) /\ ~Indexable(ScopeOf(b))
  <2>1. PICK p \in {"refused", "failed"} : builder' = [builder EXCEPT ![b].phase = p]
    BY <1>5 DEF PinSources
  <2>2. PICK row : row = [builder[b] EXCEPT !.phase = p]  OBVIOUS
  <2>3. /\ row \in BuildRow /\ row.phase = p /\ row.job = builder[b].job
        /\ row.generation = builder[b].generation
    BY <1>2, <2>2 DEF BuildRow
  <2>4. builder' = [builder EXCEPT ![b] = row]  BY <2>1, <2>2
  <2> QED  BY <1>1, <1>2, <1>3, <2>3, <2>4, OnlyBuilders DEF BuildOK
<1>6. CASE ReadStatus(b)
  <2>1. PICK g : g = index.generation  OBVIOUS
  <2>2. g = Len(generation) /\ g \in Nat /\ g # 0
    BY <1>2, <1>6, <2>1, Tables DEF BuildOK, ReadStatus
  <2>3. PICK row : row = [builder[b] EXCEPT !.phase = "built", !.generation = g]  OBVIOUS
  <2>4. row \in BuildRow /\ row.phase = "built" /\ row.job = builder[b].job /\ row.generation = g
    BY <1>2, <2>2, <2>3 DEF BuildRow
  <2>5. builder' = [builder EXCEPT ![b] = row]  BY <1>6, <2>1, <2>3 DEF ReadStatus, Answered
  <2>6. row.generation <= Len(generation)  BY <2>2, <2>4
  <2> QED  BY <1>1, <1>2, <1>3, <2>2, <2>4, <2>5, <2>6, OnlyBuilders DEF BuildOK
<1> QED  BY <1>4, <1>5, <1>6

\* A request builds without a job.
LEMMA LinksRequest ==
  ASSUME LinksInv, IndexInv', NEW b \in Builder, NEW excluded \in SUBSET Latest, RequestIndex(b, excluded),
         commands' \in 0..CommandBound
  PROVE  LinksInv'
<1>1. PICK s : s = CreateSourceSnapshot(excluded)  OBVIOUS
<1>2. s \in SnapshotType  BY <1>1, IndexableTyped DEF RequestIndex
<1>3. PICK row : row = [NoBuild EXCEPT !.phase = "pinned", !.snapshot = s]  OBVIOUS
<1>4. row \in BuildRow /\ row.phase = "pinned" /\ row.job = 0 /\ row.generation = 0
  BY <1>2, <1>3 DEF NoBuild, BuildRow
<1>5. /\ builder' = [builder EXCEPT ![b] = row]
      /\ UNCHANGED <<sourceVars, intent, sourceJob, extracting, failing>>
  BY <1>1, <1>3 DEF RequestIndex
<1>6. 0 <= Len(sourceJob) /\ 0 <= Len(generation)  BY Tables
<1> QED  BY <1>4, <1>5, <1>6, OnlyBuilders

\* A build begins: the older generations keep their snapshots and chunks.
LEMMA LinksBegin ==
  ASSUME LinksInv, IndexInv', NEW b \in Builder, Begin(b)
  PROVE  LinksInv'
<1>1. /\ UNCHANGED <<version, archived, intent, sourceJob, extracting, failing, commands>>
      /\ builder[b].phase = "pinned"
  BY DEF Begin, sourceVars
<1>2. /\ builder[b] \in BuildRow /\ BuildOK(b) /\ Len(generation) \in Nat /\ DOMAIN generation = 1..Len(generation)
      /\ \A g \in DOMAIN generation : generation[g] \in GenerationRow
      /\ index.generation = Len(generation)
  BY Tables
<1>3. CASE Unchanged(builder[b].snapshot) /\ Goes(b, "stored") /\ UNCHANGED sourceVars
  <2>1. PICK row : row = [builder[b] EXCEPT !.phase = "stored"]  OBVIOUS
  <2>2. /\ row \in BuildRow /\ row.phase = "stored" /\ row.job = builder[b].job
        /\ row.generation = builder[b].generation
    BY <1>2, <2>1 DEF BuildRow
  <2>3. builder' = [builder EXCEPT ![b] = row]  BY <1>3, <2>1 DEF Goes
  <2>4. Len(generation) # 0  BY <1>2, <1>3 DEF Unchanged, Current, LinksInv, SourcesOK
  <2>5. commands' \in 0..CommandBound  BY <1>1 DEF LinksInv, CountsOK
  <2> QED  BY <1>1, <1>2, <1>3, <2>2, <2>3, <2>4, <2>5, OnlyBuilders DEF BuildOK
<1>4. CASE /\ BeginGeneration(builder[b].snapshot)
           /\ builder' = [builder EXCEPT ![b].phase = "building", ![b].generation = Len(generation) + 1]
  <2>1. PICK s, n : s = builder[b].snapshot /\ n = Len(generation) + 1  OBVIOUS
  <2>2. PICK new : new = [status |-> "INDEXING", snapshot |-> s, versions |-> {}]  OBVIOUS
  <2>3. s \in SnapshotType /\ n \in Nat /\ n # 0  BY <1>2, <2>1 DEF BuildRow
  <2>4. /\ DOMAIN Superseded = DOMAIN generation /\ Superseded \in [1..Len(generation) -> GenerationRow]
        /\ \A g \in DOMAIN generation : /\ Superseded[g] \in GenerationRow
                                        /\ Superseded[g].snapshot = generation[g].snapshot
                                        /\ Superseded[g].versions = generation[g].versions
    <3>0. generation \in [1..Len(generation) -> GenerationRow]
      BY <1>2 DEF LinksInv, IndexInv, IndexTyped
    <3>1. CASE index.status = "INDEXING"
      <4>1. Superseded = [generation EXCEPT ![index.generation].status = "SUPERSEDED"]
        BY <3>1 DEF Superseded
      <4> QED  BY <1>2, <3>0, <4>1 DEF GenerationRow
    <3>2. CASE index.status # "INDEXING"
      BY <1>2, <3>0, <3>2 DEF Superseded
    <3> QED  BY <3>1, <3>2
  <2>5. Superseded \in Seq(GenerationRow) /\ Len(Superseded) = Len(generation)
    BY <1>2, <2>4, LenProperties
  <2>6. new \in GenerationRow
    <3>1. s \in SnapshotRow  BY <1>1, <2>1 DEF LinksInv, IndexInv, BuildsShown
    <3> QED  BY <2>2, <3>1 DEF GenerationRow
  <2>7. generation' = Append(Superseded, new)  BY <1>4, <2>1, <2>2 DEF BeginGeneration
  <2>8. /\ Len(generation') = n /\ generation'[n] = new
        /\ \A g \in 1..Len(generation) : generation'[g] = Superseded[g]
    BY <1>2, <2>1, <2>5, <2>6, <2>7, AppendProperties
  <2>9. DOMAIN generation' = 1..Len(generation) \cup {n}
    <3>1. generation' \in Seq(GenerationRow)  BY DEF IndexInv, IndexTyped
    <3>2. DOMAIN generation' = 1..n  BY <2>8, <3>1, LenProperties
    <3> QED  BY <1>2, <2>1, <3>2
  <2>10. GenerationsStay
    <3>1. Len(generation') \in Nat /\ Len(generation) <= Len(generation')  BY <1>2, <2>1, <2>8
    <3> QED  BY <1>2, <2>4, <2>8, <3>1 DEF GenerationsStay
  <2>11. RowsStay  BY <1>1, <2>10, TablesStay DEF RowsStay
  <2>12. SourcesOK'
    <3>1. index' = [status |-> "INDEXING", generation |-> n, snapshot |-> s]
      BY <1>4, <2>1 DEF BeginGeneration
    <3>2. new.snapshot = s /\ new.versions = {}  BY <2>2
    <3>3. \A g \in DOMAIN generation' :
             generation'[g].snapshot \in SnapshotType /\ generation'[g].versions \subseteq 1..Len(version')
      BY <1>1, <1>2, <2>3, <2>4, <2>8, <2>9, <3>2 DEF LinksInv, SourcesOK
    <3>4. index'.snapshot = s /\ index'.generation = n  BY <3>1
    <3> QED  BY <1>1, <2>3, <3>3, <3>4 DEF LinksInv, SourcesOK
  <2>13. ExtractingOK' /\ CountsOK'  BY <1>1, <2>10, <2>11, SourcesKept DEF RowsStay
  <2>14. PICK row : row = [builder[b] EXCEPT !.phase = "building", !.generation = n]  OBVIOUS
  <2>15. row \in BuildRow /\ row.phase = "building" /\ row.job = builder[b].job /\ row.generation = n
    BY <1>2, <2>3, <2>14 DEF BuildRow
  <2>16. builder' = [builder EXCEPT ![b] = row]  BY <1>4, <2>1, <2>14
  <2>17. row.job <= Len(sourceJob')  BY <1>1, <1>2, <2>15 DEF BuildOK
  <2>18. row.generation <= Len(generation')  BY <2>3, <2>8, <2>15
  <2>19. BuildsOK'  BY <2>11, <2>15, <2>16, <2>17, <2>18, BuilderUpdated
  <2> QED  BY <1>1, <2>11, <2>12, <2>13, <2>19, IntentsKept, JobsKept DEF LinksInv
<1> QED  BY <1>3, <1>4 DEF Begin

\* A build ends: its generation keeps its snapshot, and chunks of its versions.
LEMMA LinksBuild ==
  ASSUME LinksInv, IndexInv', NEW b \in Builder, Build(b)
  PROVE  LinksInv'
<1>1. /\ UNCHANGED <<version, archived, intent, sourceJob, extracting, failing, commands>>
      /\ builder[b].phase = "building"
  BY DEF Build
<1>2. /\ builder[b] \in BuildRow /\ BuildOK(b) /\ Len(generation) \in Nat /\ DOMAIN generation = 1..Len(generation)
      /\ \A g \in DOMAIN generation : generation[g] \in GenerationRow
      /\ index.generation = Len(generation)
  BY Tables
<1>3. PICK g : g = builder[b].generation  OBVIOUS
<1>4. g \in DOMAIN generation  BY <1>1, <1>3 DEF LinksInv, IndexInv, BuildsShown
<1>5. Sources(generation[g].snapshot) \subseteq 1..Len(version)
  <2>1. generation[g].snapshot.revision <= Len(version) /\ generation[g].snapshot.revision \in Nat
        /\ Len(version) \in Nat
    BY <1>2, <1>4, Tables DEF LinksInv, IndexInv, BuildsShown, Shows, GenerationRow, SnapshotRow
  <2>2. Sources(generation[g].snapshot) \subseteq 1..generation[g].snapshot.revision
    BY DEF Sources, SourcesOf
  <2> QED  BY <2>1, <2>2
<1>6. PICK phase \in {"stored", "failed"}, outcome \in {"READY", "FAILED"} :
         /\ builder' = [builder EXCEPT ![b].phase = phase]
         /\ index' = IF StatusOf(g) THEN [index EXCEPT !.status = outcome] ELSE index
         /\ \/ CompleteGeneration(g)
            \/ FailGeneration(g)
  <2>1. CASE CompleteGeneration(g) /\ Goes(b, "stored")
    BY <2>1 DEF CompleteGeneration, Goes
  <2>2. CASE FailGeneration(g) /\ Goes(b, "failed")
    BY <2>2 DEF FailGeneration, Goes
  <2>3. \/ CompleteGeneration(g) /\ Goes(b, "stored")
        \/ FailGeneration(g) /\ Goes(b, "failed")
    BY <1>3 DEF Build, CompleteGeneration, FailGeneration, StatusOf
  <2> QED  BY <2>1, <2>2, <2>3
<1>7. /\ DOMAIN generation' = DOMAIN generation
      /\ \A h \in DOMAIN generation :
            /\ generation'[h].snapshot = generation[h].snapshot
            /\ generation'[h].versions \in {generation[h].versions, Sources(generation[g].snapshot)}
            /\ h # g => generation'[h] = generation[h]
  <2>1. CASE CompleteGeneration(g)
    BY <1>2, <1>4, <2>1 DEF CompleteGeneration, GenerationRow
  <2>2. CASE FailGeneration(g)
    BY <1>2, <1>4, <2>2 DEF FailGeneration, GenerationRow
  <2> QED  BY <1>6, <2>1, <2>2
<1>8. Len(generation') = Len(generation)
  <2>1. generation' \in Seq(GenerationRow)  BY DEF IndexInv, IndexTyped
  <2>2. DOMAIN generation' = 1..Len(generation') /\ Len(generation') \in Nat  BY <2>1, LenProperties
  <2>3. PICK m \in Nat, n \in Nat : m = Len(generation') /\ n = Len(generation)  BY <1>2, <2>2
  <2>4. 1..m = 1..n  BY <1>2, <1>7, <2>2, <2>3
  <2> QED  BY <2>3, <2>4
<1>9. GenerationsStay
  <2>1. Len(generation') \in Nat /\ Len(generation) <= Len(generation')  BY <1>2, <1>8
  <2> QED  BY <1>2, <1>7, <2>1 DEF GenerationsStay
<1>10. RowsStay  BY <1>1, <1>9, TablesStay DEF RowsStay
<1>11. index'.snapshot = index.snapshot /\ index'.generation = index.generation
  BY <1>6 DEF LinksInv, IndexInv, IndexTyped, IndexRow
<1>12. SourcesOK'
  <2>1. StatusOf(g) => index.status # "NOT_INDEXED"  BY DEF StatusOf
  <2>2. index'.status # "NOT_INDEXED" => index.status # "NOT_INDEXED"
    BY <1>6, <2>1 DEF LinksInv, IndexInv, IndexTyped, IndexRow
  <2>3. \A h \in DOMAIN generation' :
           generation'[h].snapshot \in SnapshotType /\ generation'[h].versions \subseteq 1..Len(version')
    BY <1>1, <1>5, <1>7 DEF LinksInv, SourcesOK
  <2> QED  BY <1>1, <1>11, <2>2, <2>3 DEF LinksInv, SourcesOK
<1>13. ExtractingOK' /\ CountsOK'  BY <1>1, <1>9, <1>10, SourcesKept DEF RowsStay
<1>14. PICK row : row = [builder[b] EXCEPT !.phase = phase]  OBVIOUS
<1>15. /\ row \in BuildRow /\ row.phase = phase /\ row.job = builder[b].job
       /\ row.generation = builder[b].generation
  BY <1>2, <1>14 DEF BuildRow
<1>16. builder' = [builder EXCEPT ![b] = row]  BY <1>6, <1>14
<1>17. Len(generation') # 0
  <2>1. Len(generation) # 0  BY <1>2, <1>4
  <2> QED  BY <1>8, <2>1
<1>18. row.job <= Len(sourceJob') /\ row.generation <= Len(generation')
  BY <1>1, <1>2, <1>8, <1>15 DEF BuildOK
<1>19. BuildsOK'  BY <1>10, <1>15, <1>16, <1>17, <1>18, BuilderUpdated
<1> QED  BY <1>1, <1>10, <1>12, <1>13, <1>19, IntentsKept, JobsKept DEF LinksInv

-----------------------------------------------------------------------------
(* Continuations. *)

\* One continuation is written, with the job it goes on with.
LEMMA OneIntent ==
  ASSUME LinksInv, IndexInv', UNCHANGED <<sourceVars, builder, failing, commands>>,
         RowsStay, JobsOK', ExtractingOK',
         NEW i \in DOMAIN intent, NEW row \in IntentRow, intent' = [intent EXCEPT ![i] = row],
         row.revision = intent[i].revision, intent[i].index # 0 => row.index = intent[i].index,
         IntentOK(i)'
  PROVE  LinksInv'
<1>1. /\ intent' \in Seq(IntentRow) /\ Len(intent') = Len(intent) /\ DOMAIN intent' = DOMAIN intent
      /\ \A k \in DOMAIN intent : k # i => intent'[k] = intent[k]
  BY IntentUpdated
<1>2. IntentsOK'  BY <1>1, OtherIntents
<1>3. SourcesOK' /\ CountsOK'  BY SourcesKept DEF RowsStay
<1> QED  BY <1>2, <1>3, BuildersKept DEF LinksInv

\* A continuation that stops or still waits only changes its status.
LEMMA LinksStop ==
  ASSUME LinksInv, IndexInv', NEW i \in DOMAIN intent, AdvanceStops(i) \/ AwaitParse(i)
  PROVE  LinksInv'
<1>1. UNCHANGED <<sourceVars, sourceJob, extracting, builder, failing, commands>>
  BY DEF AdvanceStops, AwaitParse
<1>2. failing' \in 0..Len(intent)  BY <1>1 DEF LinksInv, CountsOK
<1>3. PICK s \in {"WAITING_PARSE", "INDEXING", "FAILED", "SUPERSEDED"} : Becomes(i, s)
  BY DEF AdvanceStops, AwaitParse
<1> QED  BY <1>1, <1>2, <1>3, StatusMoves

\* A continuation that proceeds and has no extraction is of the newest sources.
LEMMA StillCurrent ==
  ASSUME LinksInv, NEW i \in DOMAIN intent, Proceeds(i)
  PROVE  /\ intent[i] \in IntentRow /\ IntentOK(i) /\ i \in Nat /\ i # 0
         /\ intent[i].extract = 0 => intent[i].revision = SourceRevision
         /\ failing = 0
<1>1. intent[i] \in IntentRow /\ IntentOK(i) /\ i \in Nat /\ i # 0  BY Tables
<1> QED  BY <1>1 DEF Proceeds, Outdated, Advances, SetUnlocked, IntentOK

\* A continuation takes the index job it was answered.
LEMMA LinksStartIndex ==
  ASSUME LinksInv, IndexInv', NEW i \in DOMAIN intent, StartIndex(i)
  PROVE  LinksInv'
<1>1. UNCHANGED <<sourceVars, builder, failing, commands>> /\ Proceeds(i) /\ intent[i].index = 0
  BY DEF StartIndex
<1>2. PICK j : /\ EnqueueIndex(i, intent[i].excluded, j)
               /\ \/ /\ j # 0
                     /\ intent' = [intent EXCEPT ![i].status = "INDEXING", ![i].index = j]
                  \/ UNCHANGED intent
  BY DEF StartIndex
<1>3. intent[i] \in IntentRow /\ IntentOK(i) /\ i \in Nat /\ i # 0  BY <1>1, StillCurrent
<1>4. UNCHANGED extracting  BY <1>2 DEF EnqueueIndex
<1>5. VersionsStay /\ GenerationsStay /\ ExtractingStays /\ ExtractingOK'
  BY <1>1, <1>4, TablesStay, SourcesKept DEF sourceVars
<1>6. PICK excluded : excluded = intent[i].excluded  OBVIOUS
<1>7. EnqueueIndex(i, excluded, j)  BY <1>2, <1>6
<1>8. CASE UNCHANGED intent
  <2>1. IntentsStay  BY <1>8, TablesStay
  <2>2. RowsStay /\ JobsOK'  BY <1>3, <1>5, <1>7, <2>1, IndexEnqueued
  <2>3. SourcesOK' /\ CountsOK'  BY <1>1, <2>1, SourcesKept
  <2> QED  BY <1>1, <1>5, <1>8, <2>2, <2>3, IntentsKept, BuildersKept DEF LinksInv
<1>9. CASE j # 0 /\ intent' = [intent EXCEPT ![i].status = "INDEXING", ![i].index = j]
  <2>1. j \in Nat
    <3>1. j \in Enqueued("INDEX", i, IndexInput(excluded))  BY <1>7 DEF EnqueueIndex
    <3>2. Len(sourceJob) \in Nat /\ DOMAIN sourceJob = 1..Len(sourceJob)  BY Tables
    <3>3. j = 0 \/ j \in DOMAIN sourceJob \/ j = Len(sourceJob) + 1  BY <1>3, <3>1, Answers
    <3> QED  BY <3>2, <3>3
  <2>2. PICK row : row = [intent[i] EXCEPT !.status = "INDEXING", !.index = j]  OBVIOUS
  <2>3. /\ row \in IntentRow /\ row.revision = intent[i].revision /\ row.excluded = intent[i].excluded
        /\ row.index = j /\ row.extract = intent[i].extract /\ row.status = "INDEXING"
    BY <1>3, <2>1, <2>2 DEF IntentRow, Unfinished
  <2>4. intent' = [intent EXCEPT ![i] = row]  BY <1>9, <2>2
  <2>5. IntentsStay /\ intent'[i] = row  BY <1>1, <2>3, <2>4, IntentUpdated
  <2>6. RowsStay /\ JobsOK' /\ j \in 1..Len(sourceJob') /\ sourceJob'[j].operation = "INDEX"
    BY <1>3, <1>5, <1>7, <1>9, <2>5, IndexEnqueued
  <2>7. intent[i].extract = 0  BY <1>1, <1>3 DEF IntentOK
  <2>8. Keeps(i)'  BY <2>3, <2>5, <2>7 DEF Keeps
  <2>9. IntentOK(i)'
    <3>1. /\ intent[i].revision \in 1..Len(version') /\ intent[i].excluded \subseteq 1..Len(version')
      BY <1>1, <1>3 DEF IntentOK, sourceVars
    <3>2. j <= Len(sourceJob') /\ 0 <= Len(sourceJob')
      <4>1. Len(sourceJob') \in Nat  BY <2>6 DEF RowsStay, JobsStay
      <4> QED  BY <2>6, <4>1
    <3> QED  BY <2>3, <2>5, <2>6, <2>7, <2>8, <3>1, <3>2 DEF IntentOK
  <2> QED  BY <1>1, <1>5, <2>3, <2>4, <2>6, <2>9, OneIntent
<1> QED  BY <1>2, <1>8, <1>9

\* A continuation succeeds with its index while no later source was uploaded:
\* the generation reported is not of a later revision.
LEMMA LinksFollowIndex ==
  ASSUME LinksInv, IndexInv', NEW i \in DOMAIN intent, FollowIndex(i)
  PROVE  LinksInv'
<1>1. /\ UNCHANGED <<sourceVars, sourceJob, extracting, builder, failing, commands>> /\ Proceeds(i)
      /\ intent[i].index # 0 /\ intent[i].extract = 0
  BY DEF FollowIndex
<1>2. failing' \in 0..Len(intent)  BY <1>1 DEF LinksInv, CountsOK
<1>3. CASE Becomes(i, "INDEXING")  BY <1>1, <1>2, <1>3, StatusMoves
<1>4. CASE sourceJob[intent[i].index].status = "SUCCEEDED" /\ Becomes(i, "SUCCEEDED")
  <2>1. intent[i] \in IntentRow /\ IntentOK(i) /\ intent[i].revision = Len(version)
    BY <1>1, StillCurrent DEF SourceRevision
  <2>2. PICK row : row = [intent[i] EXCEPT !.status = "SUCCEEDED"]  OBVIOUS
  <2>3. /\ row \in IntentRow /\ row.revision = intent[i].revision /\ row.excluded = intent[i].excluded
        /\ row.index = intent[i].index /\ row.extract = 0 /\ row.status = "SUCCEEDED"
    BY <1>1, <2>1, <2>2 DEF IntentRow
  <2>4. intent' = [intent EXCEPT ![i] = row]  BY <1>4, <2>2 DEF Becomes
  <2>5. PICK x, built : x = intent[i].index /\ built = sourceJob[x].generation  OBVIOUS
  <2>6. x \in DOMAIN sourceJob /\ sourceJob[x].operation = "INDEX" /\ sourceJob[x].status = "SUCCEEDED"
    BY <1>1, <1>4, <2>1, <2>5, Tables DEF IntentOK, IntentRow
  <2>7. built \in 1..Len(generation)
    BY <2>5, <2>6, Tables DEF JobOK, JobRow
  <2>8. generation[built].snapshot.revision <= Len(version)
    BY <2>7, Tables DEF LinksInv, IndexInv, BuildsShown, Shows
  <2>9. ASSUME intent'[i] = row PROVE IntentOK(i)'
    <3>1. UNCHANGED <<version, generation, sourceJob>>  BY <1>1 DEF sourceVars
    <3>2. Keeps(i)'  BY <2>1, <2>3, <2>5, <2>8, <2>9, <3>1 DEF Keeps
    <3> QED  BY <1>1, <2>1, <2>3, <2>5, <2>6, <2>9, <3>1, <3>2 DEF IntentOK
  <2> QED  BY <1>1, <1>2, <2>3, <2>4, <2>9, OnlyIntent
<1> QED  BY <1>3, <1>4 DEF FollowIndex

\* Extraction starts from the generation that the index job reports, which is
\* the one of the newest sources: those of the continuation.
LEMMA LinksStartExtraction ==
  ASSUME LinksInv, IndexInv', NEW i \in DOMAIN intent, StartExtraction(i)
  PROVE  LinksInv'
<1>1. /\ UNCHANGED <<sourceVars, builder, failing, commands>> /\ Proceeds(i)
      /\ intent[i].index # 0 /\ intent[i].extract = 0
      /\ sourceJob[intent[i].index].status = "SUCCEEDED"
  BY DEF StartExtraction
<1>2. failing' \in 0..Len(intent)  BY <1>1 DEF LinksInv, CountsOK
<1>3. CASE (Becomes(i, "SUPERSEDED") \/ Becomes(i, "FAILED")) /\ UNCHANGED <<sourceJob, extracting>>
  BY <1>1, <1>2, <1>3, StatusMoves
<1>4. ASSUME CurrentFor(i), NEW j, EnqueueExtract(i, j),
             \/ j # 0 /\ intent' = [intent EXCEPT ![i].status = "EXTRACTING", ![i].extract = j]
             \/ UNCHANGED intent
      PROVE  LinksInv'
  <2>1. intent[i] \in IntentRow /\ IntentOK(i) /\ i \in Nat /\ i # 0 /\ intent[i].revision = SourceRevision
    BY <1>1, StillCurrent
  <2>2. /\ intent[i].index \in 1..Len(sourceJob) /\ sourceJob[intent[i].index].operation = "INDEX"
        /\ index.generation = sourceJob[intent[i].index].generation
    BY <1>1, <1>4, <2>1, Tables DEF IntentOK, IntentRow, CurrentFor
  <2>3. VersionsStay /\ GenerationsStay /\ UNCHANGED generation  BY <1>1, TablesStay DEF sourceVars
  <2>4. CASE UNCHANGED intent
    <3>1. IntentsStay  BY <2>4, TablesStay
    <3>2. RowsStay /\ JobsOK' /\ ExtractingOK'  BY <1>1, <1>4, <2>1, <2>2, <2>3, <3>1, ExtractEnqueued
    <3>3. SourcesOK' /\ CountsOK'  BY <1>1, <3>1, SourcesKept
    <3> QED  BY <1>1, <2>4, <3>2, <3>3, IntentsKept, BuildersKept DEF LinksInv
  <2>5. CASE j # 0 /\ intent' = [intent EXCEPT ![i].status = "EXTRACTING", ![i].extract = j]
    <3>1. j \in Nat
      <4>1. j \in Enqueued("EXTRACT", i, index.generation)  BY <1>4 DEF EnqueueExtract
      <4>2. Len(sourceJob) \in Nat /\ DOMAIN sourceJob = 1..Len(sourceJob)  BY Tables
      <4>3. PICK g : g = index.generation  OBVIOUS
      <4>4. j = 0 \/ j \in DOMAIN sourceJob \/ j = Len(sourceJob) + 1  BY <2>1, <4>1, <4>3, Answers
      <4> QED  BY <4>2, <4>4
    <3>2. PICK row : row = [intent[i] EXCEPT !.status = "EXTRACTING", !.extract = j]  OBVIOUS
    <3>3. /\ row \in IntentRow /\ row.revision = intent[i].revision /\ row.excluded = intent[i].excluded
          /\ row.index = intent[i].index /\ row.extract = j /\ row.status = "EXTRACTING"
      BY <2>1, <3>1, <3>2 DEF IntentRow, Unfinished
    <3>4. intent' = [intent EXCEPT ![i] = row]  BY <2>5, <3>2
    <3>5. IntentsStay /\ intent'[i] = row  BY <3>3, <3>4, IntentUpdated
    <3>6. /\ RowsStay /\ JobsOK' /\ ExtractingOK'
          /\ j \in 1..Len(sourceJob') /\ sourceJob'[j].operation = "EXTRACT"
          /\ sourceJob'[j].input = index.generation
          /\ generation[index.generation].snapshot.revision = intent[i].revision
      BY <1>1, <1>4, <2>1, <2>2, <2>3, <2>5, <3>5, ExtractEnqueued
    <3>7. PICK x : x = intent[i].index  OBVIOUS
    <3>8. sourceJob'[x] = sourceJob[x]
      BY <1>1, <2>2, <3>6, <3>7 DEF RowsStay, JobsStay
    <3>9. IntentOK(i)'
      <4>1. intent[i].revision \in 1..Len(version') /\ intent[i].excluded \subseteq 1..Len(version')
        BY <1>1, <2>1 DEF IntentOK, sourceVars
      <4>2. j <= Len(sourceJob') /\ x <= Len(sourceJob')
        <5>1. Len(sourceJob') \in Nat /\ Len(sourceJob) \in Nat /\ Len(sourceJob) <= Len(sourceJob')
          BY <3>6, Tables DEF RowsStay, JobsStay
        <5> QED  BY <2>2, <3>6, <3>7, <5>1
      <4>3. Keeps(i)'
        <5>1. PICK g : g = index.generation  OBVIOUS
        <5>2. sourceJob'[x].generation = g  BY <2>2, <3>7, <3>8, <5>1
        <5>3. generation'[g].snapshot.revision = intent[i].revision /\ sourceJob'[j].input = g
          BY <2>3, <3>6, <5>1
        <5>4. intent'[i].index = x /\ intent'[i].extract = j /\ intent'[i].status = "EXTRACTING"
              /\ intent'[i].revision = intent[i].revision
          BY <3>3, <3>5, <3>7
        <5> QED  BY <5>2, <5>3, <5>4 DEF Keeps
      <4> QED  BY <1>1, <2>2, <2>5, <3>3, <3>5, <3>6, <3>7, <3>8, <4>1, <4>2, <4>3 DEF IntentOK
    <3> QED  BY <1>1, <3>3, <3>4, <3>6, <3>9, OneIntent
  <2> QED  BY <1>4, <2>4, <2>5
<1> QED  BY <1>3, <1>4 DEF StartExtraction

\* The rows, when the job a continuation follows is read again.
LEMMA JobReadOK ==
  ASSUME LinksInv, NEW j \in DOMAIN sourceJob, sourceJob[j].operation = "EXTRACT", sourceJob' = Reconciled(j),
         VersionsStay, GenerationsStay, ExtractingStays, IntentsStay
  PROVE  RowsStay /\ JobsOK'
BY JobRead, JobUpdatedOK

\* A continuation follows its job of extraction.
LEMMA LinksFollowExtraction ==
  ASSUME LinksInv, IndexInv', NEW i \in DOMAIN intent, FollowExtraction(i)
  PROVE  LinksInv'
<1>1. /\ UNCHANGED <<sourceVars, extracting, builder, failing, commands>> /\ Proceeds(i)
      /\ intent[i].extract # 0
  BY DEF FollowExtraction
<1>2. intent[i] \in IntentRow /\ IntentOK(i)  BY Tables
<1>3. PICK j : j = intent[i].extract  OBVIOUS
<1>4. j \in DOMAIN sourceJob /\ sourceJob[j].operation = "EXTRACT"
  BY <1>1, <1>2, <1>3, Tables DEF IntentOK, IntentRow
<1>5. sourceJob' = Reconciled(j)  BY <1>3 DEF FollowExtraction, Reconciled, RowStatus
<1>6. PICK s \in {"SUCCEEDED", "EXTRACTING"} : Becomes(i, s)  BY DEF FollowExtraction
<1>7. PICK row : row = [intent[i] EXCEPT !.status = s]  OBVIOUS
<1>8. /\ row \in IntentRow /\ row.revision = intent[i].revision /\ row.excluded = intent[i].excluded
      /\ row.index = intent[i].index /\ row.extract = intent[i].extract
  BY <1>2, <1>7 DEF IntentRow, Unfinished
<1>9. intent' = [intent EXCEPT ![i] = row]  BY <1>6, <1>7 DEF Becomes
<1>10. IntentsStay /\ intent'[i] = row  BY <1>8, <1>9, IntentUpdated
<1>11. VersionsStay /\ GenerationsStay /\ ExtractingStays /\ ExtractingOK'
  BY <1>1, TablesStay, SourcesKept DEF sourceVars
<1>12. RowsStay /\ JobsOK'  BY <1>4, <1>5, <1>10, <1>11, JobReadOK
<1>13. IntentOK(i)'  BY <1>1, <1>8, <1>10, <1>12, IntentKept
<1> QED  BY <1>1, <1>8, <1>9, <1>11, <1>12, <1>13, OneIntent

\* A failure is read in one transaction and written in another.
LEMMA LinksFailure ==
  ASSUME LinksInv, IndexInv', FailIntent \/ \E i \in DOMAIN intent : ReadFailure(i)
  PROVE  LinksInv'
<1>1. ASSUME NEW i \in DOMAIN intent, ReadFailure(i) PROVE LinksInv'
  <2>1. UNCHANGED <<sourceVars, intent, extracting, builder, commands>> /\ failing' = i
    BY <1>1 DEF ReadFailure
  <2>2. VersionsStay /\ GenerationsStay /\ ExtractingStays /\ IntentsStay /\ ExtractingOK' /\ SourcesOK'
    BY <2>1, TablesStay, SourcesKept DEF sourceVars
  <2>3. RowsStay /\ JobsOK'
    <3>1. CASE intent[i].extract # 0
      <4>1. PICK j : j = intent[i].extract  OBVIOUS
      <4>2. intent[i] \in IntentRow /\ IntentOK(i)  BY Tables
      <4>3. j \in DOMAIN sourceJob /\ sourceJob[j].operation = "EXTRACT"
        BY <3>1, <4>1, <4>2, Tables DEF IntentOK, IntentRow
      <4>4. sourceJob' = Reconciled(j)  BY <1>1, <3>1, <4>1 DEF ReadFailure, Followed, Reconciled, RowStatus
      <4> QED  BY <2>2, <4>3, <4>4, JobReadOK
    <3>2. CASE intent[i].extract = 0
      <4>1. UNCHANGED sourceJob  BY <1>1, <3>2 DEF ReadFailure
      <4>2. RowsStay  BY <2>2, <4>1, TablesStay DEF RowsStay
      <4> QED  BY <4>1, <4>2, JobsKept
    <3> QED  BY <3>1, <3>2
  <2>4. CountsOK'  BY <2>1, Tables DEF LinksInv, CountsOK
  <2> QED  BY <2>1, <2>2, <2>3, <2>4, IntentsKept, BuildersKept DEF LinksInv
<1>2. CASE FailIntent
  <2>1. /\ UNCHANGED <<sourceVars, sourceJob, extracting, builder, commands>> /\ failing # 0 /\ failing' = 0
        /\ Becomes(failing, "FAILED") \/ UNCHANGED intent
    BY <1>2 DEF FailIntent
  <2>2. failing \in DOMAIN intent /\ failing' \in 0..Len(intent)
    BY <2>1, Tables DEF LinksInv, CountsOK
  <2>3. CASE UNCHANGED intent
    <3>1. RowsStay  BY <2>1, <2>3, TablesStay DEF RowsStay, sourceVars
    <3>2. SourcesOK' /\ ExtractingOK'  BY <2>1, <3>1, SourcesKept DEF RowsStay
    <3>3. CountsOK'  BY <2>1, <2>2, <2>3 DEF LinksInv, CountsOK
    <3> QED  BY <2>1, <2>3, <3>1, <3>2, <3>3, IntentsKept, JobsKept, BuildersKept DEF LinksInv
  <2>4. CASE Becomes(failing, "FAILED")
    <3>1. PICK i \in DOMAIN intent : i = failing  BY <2>2
    <3>2. Becomes(i, "FAILED")  BY <2>4, <3>1 DEF Becomes
    <3> QED  BY <2>1, <2>2, <3>2, StatusMoves
  <2> QED  BY <2>1, <2>3, <2>4
<1> QED  BY <1>1, <1>2

-----------------------------------------------------------------------------
\* Every step keeps what rows say of one another.
LEMMA LinksStep == LinksInv /\ [IntentsNext]_intentVars => LinksInv'
<1> SUFFICES ASSUME LinksInv, [IntentsNext]_intentVars PROVE LinksInv'  OBVIOUS
<1>0. IndexInv'  BY IndexStep DEF LinksInv
<1>1. CASE SourceUser
  <2>1. ASSUME NEW d \in Document, UploadSource(d) PROVE LinksInv'
    BY <1>0, <2>1, LinksUpload DEF UploadSource
  <2>2. ASSUME NEW j \in DOMAIN sourceJob, ReadJob(j) PROVE LinksInv'
    BY <1>0, <2>2, LinksReadJob
  <2>3. CASE commands < CommandBound /\ commands' = commands + 1
    <3>1. commands' \in 0..CommandBound  BY <2>3, IntentBoundsAssumption DEF LinksInv, CountsOK
    <3>2. ASSUME NEW c \in SourceCommands, NEW s \in SUBSET Latest, NEW x \in SUBSET Latest, SourceCommand(c, s, x)
          PROVE  LinksInv'
      BY <1>0, <3>1, <3>2, LinksCommand
    <3>3. CASE ArchiveSources
      BY <1>0, <3>1, <3>3, OnlyVersions DEF ArchiveSources
    <3>4. CASE EnqueueDirectly \/ RequestExtraction  BY <1>0, <3>1, <3>4, LinksEnqueue
    <3>5. ASSUME NEW v \in DOMAIN version, NEW r \in BOOLEAN, ReviewSource(v, "REJECTED", r) PROVE LinksInv'
      BY <1>0, <3>1, <3>5, LinksVersions
    <3>6. ASSUME NEW j \in DOMAIN sourceJob, RetryJob(j) PROVE LinksInv'
      BY <1>0, <3>1, <3>6, LinksRetry
    <3>7. ASSUME NEW b \in Builder, NEW x \in SUBSET Latest, RequestIndex(b, x) PROVE LinksInv'
      BY <1>0, <3>1, <3>7, LinksRequest
    <3> QED  BY <1>1, <2>1, <2>2, <3>2, <3>3, <3>4, <3>5, <3>6, <3>7 DEF SourceUser
  <2> QED  BY <1>1, <2>1, <2>2, <2>3 DEF SourceUser
<1>2. CASE Advancing
  BY <1>0, <1>2, LinksStop, LinksStartIndex, LinksFollowIndex, LinksStartExtraction, LinksFollowExtraction,
     LinksFailure DEF Advancing
<1>3. ASSUME NEW b \in Builder, IndexWorker(b) PROVE LinksInv'
  BY <1>0, <1>3, LinksClaim, LinksPin, LinksBegin, LinksBuild, LinksPublish, LinksFailOrDie DEF IndexWorker
<1>4. ASSUME NEW j \in DOMAIN sourceJob, ExhaustIndex(j) PROVE LinksInv'  BY <1>0, <1>4, LinksExhaust
<1>5. ASSUME NEW v \in DOMAIN version, NEW o \in {"PARSED", "FAILED"}, SourceParsed(v, o) PROVE LinksInv'
  <2>1. commands' \in 0..CommandBound  BY <1>5 DEF SourceParsed, LinksInv, CountsOK
  <2> QED  BY <1>0, <1>5, <2>1, LinksVersions
<1>6. ASSUME NEW x \in DOMAIN extracting, NEW o \in {"COMPLETED", "FAILED"}, ExtractionEnds(x, o)
      PROVE  LinksInv'
  BY <1>0, <1>6, LinksExtractionEnds
<1>7. CASE UNCHANGED intentVars
  <2>1. RowsStay  BY <1>7, TablesStay DEF RowsStay, intentVars, sourceVars
  <2>2. UNCHANGED <<sourceVars, intent, sourceJob, extracting, builder, failing, commands>>
    BY <1>7 DEF intentVars
  <2> QED  BY <1>0, <2>1, <2>2, JobsKept, BuildersKept, WorkerMoves
<1> QED  BY <1>1, <1>2, <1>3, <1>4, <1>5, <1>6, <1>7 DEF IntentsNext

\* Sources uploaded after a command never slip into what it started, however
\* many commands, jobs and builds overlap: the index that a continuation reports
\* when it succeeds, and the one that its extraction reads, are of no later
\* sources, though the latter may be an earlier one.
THEOREM KeepsRevision == IntentsSpec => []KeepsItsRevision
<1>1. LinksInv => KeepsItsRevision
  <2> SUFFICES ASSUME LinksInv, NEW i \in DOMAIN intent
               PROVE  /\ intent[i].status = "SUCCEEDED" => BuiltFor(i) <= intent[i].revision
                      /\ intent[i].extract # 0 => BuiltFor(i) = intent[i].revision
                                               /\ ExtractedFor(i) <= intent[i].revision
    BY DEF KeepsItsRevision
  <2>1. intent[i] \in IntentRow /\ IntentOK(i) /\ Keeps(i)  BY Tables DEF IntentOK
  <2>2. ASSUME intent[i].extract # 0
        PROVE  BuiltFor(i) = intent[i].revision /\ ExtractedFor(i) <= intent[i].revision
    <3>1. PICK j, built : j = intent[i].extract /\ built = sourceJob[intent[i].index].generation  OBVIOUS
    <3>2. /\ sourceJob[j].input = built /\ generation[built].snapshot.revision = intent[i].revision
      BY <2>1, <2>2, <3>1 DEF Keeps
    <3>3. j \in DOMAIN sourceJob /\ sourceJob[j].operation = "EXTRACT"
      BY <2>1, <2>2, <3>1, Tables DEF IntentOK, IntentRow
    <3>4. RowKept(j)  BY <3>3, Tables DEF JobOK
    <3> QED  BY <3>1, <3>2, <3>4 DEF RowKept, BuiltFor, ExtractedFor
  <2> QED  BY <2>1, <2>2 DEF Keeps, BuiltFor
<1> QED  BY <1>1, LinksStart, LinksStep, PTL DEF IntentsSpec

\* What the tables say of each other implies their types.
LEMMA LinksTyped == LinksInv => SourcesTypeOK
<1> SUFFICES ASSUME LinksInv PROVE SourcesTypeOK  OBVIOUS
<1>0. /\ Len(version) \in Nat /\ DOMAIN version = 1..Len(version)
      /\ Len(generation) \in Nat /\ DOMAIN generation = 1..Len(generation)
      /\ Len(extracting) \in Nat /\ DOMAIN extracting = 1..Len(extracting)
      /\ Len(sourceJob) \in Nat /\ DOMAIN sourceJob = 1..Len(sourceJob)
      /\ index.generation = Len(generation)
  BY Tables
<1>1. \A v \in DOMAIN version :
         version[v] \in [doc : Document, parse : {"UPLOADED", "PARSED", "FAILED"},
                        approval : {"DRAFT", "APPROVED", "REJECTED"}]
  BY RowsOfVersions DEF LinksInv, VersionRow
<1>2. archived \in BOOLEAN  BY DEF LinksInv, SourcesOK
<1>3. index \in [status : {"NOT_INDEXED", "INDEXING", "READY", "FAILED"},
                 generation : 0..Len(generation), snapshot : SnapshotType]
  <2>1. index \in IndexRow /\ index.snapshot \in SnapshotType /\ index.generation \in 0..Len(generation)
    BY <1>0 DEF LinksInv, SourcesOK, IndexInv, IndexTyped
  <2> QED  BY <2>1 DEF IndexRow
<1>4. \A g \in DOMAIN generation :
         generation[g] \in [status : {"INDEXING", "READY", "FAILED", "SUPERSEDED"},
                           snapshot : SnapshotType, versions : SUBSET DOMAIN version]
  <2>1. \A g \in DOMAIN generation : generation[g] \in GenerationRow  BY Tables
  <2> QED  BY <1>0, <2>1 DEF LinksInv, SourcesOK, GenerationRow
<1>5. \A i \in DOMAIN intent :
         intent[i] \in [command : SourceCommands, revision : 1..SourceRevision,
                       excluded : SUBSET DOMAIN version,
                       status : Unfinished \cup {"SUCCEEDED", "FAILED", "SUPERSEDED"},
                       index : 0..Len(sourceJob), extract : 0..Len(sourceJob)]
  <2> SUFFICES ASSUME NEW i \in DOMAIN intent
               PROVE  intent[i] \in [command : SourceCommands, revision : 1..SourceRevision,
                                    excluded : SUBSET DOMAIN version,
                                    status : Unfinished \cup {"SUCCEEDED", "FAILED", "SUPERSEDED"},
                                    index : 0..Len(sourceJob), extract : 0..Len(sourceJob)]
    OBVIOUS
  <2>1. intent[i] \in IntentRow /\ IntentOK(i)  BY Tables
  <2>2. /\ intent[i].revision \in 1..SourceRevision /\ intent[i].excluded \subseteq DOMAIN version
        /\ intent[i].index \in 0..Len(sourceJob) /\ intent[i].extract \in 0..Len(sourceJob)
    BY <1>0, <2>1 DEF IntentRow, IntentOK, SourceRevision
  <2> QED  BY <2>1, <2>2 DEF IntentRow
<1>6. \A j \in DOMAIN sourceJob :
        /\ sourceJob[j].status \in ActiveJob \cup {"SUCCEEDED", "FAILED"}
        /\ sourceJob[j].attempt \in 0..MaxIndexAttempts
        /\ sourceJob[j].holder \in Builder \cup {NoBuilder}
        /\ sourceJob[j].generation \in 0..Len(generation)
        /\ sourceJob[j].operation = "EXTRACT" => sourceJob[j].row \in DOMAIN extracting
  BY <1>0, Tables DEF JobRow, JobOK
<1>7. \A x \in DOMAIN extracting :
         extracting[x] \in [generation : DOMAIN generation, status : DOMAIN Follows]
  <2>1. \A x \in DOMAIN extracting : extracting[x] \in ExtractingRow /\ extracting[x].generation \in 1..Len(generation)
    BY Tables DEF LinksInv, ExtractingOK
  <2>2. DOMAIN Follows = {"PENDING", "COMPLETED", "FAILED"}  BY DEF Follows
  <2> QED  BY <1>0, <2>1, <2>2 DEF ExtractingRow
<1>8. \A b \in Builder :
        builder[b].phase # "idle" => /\ builder[b].job \in 0..Len(sourceJob)
                                     /\ builder[b].generation \in 0..Len(generation)
  BY <1>0, Tables DEF BuildRow, BuildOK
<1>9. failing \in 0..Len(intent) /\ commands \in 0..CommandBound  BY DEF LinksInv, CountsOK
<1> QED  BY <1>1, <1>2, <1>3, <1>4, <1>5, <1>6, <1>7, <1>8, <1>9 DEF SourcesTypeOK

\* The tables hold the statuses and the references that the code writes, and
\* every reference names a row that is there.
THEOREM SourcesTyped == IntentsSpec => []SourcesTypeOK
BY LinksStart, LinksStep, LinksTyped, PTL DEF IntentsSpec
=============================================================================
