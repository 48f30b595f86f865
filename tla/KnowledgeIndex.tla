--------------------------- MODULE KnowledgeIndex ---------------------------
(***************************************************************************)
(* The code index of one project (knowledge.Repository, Worker, Indexer,      *)
(* Retriever) and the context snapshots of the calls that used it             *)
(* (provenance.Repository).  The row of project_indexes is claimed, leased    *)
(* and saved under the fence (generation, status, attempt_count); the files   *)
(* are read from a branch that moves meanwhile.  A file gives one chunk, one  *)
(* that is left out, or two with the same key.  A text of a file stands for   *)
(* all that its chunk and its embedding are made of, of which the content     *)
(* hash covers the body only: the package clause and the chunk's path and     *)
(* type go into the embedding without it.                                     *)
(***************************************************************************)
EXTENDS Naturals, FiniteSets

CONSTANTS
    File, Text,
    BodyOf,                \* text -> the part of it that is hashed
    Indexer, ModelOf,      \* the workers, and the embedding model each was started with
    MaxIndexAttempts,      \* WORKER_MAX_ATTEMPTS
    GenerationBound, PushBound, AttemptsBound, SnapshotBound,  \* bounds
    None

ChunkContent == Text \cup {"absent", "skipped", "twice"}
ContentHash(c) == IF c \in Text THEN BodyOf[c] ELSE c
Models == {ModelOf[w] : w \in Indexer}
Vector == [text : ChunkContent, by : Models]
Chunk == [text : ChunkContent, model : Models, vector : Vector]
ASSUME NoneAssumption == None \notin Vector /\ None \notin Chunk

VARIABLES
    index,      \* [status, generation, attempt, lease, errored, model]
    chunks,     \* file -> [text, model, vector], None
    branch,     \* file -> content at the head of the branch
    since,      \* file -> its contents since the last request
    pushes,     \* bound counter
    indexer,    \* worker -> [pc, generation, attempt, left, drafts, prints, vectors]
    context,    \* what a call retrieved: [generation, items], None
    snapshots,  \* context_snapshots
    saved       \* history: every index that was saved

indexVars == <<index, chunks, branch, since, pushes, indexer, context, snapshots, saved>>

Idle == [pc |-> "idle", generation |-> 0, attempt |-> 0, left |-> {}, drafts |-> [f \in File |-> "absent"],
         prints |-> [f \in File |-> None], vectors |-> [f \in File |-> None]]

IndexInit ==
    /\ index = [status |-> "NOT_INDEXED", generation |-> 0, attempt |-> 0, lease |-> "none",
                errored |-> FALSE, model |-> None]
    /\ chunks = [f \in File |-> None]
    /\ branch \in [File -> Text] /\ since = [f \in File |-> {}] /\ pushes = 0
    /\ indexer = [w \in Indexer |-> Idle]
    /\ context = None /\ snapshots = {} /\ saved = {}

\* Service.RequestIndex: whatever the row's status, a new generation waits.
RequestIndex ==
    /\ index.generation < GenerationBound
    /\ index' = [index EXCEPT !.status = "PENDING", !.generation = @ + 1, !.attempt = 0,
                              !.lease = "none", !.errored = FALSE]
    /\ since' = [f \in File |-> {branch[f]}]
    /\ UNCHANGED <<chunks, branch, pushes, indexer, context, snapshots, saved>>

\* A push to the branch changes, adds or removes a file.
Push(f, c) ==
    /\ pushes < PushBound
    /\ c # branch[f]
    /\ branch' = [branch EXCEPT ![f] = c]
    /\ since' = [since EXCEPT ![f] = @ \cup {c}]
    /\ pushes' = pushes + 1
    /\ UNCHANGED <<index, chunks, indexer, context, snapshots, saved>>

-----------------------------------------------------------------------------
(* The queue. *)

NextIndexAttempt == IF index.lease = "none" /\ ~index.errored THEN 1 ELSE index.attempt + 1

ClaimIndex(w) ==
    /\ indexer[w].pc = "idle"
    /\ \/ index.status = "PENDING" /\ index.lease = "none"
       \/ index.status = "INDEXING" /\ index.lease = "expired"
    /\ index' = [index EXCEPT !.status = "INDEXING", !.attempt = NextIndexAttempt,
                              !.lease = "live", !.errored = FALSE]
    /\ indexer' = [indexer EXCEPT ![w] = [Idle EXCEPT !.pc = "list", !.generation = index.generation,
                                                      !.attempt = NextIndexAttempt]]
    /\ UNCHANGED <<chunks, branch, since, pushes, context, snapshots, saved>>

IndexFenced_AttemptOnly(w) == index.status = "INDEXING" /\ index.attempt = indexer[w].attempt
IndexFenced(w) ==
    /\ index.status = "INDEXING"
    /\ index.generation = indexer[w].generation
    /\ index.attempt = indexer[w].attempt

\* Any step of Process may fail, by itself or because a renewal did.
RetryOrFailIndex(w) ==
    /\ indexer[w].pc # "idle"
    /\ index' = IF IndexFenced(w)
                THEN [index EXCEPT !.status = IF index.attempt < MaxIndexAttempts THEN "PENDING" ELSE "FAILED",
                                   !.errored = TRUE, !.lease = "none"]
                ELSE index
    /\ indexer' = [indexer EXCEPT ![w] = Idle]
    /\ UNCHANGED <<chunks, branch, since, pushes, context, snapshots, saved>>

RenewIndexLease(w) ==
    /\ indexer[w].pc # "idle" /\ IndexFenced(w)
    /\ index' = [index EXCEPT !.lease = "live"]
    /\ UNCHANGED <<chunks, branch, since, pushes, indexer, context, snapshots, saved>>

IndexLeaseExpires ==
    /\ index.lease = "live" /\ index.attempt < AttemptsBound
    /\ index' = [index EXCEPT !.lease = "expired"]
    /\ UNCHANGED <<chunks, branch, since, pushes, indexer, context, snapshots, saved>>

IndexerCrash(w) ==
    /\ indexer[w].pc # "idle" /\ index.attempt < AttemptsBound
    /\ indexer' = [indexer EXCEPT ![w] = Idle]
    /\ UNCHANGED <<index, chunks, branch, since, pushes, context, snapshots, saved>>

-----------------------------------------------------------------------------
(* Indexer.Process, one request to the outside at a time. *)

ListRepositoryTree(w) ==
    /\ indexer[w].pc = "list"
    /\ indexer' = [indexer EXCEPT ![w].pc = "fetch", ![w].left = {f \in File : branch[f] # "absent"}]
    /\ UNCHANGED <<index, chunks, branch, since, pushes, context, snapshots, saved>>

\* GetFileRaw and ChunkFile; a file that is gone by now fails the whole index.
FetchFile(w, f) ==
    /\ indexer[w].pc = "fetch" /\ f \in indexer[w].left
    /\ branch[f] # "absent"
    /\ indexer' = [indexer EXCEPT ![w].left = @ \ {f}, ![w].drafts[f] = branch[f]]
    /\ UNCHANGED <<index, chunks, branch, since, pushes, context, snapshots, saved>>

Drafted(w) == {f \in File : indexer[w].drafts[f] \notin {"absent", "skipped"}}
ContentFingerprints(w) ==
    /\ indexer[w].pc = "fetch" /\ indexer[w].left = {}
    /\ indexer' = [indexer EXCEPT ![w].pc = "embed",
          ![w].prints = [f \in File |-> IF chunks[f] = None THEN None
                                        ELSE [hash |-> ContentHash(chunks[f].text), model |-> chunks[f].model]]]
    /\ UNCHANGED <<index, chunks, branch, since, pushes, context, snapshots, saved>>

\* A chunk with the same hash keeps its vector, if the model is the same, also
\* when what is embedded has changed beside the body.
Unchanged(w, f) ==
    indexer[w].prints[f] = [hash |-> ContentHash(indexer[w].drafts[f]), model |-> ModelOf[w]]
Embed(w) ==
    /\ indexer[w].pc = "embed"
    /\ indexer' = [indexer EXCEPT ![w].pc = "save",
          ![w].vectors = [f \in File |-> IF f \in Drafted(w) /\ ~Unchanged(w, f)
                                         THEN [text |-> indexer[w].drafts[f], by |-> ModelOf[w]] ELSE None]]
    /\ UNCHANGED <<index, chunks, branch, since, pushes, context, snapshots, saved>>

\* One transaction, which fails on two chunks with one key, and on a chunk
\* without a vector whose row does not have its hash and model.
Savable(w, f) ==
    /\ indexer[w].drafts[f] # "twice"
    /\ indexer[w].vectors[f] = None =>
         /\ chunks[f] # None
         /\ ContentHash(chunks[f].text) = ContentHash(indexer[w].drafts[f]) /\ chunks[f].model = ModelOf[w]
\* A kept vector stays as it is beside the new text of its chunk.
Stored(w, f) ==
    [text |-> indexer[w].drafts[f], model |-> ModelOf[w],
     vector |-> IF indexer[w].vectors[f] = None THEN chunks[f].vector ELSE indexer[w].vectors[f]]
Stale_Kept(w) == {}
Stale(w) == File \ Drafted(w)
SaveIndex(w) ==
    /\ indexer[w].pc = "save"
    /\ IndexFenced(w)
    /\ \A f \in Drafted(w) : Savable(w, f)
    /\ chunks' = [f \in File |-> IF f \in Stale(w) THEN None
                              ELSE IF f \in Drafted(w) THEN Stored(w, f) ELSE chunks[f]]
    /\ index' = [index EXCEPT !.status = "READY", !.model = ModelOf[w], !.errored = FALSE,
                              !.lease = "none", !.attempt = 0]
    /\ saved' = saved \cup {[generation |-> index.generation, chunks |-> chunks']}
    /\ indexer' = [indexer EXCEPT ![w] = Idle]
    /\ UNCHANGED <<branch, since, pushes, context, snapshots>>

-----------------------------------------------------------------------------
(* The calls of the analysis workers. *)

\* One statement reads the best chunks and the generation of the index row.
Retrieve ==
    /\ context = None
    /\ \E found \in SUBSET {f \in File : chunks[f] # None} :
         context' = [generation |-> index.generation,
                     items |-> {[file |-> f, text |-> chunks[f].text, model |-> chunks[f].model] : f \in found}]
    /\ UNCHANGED <<index, chunks, branch, since, pushes, indexer, snapshots, saved>>

\* The answer of the model comes later, with its context recorded beside it;
\* the row is asked again only if nothing was retrieved.
IndexGeneration ==
    IF context.items = {} THEN index.generation ELSE context.generation
Snapshot == [generation |-> IndexGeneration, items |-> context.items]
Record ==
    /\ context # None
    /\ Cardinality(snapshots) < SnapshotBound
    /\ snapshots' = snapshots \cup {Snapshot}
    /\ context' = None
    /\ UNCHANGED <<index, chunks, branch, since, pushes, indexer, saved>>

IndexNext ==
    \/ RequestIndex \/ IndexLeaseExpires
    \/ \E f \in File, c \in ChunkContent : Push(f, c)
    \/ \E w \in Indexer :
         \/ ClaimIndex(w) \/ RetryOrFailIndex(w) \/ RenewIndexLease(w) \/ IndexerCrash(w)
         \/ ListRepositoryTree(w) \/ (\E f \in File : FetchFile(w, f))
         \/ ContentFingerprints(w) \/ Embed(w) \/ SaveIndex(w)
    \/ Retrieve \/ Record
IndexSpec == IndexInit /\ [][IndexNext]_indexVars

-----------------------------------------------------------------------------
\* A READY index answers its request: every chunk holds a content its file had
\* after the request, a file without a chunk had none to give, and every vector
\* was made by the model of the index, from this content or from an earlier one
\* with the same body: never from other code, whichever builds kept it.
IndexAnswersRequest == index.status = "READY" => \A f \in File :
    IF chunks[f] = None THEN since[f] \cap {"absent", "skipped"} # {}
    ELSE /\ chunks[f].text \in since[f]
         /\ chunks[f].model = index.model
         /\ chunks[f].vector.by = index.model
         /\ ContentHash(chunks[f].vector.text) = ContentHash(chunks[f].text)

\* A recorded context is of one saved index and no mixture of two, not later than
\* the generation it names.
ContextIsOfOneIndex == \A s \in snapshots : s.items # {} =>
    \E i \in saved : /\ i.generation <= s.generation
                     /\ \A x \in s.items : i.chunks[x.file] # None /\ i.chunks[x.file].text = x.text

\* No claim that expired, was superseded by a request or crashed leaves its
\* content, and no retrieval sees half of an index (SaveIndex, Retrieve, Record).
KnowledgeIsCurrent == IndexAnswersRequest /\ ContextIsOfOneIndex
=============================================================================
