--------------------------- MODULE IngestPipeline ---------------------------
(***************************************************************************)
(* The four batch stages that turn source files into the artifacts a       *)
(* question reads: ingestion (parse), chunking, dense indexing and lexical *)
(* indexing.  Each stage runs in a process of its own, reads the pointer   *)
(* of the stage before it, writes immutable artifacts named by their       *)
(* content, then a manifest, and moves its own pointer last.  No lock      *)
(* orders the stages: two processes may run at once, a process may die     *)
(* between any two writes, and an artifact may rot on disk.  Only the      *)
(* vector store admits one client at a time.                               *)
(*                                                                         *)
(* A document is abstracted to its content and has one child chunk.        *)
(***************************************************************************)
EXTENDS Integers, FiniteSets

CONSTANTS
  Procs, Paths, Contents,
  Unparsable,   \* contents no parser accepts
  HeadingOnly,  \* contents whose child the dense policy excludes
  ZeroTerm,     \* contents whose child the analyzer leaves without a term
  Configs,      \* embedding and index configurations
  MaxFaults     \* crashes, damaged artifacts and transient errors together

NoFile == "no_file"

ASSUME PipelineAssumption ==
  /\ IsFiniteSet(Paths) /\ IsFiniteSet(Contents) /\ NoFile \notin Contents /\ "none" \notin Procs
  /\ MaxFaults \in Nat /\ Configs \subseteq Nat \ {0} /\ Configs # {}

Quality == {"none", "good", "bad"}     \* absent, as written, damaged
Sources == [Paths -> Contents \cup {NoFile}]
NoSources == [p \in Paths |-> NoFile]

(* corpus_id hashes the documents and leaves the source paths out. *)
corpus_id(s) == [c \in Contents |-> Cardinality({p \in Paths : s[p] = c})]
CorpusIds == {corpus_id(s) : s \in Sources}
NoCorpus  == corpus_id(NoSources)
Documents(id) == {c \in Contents : id[c] > 0}

(* An index identifier: the chunk set (here its corpus) and the config. *)
Indexes == CorpusIds \X (Configs \cup {0})
NoIndex == <<NoCorpus, 0>>

VARIABLES
  files,    \* the folder handed to the ingest command
  config,   \* the active index configuration
  parsed, chunks, embeds,           \* artifact stores, by content (and config)
  cman, kman, dman, lman,           \* the manifests of the four stages; one file per corpus
  cstate, kstate, dstate, lstate,   \* their pointers
  coll,     \* vector collections: there or not, and their points
  ldir,     \* lexical index directories
  client,   \* the process with the vector store open, or none
  run,      \* per process: the stage it runs and its local variables
  faults,   \* faults so far
  hurt      \* what was damaged: any artifact, and which collections; and, of which
            \* corpora, the manifest was written over by one with other paths

stores   == <<parsed, chunks, embeds, coll, ldir>>
manifests == <<cman, kman, dman, lman>>
pointers == <<cstate, kstate, dstate, lstate>>
pipeVars == <<files, config, stores, manifests, pointers, client, run, faults, hurt>>

Idle == [stage |-> "none", pc |-> "idle", src |-> NoSources, prev |-> NoSources, id |-> NoCorpus,
         cfg |-> 0, todo |-> {}, failed |-> FALSE, cause |-> "none",
         status |-> "none"]

(* A stage ends: SUCCESS, NO_OP, or FAILED with the cause of its error and  *)
(* what it was about.                                                       *)
Report(p, status, cause) ==
  run' = [run EXCEPT ![p] =
    IF status = "FAILED" THEN [Idle EXCEPT !.id = run[p].id, !.src = run[p].src,
                                           !.status = status, !.cause = cause]
    ELSE [Idle EXCEPT !.status = status]]
Local(p, pc) == run' = [run EXCEPT ![p].pc = pc]
At(p, stage, pc) == run[p].stage = stage /\ run[p].pc = pc

PipeInit ==
  /\ files \in [Paths -> Contents] /\ config = CHOOSE c \in Configs : TRUE
  /\ parsed = [c \in Contents |-> "none"] /\ chunks = [c \in Contents |-> "none"]
  /\ embeds = [e \in Contents \X Configs |-> "none"]
  /\ cman = {} /\ kman = {} /\ dman = {} /\ lman = {}
  /\ cstate = NoSources /\ kstate = NoCorpus /\ dstate = NoIndex /\ lstate = NoCorpus
  /\ coll = [i \in Indexes |-> [there |-> FALSE, points |-> {}]]
  /\ ldir = [i \in CorpusIds |-> "none"]
  /\ client = "none" /\ run = [p \in Procs |-> Idle] /\ faults = 0
  /\ hurt = [artifact |-> FALSE, index |-> {}, rewritten |-> {}]

(***************************** ingestion ***********************************)

(* candidate_sources: the active sources, overlaid with the discovered ones. *)
Candidate(found) == [q \in Paths |-> IF q \in found THEN files[q] ELSE cstate[q]]

(* run_ingestion: discover the sources and read the active state. *)
BeginIngest(p) ==
  /\ run[p].pc = "idle"
  /\ LET found == {q \in Paths : files[q] # NoFile}
     IN run' = [run EXCEPT ![p] =
          IF found = {}
          THEN [Idle EXCEPT !.status = "FAILED", !.cause = "discovery"]
          ELSE [Idle EXCEPT !.stage = "ingest", !.pc = "sources", !.todo = found,
                  !.prev = cstate, !.src = Candidate(found)]]
  /\ UNCHANGED <<files, config, stores, manifests, pointers, client, faults, hurt>>

(* The first error decides the class unless a later one is internal. *)
Failed(r, cause) == [r EXCEPT !.failed = TRUE,
  !.cause = IF @ = "none" \/ cause # "document" THEN cause ELSE @]

(* One source: reuse a readable artifact, else parse and write.  A damaged  *)
(* artifact is not reused, and the store refuses to overwrite it.           *)
IngestSource(p, q) ==
  /\ At(p, "ingest", "sources") /\ q \in run[p].todo
  /\ LET c == run[p].src[q]
         r == [run[p] EXCEPT !.todo = @ \ {q}]
     IN \/ /\ c \in Unparsable
           /\ run' = [run EXCEPT ![p] = Failed(r, "document")]
           /\ UNCHANGED <<parsed, faults>>
        \/ /\ c \notin Unparsable /\ parsed[c] # "bad"
           /\ parsed' = [parsed EXCEPT ![c] = "good"]
           /\ run' = [run EXCEPT ![p] = r]
           /\ UNCHANGED faults
        \/ /\ c \notin Unparsable /\ parsed[c] = "bad"
           /\ run' = [run EXCEPT ![p] = Failed(r, "conflict")]
           /\ UNCHANGED <<parsed, faults>>
        \/ /\ faults < MaxFaults /\ faults' = faults + 1
           /\ run' = [run EXCEPT ![p] = Failed(r, "io")]
           /\ UNCHANGED parsed
  /\ UNCHANGED <<files, config, chunks, embeds, coll, ldir, manifests, pointers, client, hurt>>

OfSameCorpus(s) == {m \in cman : corpus_id(m) = corpus_id(s)}

(* write_corpus_manifest reads the file of this identifier first: the same  *)
(* documents under the same paths are there already, under other paths they *)
(* are a conflict, which leaves run_ingestion as an exception.              *)
IngestManifest(p) ==
  /\ At(p, "ingest", "sources") /\ run[p].todo = {}
  /\ \/ run[p].failed /\ Report(p, "FAILED", run[p].cause)
     \/ /\ ~run[p].failed /\ OfSameCorpus(run[p].src) \ {run[p].src} # {}
        /\ Report(p, "FAILED", "manifest")
     \/ ~run[p].failed /\ run[p].src \in cman /\ Local(p, "state")
     \/ ~run[p].failed /\ OfSameCorpus(run[p].src) = {} /\ Local(p, "write")
  /\ UNCHANGED <<files, config, stores, manifests, pointers, client, faults, hurt>>

(* The file is replaced, whatever another run has put there since the check. *)
WriteManifest(p) ==
  /\ At(p, "ingest", "write")
  /\ LET s == run[p].src
     IN /\ cman' = (cman \ OfSameCorpus(s)) \cup {s}
        /\ hurt' = IF OfSameCorpus(s) \subseteq {s} THEN hurt
                   ELSE [hurt EXCEPT !.rewritten = @ \cup {corpus_id(s)}]
        /\ Local(p, "state")
  /\ UNCHANGED <<files, config, stores, kman, dman, lman, pointers, client, faults>>

(* The pointer moves last, and only when something changed since the state *)
(* this run read at its start.                                             *)
IngestState(p) ==
  /\ At(p, "ingest", "state")
  /\ \/ run[p].prev = run[p].src /\ Report(p, "NO_OP", "none") /\ UNCHANGED cstate
     \/ /\ run[p].prev # run[p].src /\ cstate' = run[p].src
        /\ Report(p, "SUCCESS", "none")
  /\ UNCHANGED <<files, config, stores, manifests, kstate, dstate, lstate, client, faults, hurt>>

(****************************** chunking ***********************************)

(* run_chunking: the corpus state and its manifest are read once. *)
BeginChunk(p) ==
  /\ run[p].pc = "idle"
  /\ run' = [run EXCEPT ![p] =
       IF cstate = NoSources
       THEN [Idle EXCEPT !.status = "FAILED", !.cause = "precondition"]
       ELSE [Idle EXCEPT !.stage = "chunk", !.pc = "documents",
                         !.id = corpus_id(cstate), !.todo = Documents(corpus_id(cstate))]]
  /\ UNCHANGED <<files, config, stores, manifests, pointers, client, faults, hurt>>

ChunkOneDocument(p, c) ==
  /\ At(p, "chunk", "documents") /\ c \in run[p].todo
  /\ LET r == [run[p] EXCEPT !.todo = @ \ {c}]
     IN \/ /\ chunks[c] = "good" \/ (chunks[c] = "none" /\ parsed[c] = "good")
           /\ chunks' = [chunks EXCEPT ![c] = "good"]
           /\ run' = [run EXCEPT ![p] = r]
        \/ /\ chunks[c] = "bad" \/ (chunks[c] = "none" /\ parsed[c] # "good")
           /\ run' = [run EXCEPT ![p] = Failed(r, "conflict")]
           /\ UNCHANGED chunks
  /\ UNCHANGED <<files, config, parsed, embeds, coll, ldir, manifests, pointers,
                 client, faults, hurt>>

ChunkManifest(p) ==
  /\ At(p, "chunk", "documents") /\ run[p].todo = {}
  /\ \/ run[p].failed /\ Report(p, "FAILED", run[p].cause) /\ UNCHANGED kman
     \/ /\ ~run[p].failed
        /\ kman' = kman \cup {run[p].id} /\ Local(p, "state")
  /\ UNCHANGED <<files, config, stores, cman, dman, lman, pointers, client, faults, hurt>>

ChunkStateWrite(p) ==
  /\ At(p, "chunk", "state")
  /\ kstate' = run[p].id
  /\ Report(p, IF kstate = run[p].id THEN "NO_OP" ELSE "SUCCESS", "none")
  /\ UNCHANGED <<files, config, stores, manifests, cstate, dstate, lstate, client, faults, hurt>>

(**************************** dense indexing *******************************)

(* child_jobs_from_chunk_set: one job per manifest entry and child, so a    *)
(* document ingested under two paths counts twice.                          *)
Jobs(id, out) == {j \in (Contents \ out) \X (1..Cardinality(Paths)) : j[2] <= id[j[1]]}
ChildJobs(id, out) == Cardinality(Jobs(id, out))
Eligible(id, out) == Documents(id) \ out

(* What every index stage checks before it looks at its own artifacts. *)
Precondition ==
  IF cstate = NoSources \/ kstate = NoCorpus \/ kstate # corpus_id(cstate)
  THEN "precondition"
  ELSE IF \E c \in Documents(kstate) : chunks[c] # "good" THEN "conflict" ELSE "none"

(* Mutant: any collection that is there will do. *)
CollectionThere(i) == coll[i].there

(* _validate_collection compares the number of points only. *)
CollectionOk(i) == coll[i].there /\ Cardinality(coll[i].points) = ChildJobs(i[1], HeadingOnly)

(* run_indexing: preconditions, the policy that excludes children, the      *)
(* vector store (one client), and the two shortcuts: nothing to do, or a    *)
(* complete index that only needs its pointer.                              *)
BeginIndex(p) ==
  /\ run[p].pc = "idle"
  /\ LET i == <<kstate, config>>
         r == [Idle EXCEPT !.stage = "index", !.id = kstate, !.cfg = config]
         stop(status, cause) == [Idle EXCEPT !.status = status, !.cause = cause]
     IN \/ /\ Precondition # "none"
           /\ run' = [run EXCEPT ![p] = stop("FAILED", Precondition)] /\ UNCHANGED client
        \/ /\ Precondition = "none" /\ ChildJobs(kstate, HeadingOnly) < 1
           /\ run' = [run EXCEPT ![p] = stop("FAILED", "empty")] /\ UNCHANGED client
        \/ /\ Precondition = "none" /\ ChildJobs(kstate, HeadingOnly) >= 1
           /\ client # "none"
           /\ run' = [run EXCEPT ![p] = stop("FAILED", "busy")] /\ UNCHANGED client
        \/ /\ Precondition = "none" /\ ChildJobs(kstate, HeadingOnly) >= 1
           /\ client = "none"
           /\ \/ /\ dstate = i /\ i \in dman /\ CollectionOk(i)
                 /\ run' = [run EXCEPT ![p] = stop("NO_OP", "none")] /\ UNCHANGED client
              \/ /\ dstate # i /\ i \in dman /\ CollectionOk(i)
                 /\ run' = [run EXCEPT ![p] = [r EXCEPT !.pc = "state"]] /\ client' = p
              \/ /\ ~(i \in dman /\ CollectionOk(i))
                 /\ run' = [run EXCEPT ![p] = [r EXCEPT !.pc = "embed",
                                                 !.todo = Eligible(kstate, HeadingOnly)]]
                 /\ client' = p
  /\ UNCHANGED <<files, config, stores, manifests, pointers, faults, hurt>>

EndIndex(p, status, cause) == Report(p, status, cause) /\ client' = "none"

(* _ensure_embeddings: a valid artifact is reused. *)
ReuseEmbedding(p, c) ==
  /\ At(p, "index", "embed") /\ c \in run[p].todo /\ embeds[<<c, run[p].cfg>>] = "good"
  /\ run' = [run EXCEPT ![p].todo = @ \ {c}]
  /\ UNCHANGED <<files, config, stores, manifests, pointers, client, faults, hurt>>

(* The others are encoded in batches and written.  A failing encoder, a     *)
(* cancellation between batches or a refused write ends the stage with the  *)
(* artifacts written so far in place.                                       *)
EncodeBatch(p, c) ==
  /\ At(p, "index", "embed") /\ c \in run[p].todo
  /\ LET e == <<c, run[p].cfg>>
     IN \/ /\ embeds[e] = "none"
           /\ embeds' = [embeds EXCEPT ![e] = "good"]
           /\ run' = [run EXCEPT ![p].todo = @ \ {c}]
           /\ UNCHANGED <<client, faults>>
        \/ /\ embeds[e] = "bad"
           /\ EndIndex(p, "FAILED", "conflict") /\ UNCHANGED <<embeds, faults>>
        \/ /\ embeds[e] # "good" /\ faults < MaxFaults /\ faults' = faults + 1
           /\ EndIndex(p, "FAILED", "io") /\ UNCHANGED embeds
  /\ UNCHANGED <<files, config, parsed, chunks, coll, ldir, manifests, pointers, hurt>>

(* An incomplete collection of an earlier run is deleted, never reused. *)
DeleteStale(i) == [coll EXCEPT ![i] = [there |-> FALSE, points |-> {}]]
ClearCollection(p) ==
  /\ At(p, "index", "embed") /\ run[p].todo = {}
  /\ LET i == <<run[p].id, run[p].cfg>>
     IN IF coll[i].there
        THEN coll' = DeleteStale(i) /\ Local(p, "create")
        ELSE UNCHANGED coll /\ Local(p, "create")
  /\ UNCHANGED <<files, config, parsed, chunks, embeds, ldir, manifests, pointers,
                 client, faults, hurt>>

CreateCollection(p) ==
  /\ At(p, "index", "create")
  /\ LET i == <<run[p].id, run[p].cfg>>
     IN IF coll[i].there
        THEN EndIndex(p, "FAILED", "exists") /\ UNCHANGED coll
        ELSE /\ coll' = [coll EXCEPT ![i].there = TRUE]
             /\ run' = [run EXCEPT ![p].pc = "upsert",
                                   ![p].todo = Eligible(run[p].id, HeadingOnly)]
             /\ UNCHANGED client
  /\ UNCHANGED <<files, config, parsed, chunks, embeds, ldir, manifests, pointers, faults, hurt>>

(* upsert sends batches; equal point identifiers overwrite each other. *)
Upsert(p, c) ==
  /\ At(p, "index", "upsert") /\ c \in run[p].todo
  /\ coll' = [coll EXCEPT ![<<run[p].id, run[p].cfg>>].points = @ \cup {c}]
  /\ run' = [run EXCEPT ![p].todo = @ \ {c}]
  /\ UNCHANGED <<files, config, parsed, chunks, embeds, ldir, manifests, pointers,
                 client, faults, hurt>>

(* The count is verified before the manifest exists; a short collection is *)
(* deleted again.                                                          *)
IndexManifest(p) ==
  /\ At(p, "index", "upsert") /\ run[p].todo = {}
  /\ LET i == <<run[p].id, run[p].cfg>>
     IN \/ /\ ~CollectionOk(i)
           /\ coll' = DeleteStale(i)
           /\ EndIndex(p, "FAILED", "count") /\ UNCHANGED <<dman, hurt>>
        \/ /\ CollectionOk(i)
           /\ dman' = dman \cup {i} /\ hurt' = [hurt EXCEPT !.index = @ \ {i}]
           /\ Local(p, "state") /\ UNCHANGED <<coll, client>>
  /\ UNCHANGED <<files, config, parsed, chunks, embeds, ldir, cman, kman, lman,
                 pointers, faults>>

(* _publish_index_state *)
IndexStateWrite(p) ==
  /\ At(p, "index", "state")
  /\ dstate' = <<run[p].id, run[p].cfg>>
  /\ EndIndex(p, "SUCCESS", "none")
  /\ UNCHANGED <<files, config, stores, manifests, cstate, kstate, lstate, faults, hurt>>

(*************************** lexical indexing ******************************)

(* analyze_and_classify leaves out the children without a term. *)
LexicalJobs(id) == ChildJobs(id, ZeroTerm)

(* A manifest whose counts reconcile, over a directory that validates. *)
LexicalComplete(id) == id \in lman /\ ldir[id] = "good"

(* run_lexical_indexing: the same two shortcuts over a directory that is    *)
(* validated as a whole.                                                    *)
BeginLexical(p) ==
  /\ run[p].pc = "idle"
  /\ LET r == [Idle EXCEPT !.stage = "lexical", !.id = kstate]
         stop(status, cause) == [Idle EXCEPT !.status = status, !.cause = cause]
     IN run' = [run EXCEPT ![p] =
          IF Precondition # "none" THEN stop("FAILED", Precondition)
          ELSE IF LexicalComplete(kstate) /\ lstate = kstate THEN stop("NO_OP", "none")
          ELSE IF LexicalComplete(kstate) THEN [r EXCEPT !.pc = "state"]
          ELSE IF LexicalJobs(kstate) < 1 THEN stop("FAILED", "empty")
          ELSE [r EXCEPT !.pc = "build"]]
  /\ UNCHANGED <<files, config, stores, manifests, pointers, client, faults, hurt>>

(* Mutant: a stale manifest is enough to write the pointer. *)
ManifestFirst(p) ==
  /\ At(p, "lexical", "build")
  /\ lman' = lman \cup {run[p].id} /\ Local(p, "state") /\ UNCHANGED ldir
  /\ UNCHANGED <<files, config, parsed, chunks, embeds, coll, cman, kman, dman,
                 pointers, client, faults, hurt>>

DistinctJobs(i) == LexicalJobs(i) = Cardinality(Eligible(i, ZeroTerm))

(* LocalInvertedIndexBackend.build looks first: an existing directory is    *)
(* validated and returned, or refused; one that misses a file counts as not *)
(* there.  Two inputs with one chunk identifier are refused.                *)
BuildLexical(p) ==
  /\ At(p, "lexical", "build")
  /\ LET i == run[p].id
     IN \/ ldir[i] = "good" /\ Local(p, "manifest")
        \/ ldir[i] = "bad" /\ Report(p, "FAILED", "conflict")
        \/ ldir[i] # "good" /\ ~DistinctJobs(i) /\ Report(p, "FAILED", "count")
        \/ ldir[i] # "good" /\ DistinctJobs(i) /\ Local(p, "place")
  /\ UNCHANGED <<files, config, stores, manifests, pointers, client, faults, hurt>>

(* The staged index is validated and renamed to its place, unless something *)
(* is there by now.                                                         *)
PlaceLexical(p) ==
  /\ At(p, "lexical", "place")
  /\ LET i == run[p].id
     IN \/ ldir[i] # "none" /\ Report(p, "FAILED", "destination") /\ UNCHANGED ldir
        \/ ldir[i] = "none" /\ ldir' = [ldir EXCEPT ![i] = "good"] /\ Local(p, "manifest")
  /\ UNCHANGED <<files, config, parsed, chunks, embeds, coll, manifests, pointers,
                 client, faults, hurt>>

(* The built index is validated and its membership compared before the *)
(* manifest is written.                                                 *)
LexicalManifest(p) ==
  /\ At(p, "lexical", "manifest")
  /\ LET i == run[p].id
     IN \/ ldir[i] = "good" /\ lman' = lman \cup {i} /\ Local(p, "state")
        \/ ldir[i] # "good" /\ Report(p, "FAILED", "conflict") /\ UNCHANGED lman
  /\ UNCHANGED <<files, config, stores, cman, kman, dman, pointers, client, faults, hurt>>

LexicalStateWrite(p) ==
  /\ At(p, "lexical", "state")
  /\ lstate' = run[p].id
  /\ Report(p, "SUCCESS", "none")
  /\ UNCHANGED <<files, config, stores, manifests, cstate, kstate, dstate, client, faults, hurt>>

(******************************* faults ************************************)

(* A process dies between two writes; the vector store lock dies with it. *)
PipeCrash(p) ==
  /\ run[p].pc # "idle" /\ faults < MaxFaults /\ faults' = faults + 1
  /\ run' = [run EXCEPT ![p] = Idle]
  /\ client' = IF client = p THEN "none" ELSE client
  /\ UNCHANGED <<files, config, stores, manifests, pointers, hurt>>

(* An artifact, a lexical directory or a collection rots on disk. *)
Damage ==
  /\ faults < MaxFaults /\ faults' = faults + 1
  /\ \/ \E c \in Contents : /\ parsed[c] = "good" /\ parsed' = [parsed EXCEPT ![c] = "bad"]
                            /\ hurt' = [hurt EXCEPT !.artifact = TRUE]
                            /\ UNCHANGED <<chunks, embeds, coll, ldir>>
     \/ \E c \in Contents : /\ chunks[c] = "good" /\ chunks' = [chunks EXCEPT ![c] = "bad"]
                            /\ hurt' = [hurt EXCEPT !.artifact = TRUE]
                            /\ UNCHANGED <<parsed, embeds, coll, ldir>>
     \/ \E e \in DOMAIN embeds : /\ embeds[e] = "good" /\ embeds' = [embeds EXCEPT ![e] = "bad"]
                                 /\ hurt' = [hurt EXCEPT !.artifact = TRUE]
                                 /\ UNCHANGED <<parsed, chunks, coll, ldir>>
     \/ \E i \in CorpusIds : /\ ldir[i] = "good" /\ ldir' = [ldir EXCEPT ![i] = "bad"]
                             /\ hurt' = [hurt EXCEPT !.artifact = TRUE]
                             /\ UNCHANGED <<parsed, chunks, embeds, coll>>
     \/ \E i \in Indexes, c \in Contents :
          /\ client = "none" /\ i \in dman /\ c \in coll[i].points
          /\ coll' = [coll EXCEPT ![i].points = @ \ {c}]
          /\ hurt' = [hurt EXCEPT !.index = @ \cup {i}] /\ UNCHANGED <<parsed, chunks, embeds, ldir>>
  /\ UNCHANGED <<files, config, manifests, pointers, client, run>>

(* The user edits the folder, or the configuration. *)
UserEdits ==
  /\ faults < MaxFaults /\ faults' = faults + 1
  /\ \/ files' \in Sources \ {files} /\ UNCHANGED config
     \/ config' \in Configs \ {config} /\ UNCHANGED files
  /\ UNCHANGED <<stores, manifests, pointers, client, run, hurt>>

StageStep(p) ==
  \/ \E q \in Paths : IngestSource(p, q)
  \/ IngestManifest(p) \/ WriteManifest(p) \/ IngestState(p)
  \/ \E c \in Contents : ChunkOneDocument(p, c) \/ ReuseEmbedding(p, c) \/ EncodeBatch(p, c) \/ Upsert(p, c)
  \/ ChunkManifest(p) \/ ChunkStateWrite(p)
  \/ ClearCollection(p) \/ CreateCollection(p) \/ IndexManifest(p) \/ IndexStateWrite(p)
  \/ BuildLexical(p) \/ PlaceLexical(p) \/ LexicalManifest(p) \/ LexicalStateWrite(p)
PipeNext ==
  \/ \E p \in Procs : \/ BeginIngest(p) \/ BeginChunk(p) \/ BeginIndex(p) \/ BeginLexical(p)
                      \/ StageStep(p) \/ PipeCrash(p)
  \/ Damage \/ UserEdits

PipeSpec == PipeInit /\ [][PipeNext]_pipeVars

(****************************** properties *********************************)

(* The stores, pointers and local variables of the stages have their types. *)
PipeTypeOK ==
  /\ files \in Sources /\ config \in Configs
  /\ parsed \in [Contents -> Quality] /\ chunks \in [Contents -> Quality]
  /\ embeds \in [Contents \X Configs -> Quality] /\ ldir \in [CorpusIds -> Quality]
  /\ coll \in [Indexes -> [there : BOOLEAN, points : SUBSET Contents]]
  /\ cman \subseteq Sources /\ kman \subseteq CorpusIds /\ dman \subseteq Indexes
  /\ lman \subseteq CorpusIds
  /\ cstate \in Sources /\ kstate \in CorpusIds /\ dstate \in Indexes /\ lstate \in CorpusIds
  /\ client \in Procs \cup {"none"} /\ faults \in 0..MaxFaults
  /\ \A p \in Procs : run[p].stage \in {"none", "ingest", "chunk", "index", "lexical"}

(* A pointer names artifacts that are all there: whatever a process was     *)
(* killed between, the corpus pointer names parsed documents, the chunk     *)
(* pointer chunked ones and the two index pointers complete indexes over    *)
(* exactly the searchable children, unless that artifact rotted afterwards. *)
(* The manifest of the active corpus lists the documents under the paths of *)
(* the pointer, unless an overlapping run has written other paths over it.  *)
HasManifest(s) == /\ OfSameCorpus(s) # {}
                  /\ s \in cman \/ corpus_id(s) \in hurt.rewritten
PointersResolve ==
  /\ cstate # NoSources =>
       /\ HasManifest(cstate)
       /\ \A c \in Documents(corpus_id(cstate)) : parsed[c] # "none"
  /\ kstate # NoCorpus =>
       kstate \in kman /\ \A c \in Documents(kstate) : chunks[c] # "none"
  /\ dstate # NoIndex =>
       /\ dstate \in dman
       /\ dstate \notin hurt.index =>
            /\ coll[dstate].there
            /\ coll[dstate].points = Eligible(dstate[1], HeadingOnly)
            /\ Cardinality(coll[dstate].points) = ChildJobs(dstate[1], HeadingOnly)
  /\ lstate # NoCorpus => lstate \in lman /\ ldir[lstate] # "none"

(* What a killed run leaves behind never blocks the next one: a stage fails *)
(* over a conflicting artifact only when one was damaged, over its child    *)
(* count only when one document was ingested under two paths, over a corpus *)
(* manifest only when the same documents were ingested under other paths,   *)
(* over the place of its lexical index only when that index has been built  *)
(* meanwhile or was damaged, and never because a collection is there.       *)
FailuresHaveCauses ==
  \A p \in Procs : run[p].status = "FAILED" =>
    /\ run[p].cause # "exists"
    /\ run[p].cause = "conflict" => hurt.artifact
    /\ run[p].cause = "count" => \E c \in Contents : run[p].id[c] > 1
    /\ run[p].cause = "manifest" => \/ OfSameCorpus(run[p].src) \ {run[p].src} # {}
                                    \/ corpus_id(run[p].src) \in hurt.rewritten
    /\ run[p].cause = "destination" => ldir[run[p].id] # "none"

(* An index that is reported current finds every active document, exactly   *)
(* once, even when the stages that built it overlapped in time: the dense   *)
(* one all but heading-only children, the lexical one all but children      *)
(* without a term.                                                          *)
DenseStatus == IF dstate = NoIndex THEN "NOT_INDEXED"
               ELSE IF kstate # corpus_id(cstate) THEN "CHUNKS_STALE"
               ELSE IF dstate[1] # kstate THEN "INDEX_STALE"
               ELSE IF dstate[2] # config THEN "INDEX_CONFIG_STALE" ELSE "CURRENT"
LexicalStatus == IF lstate = NoCorpus THEN "NOT_INDEXED"
                 ELSE IF kstate # corpus_id(cstate) THEN "CHUNKS_STALE"
                 ELSE IF lstate # kstate THEN "INDEX_STALE" ELSE "CURRENT"
CurrentStackAnswers ==
  \A q \in Paths : cstate[q] \in Contents =>
    /\ DenseStatus = "CURRENT" /\ dstate \notin hurt.index =>
         cstate[q] \in coll[dstate].points \cup HeadingOnly
    /\ LexicalStatus = "CURRENT" => lstate[cstate[q]] = 1 \/ cstate[q] \in ZeroTerm

(* Whatever runs of the four stages overlap, fail or die: the pointers lead *)
(* to complete artifacts, an index reported current answers for exactly the *)
(* active documents, and the next run is not blocked by what is left over.  *)
CorpusIsUsable ==
  PipeTypeOK /\ PointersResolve /\ FailuresHaveCauses /\ CurrentStackAnswers
=============================================================================
