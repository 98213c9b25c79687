# OfflineRAG: a verification project

OfflineRAG is an offline retrieval-augmented question answering product. It
ingests documents into immutable, content-addressed artifacts, answers questions
with citations against the published snapshot, lets users manage *workspaces* of
sources over HTTP, and carries the laboratory that grades it: gold authoring,
evaluations, performance and memory campaigns. This directory holds TLA+ models
of those parts, the TLC configurations that check them on small instances, and
TLAPS proofs about the parts where a wrong step loses a user's data.

Paths below are relative to `src/src/offline_rag/` unless they begin with
`docs/`, `tests/` or `scripts/` (these are relative to `src/`). `PROJECT.json`
maps every definition to the lines it models, lists the hazards at their lines
with the properties aimed at them, and names a mutant for each property.

## 1. Inventory

| Part | State | Operations | Talks to |
| --- | --- | --- | --- |
| Operation registry `app/operations.py`, `app/capacity.py` | live handles, drain flag, a counter per capacity class | admit, release, signal shutdown, wait until idle | routes, workers, runtime |
| Operation handle `app/operations.py` | cancel reason, deadline, ingest life cycle | signal_cancel, checkpoint, complete_lease_acquire, enter_publication | worker, disconnect watcher, drain |
| Application runtime `app/runtime.py` | state, shared resources | start, begin_drain, finalize_shutdown | ASGI lifespan |
| Corpus lease `app/leases.py` | file lock per corpus | acquire without waiting, release | ingest, mutations, recovery |
| Workspace lifecycle `app/workspace/lifecycle.py` | none of its own | create, patch, delete, add / replace / remove sources | every record below |
| Publication and its journals `app/publication.py`, `publication_journal.py`, `journal.py`, `retirement.py`, `history.py` | manifests, pointer, marker, two journals, source versions | begin, observe, commit, lineage, drop, recover | queries read the pointer |
| Sync journal `sync_journal.py`, create index `create_idempotency.py` | intent with frozen receipt; reservation per key | begin, mark, reconcile; reserve | patch, delete and create requests |
| Managed operations `mutation_ops.py` | record, locator and key per operation | reserve, freeze, update, interrupt at startup | clients poll it, workers move it |
| Uploads and vault `app/ingest_upload.py`, `app/workspace/upload_spool.py`, vault | staging directories, objects with metadata | stream, refuse, promote, quarantine | requests, worker |
| Observability `app/observability_publish.py`, `progress_publish.py` | projection in memory, metrics, worklist, progress | best-effort writes | stages, operation record |
| Query serving `app/query.py`, `query_runtime.py`, `traces.py`, `app/conversation` | reference-counted runtimes, bounded trace stores | bind, borrow, answer, trace, prune, close | publication, registry |
| Answer pipeline `hybrid/`, `rerank/`, `context/`, `recovery/`, `generation/` | per question | retrieve, fuse, rerank, expand, recover once, generate, cite | indexes and models (external) |
| Batch stages `ingestion/`, `chunking/`, `dense/pipeline.py`, `lexical/` | artifacts, manifests and one pointer per stage | the four stages | each other through the pointers |
| Product settings `app/product_settings.py`, `config/loader.py`, `api/settings.py` | one file between YAML and environment | save, keep or clear key, probe, load | the next start |
| Gold Lab `app/gold_lab/` | review ledger, catalog, datasets, campaigns, bootstrap | review, export, register, Quick Play, bootstrap | workspaces, registry |
| Gold authoring `gold_authoring/` | run file, dataset directory | propose, pool, prelabel, review, finalize | a human reviewer |
| Embedding `dense/embedding_bundle_provision.py`, `embedding_runtime.py` | instances, bundle manifest; one lazy model | provision, restore; load, embed, close | processes sharing a model root |
| Evaluations `evaluation/` | result directories | measure, capture, analyse, compare | live index, Gold |
| Campaigns `dense/d2_*`, `dense/cpu_*`, `scripts/diag_16k_*` | histories, ledgers, manifests | plan, run a cell, assess, accept | subprocesses, the HTTP interface |

What is hard in it: a request thread, its worker, the client's disconnect, the
deadline and the drain all act on one handle; a workspace mutation changes five
files and has to look atomic after a crash between any two writes, after a fault
in a write, and after a fault in the handler of that fault; clients repeat
requests; batch stages of several processes share directories without a lock;
the index moves under a question or an evaluation; a human edits a file that a
job will overwrite minutes later; campaigns are killed and resumed from the
evidence alone.

## 2. Modules

### The process and the workspace

`OperationRegistry` is the process: request slots of four kinds (query,
synchronous ingest, detached managed mutation, Gold Lab bootstrap), the gates,
the handles, the corpus lease, the runtime. Each critical section of the code is
one action; what the code does outside a lock is split: `CheckReady` and `Admit`
are two steps, `BeginDrain` takes the snapshot and `SignalShutdown` signals one
handle at a time, `FinalizeCheck` reads the count and `FinalizeClose` closes.
The stages of an ingest are one step that may fail or abort at a checkpoint. A
slot is reused after its release with a fresh handle. All corpora are one, so
that the lease is contended.

`WorkspaceMutation` is the scientific mutation of one workspace. Every action is
one durable write of the code, in the code's order, so that `Crash` and the fault
actions fall between any two. The workspace lease has one holder for a whole
mutation, so there is one `pc`, with `mode` telling apart a worker, the failure
handler inside the corpus lease (`inner`), the one around it (`outer`) and the
startup. The way to B (`finish`) is shared by the worker and both recoveries, as
in the code. Snapshot ids are content hashes, hence `WriteManifest` may produce an
id that exists already, even the current one. `ws.effects` is a history field:
the operations whose mutation a record contains, rolled back with the record.
`mode`, `pc` and `built` are memory and lost in a crash; the rest is on disk. A
workspace may predate the source history (`Legacy1`).

`AtomicWorkspace` is the promise: record and publication change in one step,
success only after it, abandonment only without it. `WorkspaceMutation`
implements it (`ImplementsAtomic`) under the mapping `Served`, which reads the
publication as what recovery would make current: the target once
`workspace.json` claims the mutation, the prior publication before.

`SyncMutation` is patch and delete with the frozen receipt. A scientific mutation
is one step here and does not look at the sync journal, as in the code. `writer`
stands for the fields a patch writes, so that record equality is what
`workspace_matches_expected_result` compares. `applied` counts the writes of an
operation (history).

`CreateIdempotency` is creation under one key: threads, the exclusive open, the
separate write, the lease of the reserved id.

`ManagedOperations` is a source mutation as its client sees it: spool, three
writes of the reservation, frozen worklist, admission, 202, the detached worker
with its plan, vault and publication (one step; `WorkspaceMutation` opens it).
The route is a coroutine that takes the lease blockingly, so the event loop is a
resource of the model. `UploadSpool` opens the upload: the client decides the
parts as it goes, limits are tested chunk by chunk, vault objects are written
before their metadata, the next process quarantines abandoned spools.
`OperationObservability` is what the record of a running operation shows, with
lost writes and late events.

### Questions and corpus

`QueryServing` binds a snapshot, borrows its runtime, answers and leaves a trace,
while workspaces are mutated and the cache closes. `AnswerPipeline` is one
grounded question: a `product` question has frozen index identifiers and a scope,
a `cli` question reads the current pointers one after the other and may recover
once. It composes `ContextAssembly`, the pure algorithms (reciprocal rank fusion,
reranker sort, expansion under a budget, clip around the anchor), which are
compared with reference definitions. Index backends, reranker, rewriter and
generator are external: they return any value of their type, or fail.

`IngestPipeline` is the four batch stages in processes that share stores, one
action per write; where a stage looks before it writes (the corpus manifest, the
lexical index), the look is an action of its own. `StructureChunking` is the chunker over texts of sized words: every
one of its loops is the same greedy `Cut`, each with its own conditions for starting,
closing and isolating a piece. It is checked on every document of up to three blocks.
`Totals` is the running sum that uploads and chunks are counted with.
`ProductSettings` is one group of user settings: overlapping saves, probe, load
under any environment.

### The laboratory

`GoldLedger` and `GoldSetup` are the Gold Lab: the review ledger with its
catalog, fold and export; Quick Play, bootstrap and campaigns. `GoldAuthoring` is
the run file shared by jobs and the review server, and finalize's directory swap.
`EmbeddingProvision` is the provisioning transaction, `EmbeddingRuntime` the
embedder of a process over it. `PerformanceRuns`, `RecoveryEvaluation`,
`SufficiencyEvidence` and `GenerationEvaluation` are the offline measurements;
`DenseCampaign`, `CpuQualification`, `MemoryCampaign` and `CorpusAcceptance` the
campaigns. What a model, a screen or a process measures is an outcome chosen from
a small set; the control around it (what may run next, what is written in which
order, what a killed run leaves) is the code's. `DenseCampaign` has one executor and
one assessor, whose rewrites of the history may drop each other's entries; its
variable `done` remembers what was written and is gone. In `CpuQualification` the
hash of a tree or of the server binary and its copy or launch are two actions, and
results carry, beside what they record, what was really copied and launched.

### Instances and proofs

The `MC*` modules give the constants small values. Where one run checks several
modules, a variable `part` is chosen at the start and says which of them the
behaviour is about: they share no state, so the union of their behaviours says
what separate runs would say. `MCOperationRegistry` chooses a `roster` of request
slots in the same way. `OperationRegistryProofs`, `WorkspaceMutationProofs`,
`WorkspaceProofs`, `ServingProofs`, `AnswerProofs`, `GoldLabProofs`, `IngestProofs`
and `WorkshopProofs` hold the theorems (section 4).

Most properties of a run are conjunctions of named parts, each stated and
commented where its component is modelled: `AdmissionIsExact` is the type
invariant, `OneRunPerKey`, `IndexNeverDangles` and `WorkersAreAdmitted`;
`OutcomesHold` what a success and a failure promise; and so on. The mutant of a
conjunction breaks one of its parts.

Operators whose comment begins with "Mutant" are plausible errors in a definition
that follows them; each property is violated when its mutant takes the place of
the definition, which shows that the property depends on that code.

## 3. Runs

| Run | Question | Bounds |
| --- | --- | --- |
| `registry` | capacity, cancellation, corpus lease, drain with restarts | rosters of one query, ingest and managed mutation; a managed mutation and a bootstrap; two queries. Two slots of the ingest class, one of the others |
| `mutation` | do the five files agree after anything, and is a mutation one step | 2 operations, 2 sources, 2 snapshots, 2 versions, 3 revisions, 2 crashes, 1 fault |
| `mutation_unreadable` | does startup end when a record cannot be read | 2 crashes, 1 unreadable record |
| `rollback_of_success` | is a reported success durable then (it is not) | 1 crash, 1 unreadable record |
| `workspace` | sync mutations at most once with true outcomes; one workspace per key; managed mutations from upload to vault | sync: 2 patches, 1 delete, 3 revisions, 2 crashes, 2 faults. create: 2 threads, 3 ids, 2 titles, 1 crash, 1 fault. managed: 2 requests, 2 keys, 2 documents, 2 operation ids, 1 ingest slot, ceilings of 1 source and 2 bytes, 1 patch, 1 crash, 1 fault |
| `ingest` | do pointers resolve and does no debris block the next run; chunker; operation record; uploads | 2 processes, 2 paths, 3 contents, 2 configurations, 1 fault; documents of 3 blocks; 2 documents, 1 lost write; 2 uploads of up to 3 parts |
| `answer` | evidence, recovery record and citations of one question | 5 children under 4 parents in 3 documents, 2 corpus generations, budgets 4 and 9, 4 strategies |
| `serving` | runtimes, traces and revisions under mutation; settings | 2 queries over 3 revisions from the empty one, 1 retained trace; 2 clients, 5 environments, 6 requests |
| `goldlab` | ledger, catalog and export; Quick Play and bootstrap | 2 campaigns, 2 cases, 2 reviewers, 2 keys; 2 players, 2 bootstrap keys, 2 snapshots, 1 crash |
| `workshop` | authoring jobs against a human; provisioning; embedder; performance campaigns | 2 drafts, 3 jobs, 3 edits; 2 writers, 2 instances, 2 faults; 2 callers, 20 texts, ladder 8, 4; 2 queries, 1 measured round |
| `evaluation` | are recovery, sufficiency and generation measured once, on one stack | 2 runs, 2 cases, 1 move of the index; 3 cases, 3 artifacts, 2 events; 2 cases, 3 settings, 2 events |
| `campaigns` | what a campaign may select, after any order of outcomes, deaths and edits | dense history with one invalid cell and one dropped; ladders with 2 edits and 3 aborts; memory with 2 backends and 1 trouble; corpus of 5 paths, 2 outputs, 2 cells, 2 events |

Why the bounds are enough for the interesting cases. Two mutations of one class
compete for the lease and a second query meets a full gate. Two operations
suffice for one to meet the retained journal of the other; two crashes put one
inside the recovery from the other; two faults put one inside the handler of the
other; two snapshots allow a new and a recurring id; two sources allow a
non-final and a final removal; three revisions allow a mutation, a patch and a
further attempt. Two requests, keys and operation ids give a retry with the same
key, a second operation that finds the lease busy or the slot taken, and an
orphan of a reservation that died. Two processes overlap in every stage. Three
blocks are the fewest with which a merge, a split and a carried heading meet. A
trace store that retains one trace is at its limit with the second question.
Bounds called Max... cap a counter in a guard; none is a constant of the code.
Constants written as in the code (`max_files_per_ingest`, `HARD_NEGATIVE_N`, ...)
are limits of the code with small values.

Symmetry is used for interchangeable model values (processes, paths, uploads,
clients, keys, jobs, runs) and only in runs whose temporal properties are action
properties. `CHECK_DEADLOCK FALSE` stands where the system may really stop: every
client has its answer and no bound allows another event.

Fairness. Worker threads and the drain's thread run: `WF` of the steps of each
worker and of the drain in `OperationRegistry`, of each request's, each worker's
and the startup's steps in `ManagedOperations`. The one holder of the workspace
lease and the startup go on: `WF(Step)` in `WorkspaceMutation` and
`SyncMutation`. This is what threads of an operating system give. Requests, clients, patches, crashes, faults and restarts owe nothing. A
stage that fails ends its worker like one that finishes, so `DrainCompletes`
assumes that no stage hangs for ever, which the unbounded `wait_until_idle(None)`
assumes too. `StartupTerminates` and the two parts of `WaitsEnd`,
`LeaseIsReturned` and `LoopIsFreed`, let a crash cut them short.

### Where the code and what is said of it disagree

`rollback_of_success` ends in a counterexample: recovery that cannot read
`workspace.json` takes the way to A whatever the phase of the journal
(`publication_journal.py:539`, `journal.py:456-467`) and takes back a mutation
reported SUCCEEDED, while the docstring says "If it committed, finish forward to
B". This is why the theorems about recovery have the hypothesis that every record
could be read.

The following were met while modelling. The model has the behaviour; the
definition named, where there is one, states what does not hold. No run checks
it.

- `AdmittedWorkIsOwned`: the worker's lease does not wait and may be refused
  before the record is touched; the accepted operation stays PENDING without a
  worker (`lifecycle.py:1134`; the slice 16B document, contract 12: "no durable
  queue; admitted work starts immediately").
- `StartupConverges`: a sync journal left by a fault and followed by a publication
  is placed by no later startup (`sync_journal.py:311`).
- `CallerReturnsSuccess`: a request reconciles another request's journal to B and
  has no receipt of its own to answer with (`lifecycle.py:382`).
- `ReservationIsReadable`: the reservation file exists before it has its content; a
  crash in between leaves the key unusable (`create_idempotency.py:119`).
- `DeckIsOfItsIdentity`: a deck can be built from a snapshot published after its
  identity was derived (`quick_play.py:256`; `docs/beta_game_01_quick_play.md:21`).
- `FinishedRootIsKept`: an evaluation that finds the directory of its identity
  fails, and its failure handler writes manifest and report into that directory
  (`measure_once.py:536`).
- `LocalWithinTotal`: the total of a local ingest grows when a file is complete
  while the limit is tested chunk by chunk (`app/ingest_upload.py:554`;
  `docs/slice15_developer_api_packaging.md:590`).
- `BaselineStays`: a CPU reference that completes late changes the baseline of
  cells accepted before; `BaselineStaysWithReference` is what holds.
- An assessment that overlaps the append of a cell drops its entry, the planner asks
  for the cell again, and an eighth valid run is executed (`d2_execution.py:539-542`,
  `589-604`; `docs/slice16k_d_d2_practical_execution_optimization_design.md:179`: "no
  discretionary eighth run", again at 319 and 516). An append can drop a failed
  assessment in the same way, after which G2 can be selected. `DenseIsJustified` states
  what is left: a cell runs again only when its entry was dropped, and a selection
  follows a failed assessment only when that was.
- The launch of llama-server: the binary is hashed, then the model file, then the
  binary is run (`cpu_gguf_server.py:274-310`; line 9: "pin
  expected_llama_server_sha256 before launch"). A binary installed in between is run
  and measured under the pinned hash, and stage 0 can pin one that it did not run.
  `OneServerBinary` excepts that window and no other.
- Two ingests of the same contents under different paths that overlap both find no
  manifest of their corpus; the later replaces the manifest of the earlier, where one
  after the other the second is refused as a conflict (`ingestion/persistence.py:75-87`).
  Two overlapping builds of one lexical index end with one of them FAILED, where one
  after the other the second uses what the first built
  (`lexical/backend.py:160`, `240`). `CorpusIsUsable` allows both by name.
- A second fault, in the failure handler, leaves a FAILED operation whose mutation
  the next startup completes to B ("failed mutation leaves prior published
  snapshot", `docs/slice15_developer_api_packaging.md:101`): `FailedLeftNoTrace`
  and the refinement are claimed for one fault.

Smaller observations, by part:

- Ingest: damaged parsed, chunk or embedding artifacts and lexical directories are
  never repaired, a damaged dense collection is; "indexed" is reported before the
  manifest is written; two CLI ingests can lose an update.
- Questions: the structure store of a CLI question is loaded after its retrieval.
- Settings: a selection locked by the approval list alone is dropped on save while
  the pending view announces it (`api/settings.py:60-75`); with a file and an
  environment that disagree on the base URL the probe of the environment's is
  refused until it is saved disabled.
- Gold Lab: a bootstrap that fails between reservation and authority leaves a
  PENDING operation and GOLD_BUSY until the restart; a second export after
  progress of the ledger fails with a registration conflict.
- Authoring: the copies that pool and prelabel write replace reviews saved in the
  meantime (`docs/slice9e_human_review.md`).
- Embedding: a release during a call in flight reloads the model after CLOSED
  (`embedding_runtime.py:295`); with two document callers the batch size is not
  monotone.
- Performance: percentile arguments 0.50 and 0.95 are passed to a function over
  [0, 100] (`evidence_14c.py:322`); an error of close() leaves a directory without
  a manifest.
- Memory campaign: a killed process leaves its slot CLAIMED.
- Uploads: a CLI ingest refused before the lease leaves its staging, product
  staging is never quarantined, committed vault objects can be orphaned, an
  unfinished last part of a body is left out silently.
- Evaluation: a first case that fails after its lineage was admitted fixes the
  lineage; the judge's availability is not compared; `--output` is overwritten, as
  is the output of the harness's `compare`.

## 4. Proofs

The theorems hold for every value of the constants under the named assumptions
in the modules that declare them (finite sets of slots, positive capacities,
model values for "none" that are not members of the sets beside them). The
bounds Max... are arbitrary naturals there, so a theorem speaks of any number of
crashes, faults and retries. Every invariant below was model-checked on its run
before it was proved, and none is inductive by itself.

**`OperationRegistryProofs`**: `TypeOK`, `CapacityExact`,
`PublicationIsUncancelled`, `NothingEscapesDrain`, `ResourcesUnderWork` and
`LeaseOwnerWorks` are invariants of `Spec`. The argument is layered.

1. `Shape`: the type invariant with gate counts in `Int`; that a count is not
   negative needs the counting argument first.
2. `HandleInv`: a slot is registered exactly between admission and release, an
   unregistered slot has no cancel pending, a mutation is `PRE_LEASE` until its
   candidate begins and `POST_LEASE` while it stages. Without it a stale handle
   could enter publication with a reason set.
3. `LeaseInv`: only mutations hold the lease, and only while they work.
4. `DrainInv`: the drain's position fixes the drain flag, the runtime state and
   the resources; nothing is live when the resources are about to close; every
   live handle outside the rest of the snapshot has accepted a cancel or is
   publishing. It carries `NothingEscapesDrain` through the signalling loop and
   `ResourcesUnderWork` through a restart.
5. `CapacityExact` by cardinality: `Admit` adds one element to one class,
   `Release` removes one, every other step leaves both sides alone.

**`WorkspaceMutationProofs`**: the inductive invariant has two layers. `Frame`
holds whatever fails or cannot be read: which step belongs to which mode, which
journal is open there and for whom, that journals are never both open, that every
snapshot named anywhere has its manifest. It gives `MutationTypes`,
`NothingDangles` and `TerminalStaysFinal` without further hypothesis. `Sound`
holds while every record could be read (`unreadable = 0`): with a journal open,
the workspace record is exactly the prior one (A) or exactly the committed one
(B), and the pivot between them is one write. On side A pointer and marker are
what the steps so far made of them and the history is the prior one; on side B
they are the target, and the history lies between prior and target. Which side it
is can be read from the disk alone (`EvidenceIsRight`), which is what makes a
recovery after any crash take the right way, a crash inside a recovery included.
From it follow `WorkspaceAgrees`, `CommittedServed`, `HistoryAgrees`,
`SuccessIsDurable`, `FailureLeavesNoTrace` and `RevisionTells`, and together, as
the run checks them, `RecordsHold` and `OutcomesStand`. The hypothesis
cannot be dropped: `rollback_of_success` is the counterexample; `UnreadableGrows`
shows that it speaks of the whole past. `MutationIsAtomic` is the refinement: with at most
one fault every step of `WorkspaceMutation` is a step of `AtomicWorkspace` or a
stutter under `Served`: the pivot write is `Commit`, the write back to A after it
cannot happen, and success and abandonment are recorded on the right side of it.

**`WorkspaceProofs`**, three protocols that share no state; `WorkspaceApiHolds` puts
them together for the specification that the run checks.

`SyncMutation`: `SyncTypes`, `AppliedOnce`, `OutcomesAreTrue` and
`AppliedRemembered`, together `SyncIsRecorded`. The invariant says what the disk proves about an open
journal: the record before it (A) means the operation was never applied, the
record it announced (B) that it was applied once; revisions only grow, so a record
that is neither cannot become either again, and an operation's outcome is
recorded only after one of the two was seen.

`CreateIdempotency`: `CreateTypes`, `OneWorkspace`, `AnswersExist` and
`AnswersAgree`, together `CreateHolds`. The invariant says that a readable reservation never changes
(`Settled`), that every thread past the reservation works for the id in it, and
that who is about to create holds the lease of that id (`Holding`).

`ManagedOperations`: `AdmissionHolds`, `BytesHold` and `TerminalHolds`,
from `ManagedInvariant`. What the properties say of keys, workers and bytes is not
inductive: that a key is begun once depends on who may write which index when. The
invariant adds, for every request, that it has the lease from the lookup of its
key to its end and that its reservation is an untouched PENDING operation of its
key and envelope with exactly the writes made that its step implies (`Reserved`);
for every worker, that the status of its operation tells how far it has come and
that it has the lease from its acquisition to its end (`Working`); that only
frozen, indexed operations are launched (`Known`); and that requests and workers
live in a serving process (`Asking`), which is why a restart finds nobody to
disturb. As request and worker hold the one lease against each other, a repair
never meets a launched operation: a launched one is frozen. The assumption
(`ManagedAssumption`) keeps requests and operation ids apart as owners of the
lease and `Nobody` out of the sets beside it. The counting bounds play no part;
nor does capacity, which only decides between two ways of ending.

**`ServingProofs`**: `ServeHolds` (`QuestionsAreServed`: `BorrowedIsOpen`,
`IdleIsLatest`, `AnswerIsOfOneRevision`, what traces tell and what retention keeps)
and `BoundHolds`, from `ServeInvariant`. `Placed` says for each step what the
question knows by then: its snapshot is the one of the revision it read, nothing is
cited before the answer, and the rows of an answer name the one selected source of
each cited document. `Told` says which traces a question at that step has left.
That a borrowed runtime is open is a matter of counting: the count of an entry is
the number of its borrowers, so `acquire` adds one question to a finite set and
`release` removes one, and pruning an entry whose count is 0 takes it from nobody.
`Stored` is what makes overlapping retention passes harmless. A pass deletes by a
listing that is stale when it unlinks; but a trace that is `Outdated` (too old, or
with as many newer ones written as the store retains) stays so, since time and the
set of traces ever written only grow. So everything gone, or on a list to go, is
outdated, the newest are in no list, and a store beyond its bound is under a pass
that brings it back, unless an unlink failed. `BoundHolds` follows because only
`Recheck` moves a workspace query from its scope to its binding, and a step of one
question leaves the others alone. `ServeAssumption` says that an active record has
a snapshot, which the validator of `WorkspaceRecord` enforces, and that the set of
questions and of sources is finite.

Of the settings: `SettingsHold` (`SettingsAreSound`) and `SavesRespect` (the two
action properties), from `SettingsInvariant`. A save reads, tests and writes in three
steps while others do the same, so the invariant says what a request holds between
them: that the tests of a request in flight have passed on what it is going to write
(a key that belongs with its address, no field the environment locks), and that every
version of the file was written by such a request. `ServingIsTimely` puts both halves
together, as the run does (`DecidedWhileCurrent`).

**`AnswerProofs`**: `EvidenceHolds` (`EvidenceIsSound`) and `AnswerHolds`
(`AnswerIsSound`), from `AnswerInvariant`. Half of it is about algorithms, for inputs
of any size. Their loops are recursive functions over the naturals or over finite
sets; the library's induction theorems cannot be instantiated here, so the module
proves the few instances it needs once, for sets: `InductionUpTo` (a set that holds 0
and is closed under the successor holds every natural up to a bound), `Iteration` and
`Recurrence` (such a function exists and obeys its equations). From them:

1. The budget. The tokens of a context are those of its blocks and separators
   (`TokensCount`); clipping a parent around its anchor keeps the anchor and fills
   what the budget leaves (`ClipFills`); every path through the expansion of an anchor
   keeps a context within the budget, each chunk once and no child after its whole
   parent, with an excerpt only at the end of a full context (`ExpandKeeps`).
2. The order. An insertion sort by a total order exists and is a permutation
   (`SortExists`, `SortIsComplete`). A chunk that one branch ranks above
   another, and neither below, has the larger reciprocal-rank sum (`BeatsAbove`), so
   it comes first wherever the fused list is cut (`FusionRespects`); the sums are
   compared as fractions by cross products.
3. The citations. References are numbered 1..n in the order of their first sighting
   (`NumberedByFirst`); the projected answer cites evidence of its context only, each
   number is used (`ProjectIsCited`).

The other half is the pipeline, one lemma per step. `EvidenceInv` says that the context
under construction was made by those algorithms from the pool that this attempt fused;
`StackInv` which generation each part of the stack is of, `RecoveryInv` how far the one
retry has come, `ResultInv` that an answer is the projection of that context.
Retrieval, reranker, rewriter and generator stay arbitrary. `StructureAssumption` says
what the chunker makes: a child's text lies within its parent's, a child has a
document and a parent, its neighbours are children or none. `AnswerAssumption` says
that a generation is a set of such chunks and that the bounds are naturals.

**`GoldLabProofs`**: `SetupHolds` (`SetupIsSound`), `DecksAreCurrent` and
`SuccessIsUndrifted`, from `SetupInvariant`. That recovery never meets a conflict is
not inductive: a baseline under the number of an operation must be that operation's.
The number counts the operations reserved before, so it is new when it is given
(`Numbered`, by cardinality: the one place where the set of keys must be finite), and
a baseline belongs to the operation of its number, which had recorded the hash before
it published. From publication to end an operation holds both leases, so neither the
workspace nor the project moves under it (`OperationOf`); a staged campaign has the
baseline of the snapshot it captured (`CallerOf`), baselines never go away, and the
commit refuses a destination that exists, so each deck is made by one caller
(`DecksAreMade`).

Of the ledgers: `LedgerHolds` (`LedgerIsSound`), `FrozenStays` (`ClosedIsFrozen`) and
`CorrectionsEarnNothing`, from `LedgerInvariant`. `Books`: every reservation has an id
of its own and every record under that id its key and request, so a retry finds its
own record and nobody else's. `Calls` says what a call in flight has reserved, `Told`
that what was acknowledged is in the ledger, `Registry` that every registered dataset
is the projection of a prefix of its ledger; ledgers grow only at their end, hence a
prefix stays one. `GoldAssumption` says that the ledgers of earlier reviews fold and
that their `SeededIds` are below the ids given since. `LabIsTimely` states the action
properties of both halves, as the run does (`StepsAreTimely`).

**`IngestProofs`**: `CorpusHolds` (`CorpusIsUsable`), `RecordMovesOn`
(`RecordAdvances`), `UploadHolds` (`UploadIsSound`), `ChunksHold` (`ChunksAreWhole`)
and these for the specification that the run checks (`BatchSideHolds`). `ObsInv` relates the record on disk to the memory it was written
from: each document's phase in the record may be behind but never ahead, `indexed` is
seen only when the points were counted, and where no write was lost an ended operation
has no document still at work. `PipeInv` is about stages that
share stores without a lock. It says what a process may still believe of stores others
write: nothing written is ever taken away (`Grows`), except a corpus manifest, in
whose place there is another of the same corpus (`ManifestKept`), and a collection,
which a process touches only while it has the vector store open (`Indexing`). Those
two facts carry what each stage knows (`Knows`) over the steps of the others, and `Explained` keeps for
every failed run the damage it met. `PipelineAssumption` keeps "no file" and "no
process" apart from the contents and processes. `UploadInv` counts bytes: while a
request is spooled its total is what its finished files come to plus the chunks read of
the current one (`Spooled`, with the lemmas about running sums that it needs); an
admitted desired set names each source once and only objects of uploads that have ended
well (`Wanted`, `Placed`), so neither a later crash nor another upload changes what it
comes to. `UploadAssumption` says that the chunks of a document are lengths and the
limits naturals.

What the chunker computes is folded over the document, and the prover has no induction
over data; the induction is over the index of a running value instead (`InductionUpTo`,
from a least counterexample). `ScanSound` is the invariant of the greedy loop: what it
has closed tiles what it has passed, and each piece, and the buffer, owes its extent to
the loop's conditions (`Earned`, `Joined`). From `CutOf` come the splits of a block
(`SplitOf`: no word lost, and over the limit only what is `Least`), the pieces of a
section (`ChildPiecesOf`) and the parents (`ParentsOf`). What is read of adjacent ranges
adds up (`TilesFlat`, `ReadsNested`), so the children read one after the other are the
document. `ChunkerAssumption` says only that texts are not empty, their words have
sizes, and targets do not exceed maxima.

**`WorkshopProofs`**: `AuthoringHolds` (`AuthoringIsSound`), `EmbeddingHolds`
(`EmbeddingIsSound`), `PerformanceHolds` (`EvidenceIsClean`), the three together as the
run checks them (`WorkshopHolds`), and `WorkshopUndoesNothing` (`NothingIsUndone`). `AuthorInv`:
every approved case in the run file, in a job's copy and in a session's copy is
approved as it stands there (`Reviewed`), so whichever copy is written back last no
unreviewed label reaches the dataset; and a finalizer that has moved the dataset aside
still has it (`Swapping`). `ProvisionInv`: instances are numbered without gaps, a
transaction holds the manifest it will put back and what the others' pointers were
(`Transacting`), and one transaction runs at a time. `RuntimeInv`: what a call has of
the embedder at each step (`Calling`), which texts have vectors after any number of
out-of-memory retries (`Attempted`), and that the batch size in the embedder is that
of the attempt (`Learnt`). The last needs `OneDocumentCaller`, a hypothesis of
`WorkshopUndoesNothing` and of nothing else: it is the default of
`api.max_concurrent_ingest`. With two ingests embedding at once the code lets one put
back a larger batch than the other has learnt, so `BatchOnlyShrinks` is false then;
`EmbeddingHolds` does not assume it. `RuntimeAssumption` says that the ladder is a
non-empty falling sequence of positive numbers, as `CUDA_OOM_BATCH_LADDER` is.

`PerfInv`, for any queries and any number of repetitions: what has been recorded is the
beginning of the frozen schedule (`OnSchedule`), a run is completed only at its end and
is clean then (`CompletedAtEnd`), and the report is the last file (`ReportIsLast`). The
schedules are functions of the position, by quotient and remainder; `DivIs` and the
lemmas after it say which query, variant and round a position is of, `WarmFirst` that
the warm-ups of Level C come first, and so the counts of the stages add up to the
protocol (`FourCounts`). That an attempt reports nothing of an earlier one
(`AttemptIsOwned`) is a property of one attempt: `ProxyOf` and `MarksOf` say what the
shared generator and timeline hold after it, `StagesOf` that each of the ten ends has a
row of the stage matrix and that only a provider error is a failed generation.

Only model-checked. Liveness: `DrainCompletes`, `StartupTerminates` and `WaitsEnd`
need fairness, and the prover has neither that nor ENABLED. The invariants of the
three evaluations and of the four campaigns are checked by TLC only so far.

## 5. Not modelled

The removal of abandoned candidate directories at startup (nothing reads them);
the web interface (its requests are the clients of the models); parsing of files
and arguments, embedding, scoring and model calls (external: any value of their
type, or a failure); report wording and Markdown; latencies except where a rule
compares them. Inside modelled parts: compute settings and programmatic
overrides; listing and ETag formatting; resolver output longer than
`MAX_QUESTION_CHARS`; sampling and prompts of gold authoring; the distribution
statistics no rule reads; the observers and allocator traces of the memory
campaign; the historical roster, single-source and proxy manifests of the
acceptance harness, of which one process runs at a time; the lock
`EXECUTION_AUTHORIZED` of the campaigns, false in the repository and taken as
lifted; other processes on the port of a llama-server. Synchronous ingest is in
`OperationRegistry` (control) and `IngestPipeline` (stages), which are not
composed.

## 6. Plan

Modelled, in the order of importance: the process runtime; the scientific
mutation and its atomic specification; sync mutation; creation; managed
operations; serving; answers; batch stages; Gold Lab; the laboratory. Proved: the
runtime, the workspace transactions, the admission of source mutations, the
questions served meanwhile and the answers they get, the settings, the record of an
operation and the batch stages, uploads and the chunker, the Gold Lab from bootstrap to
export, gold authoring, provisioning, the embedder and the performance runs.

To come, most important first:

1. `MCCampaigns`: `DenseIsJustified`, `LaneIsQualified`, `MemoryIsConfirmed`.
2. `MCEvaluation`: `GenerationIsComparable`.
