--------------------------- MODULE EmbeddingRuntime --------------------------
(***************************************************************************)
(* The embedder a process owns (dense/embedder.make_embedder and           *)
(* dense/embedding_runtime): the profile and the instance directory are    *)
(* frozen when the process starts, the model is loaded by the first call   *)
(* of whichever thread, and a failed execution ends it for good.  The      *)
(* model root is provisioned meanwhile (EmbeddingProvision).               *)
(***************************************************************************)
EXTENDS EmbeddingProvision, SequencesExt

CONSTANTS
  Callers,          \* threads that embed
  DocumentCallers,  \* those that embed documents (one ingest at a time)
  DocumentSets,     \* the token counts of the texts of one call
  Ladder,           \* CUDA_OOM_BATCH_LADDER
  MaxCalls          \* bound on calls

ASSUME RuntimeAssumption ==
  /\ DocumentCallers \subseteq Callers /\ "free" \notin Callers /\ MaxCalls \in Nat
  /\ \A tokens \in DocumentSets : tokens \in Seq(Nat)
  /\ Ladder \in Seq(Nat \ {0}) /\ Len(Ladder) > 0
  /\ \A i, k \in DOMAIN Ladder : i < k => Ladder[k] < Ladder[i]
(* Documents are embedded by an ingest, and a process admits one at a time    *)
(* unless api.max_concurrent_ingest is raised.                                *)
OneDocumentCaller == \A c, d \in DocumentCallers : c = d

VARIABLES
  emb,     \* the process' QualifiedEmbeddingRuntime
  call,    \* what each thread is doing
  calls

runtimeVars == <<emb, call, calls>>
embeddingVars == <<bundle, synced, legacy, instances, tx, faults, emb, call, calls>>
RootUnchanged == UNCHANGED <<bundle, synced, legacy, instances, tx, faults>>

NoEmbedder == [state |-> "none"]
NoCall == [at |-> "rest"]

(* --- make_embedder --------------------------------------------------------- *)

(* resolve_qualified_embedding_profile: "refused" where nothing is authorized. *)
resolve_profile(device, fp16, cuda) ==
  CASE device = "cpu"  -> IF fp16 THEN "refused" ELSE "cpu_onnx_fp32_v1"
    [] device = "cuda" -> IF cuda THEN "cuda_fp16_v1" ELSE "refused"
    [] OTHER           -> IF cuda THEN "cuda_fp16_v1" ELSE IF fp16 THEN "refused" ELSE "cpu_onnx_fp32_v1"
RepresentationOf(profile) == IF profile = "cuda_fp16_v1" THEN "torch_st_v1" ELSE "onnx_fp32_v1"
(* The directory the selection names now; -1 is the model root. *)
InstanceOf(rep) == IF ByPointer(rep) THEN bundle.ptr[rep] ELSE -1

make_embedder(device, fp16, cuda) ==
  LET profile == resolve_profile(device, fp16, cuda)  rep == RepresentationOf(profile) IN
  /\ emb.state = "none" /\ profile # "refused" /\ Inspect(rep) = "ready"
  /\ emb' = [state |-> "UNLOADED", kind |-> "none", cuda |-> profile = "cuda_fp16_v1",
             rep |-> rep, instance |-> InstanceOf(rep), backend |-> FALSE, model |-> FALSE,
             loads |-> 0, batch |-> Ladder[1], lock |-> "free"]
  /\ RootUnchanged /\ UNCHANGED <<call, calls>>

Restart ==
  /\ emb.state \in {"FAILED", "CLOSED"} /\ emb.lock = "free" /\ emb' = NoEmbedder /\ call' = [c \in Callers |-> NoCall]
  /\ RootUnchanged /\ UNCHANGED calls

(* --- _ensure_ready --------------------------------------------------------- *)

Refuses == emb.state \in {"FAILED", "CLOSED"}
IsReady == emb.state = "READY" /\ emb.backend

(* The texts of a query are one; those of documents have lengths.            *)
(* next: the first one not yet encoded, 0 before an attempt; batches: the     *)
(* first and the last text of each batch of the attempt.                      *)
Work(tokens) == [tokens |-> tokens, ladder |-> <<>>, attempt |-> 0, batches |-> {}, next |-> 0, vectors |-> <<>>]
Started(kind, at, tokens) == [at |-> at, kind |-> kind, work |-> Work(tokens)]

(* The checks made without the lock. *)
EnsureReady(c, kind, tokens) ==
  /\ emb.state # "none" /\ call[c].at = "rest" /\ calls < MaxCalls /\ calls' = calls + 1
  /\ call' = [call EXCEPT ![c] = IF Refuses THEN NoCall
                                 ELSE Started(kind, IF IsReady THEN "execute" ELSE "waiting", tokens)]
  /\ UNCHANGED emb /\ RootUnchanged

(* Under the lock the state is looked at again. *)
BeginLoad(c) ==
  IF Refuses THEN UNCHANGED emb /\ call' = [call EXCEPT ![c] = NoCall]
  ELSE IF IsReady THEN UNCHANGED emb /\ call' = [call EXCEPT ![c].at = "execute"]
  ELSE /\ emb' = [emb EXCEPT !.state = "LOADING", !.loads = @ + 1, !.lock = c]
       /\ call' = [call EXCEPT ![c].at = "loading"]
TakeInitLock(c) ==
  /\ call[c].at = "waiting" /\ emb.lock = "free" /\ BeginLoad(c) /\ RootUnchanged /\ UNCHANGED calls

(* Load and verification of the model: may fail whatever is on disk.         *)
FinishLoad(c, ok) ==
  /\ call[c].at = "loading" /\ (ok => InstanceReadiness(emb.rep, emb.instance) = "ready")
  /\ emb' = IF ok THEN [emb EXCEPT !.state = "READY", !.backend = TRUE, !.model = TRUE, !.lock = "free"]
            ELSE [emb EXCEPT !.state = "FAILED", !.kind = "INITIALIZATION", !.backend = FALSE, !.lock = "free"]
  /\ call' = [call EXCEPT ![c] = IF ok THEN [@ EXCEPT !.at = "execute"] ELSE NoCall]
  /\ RootUnchanged /\ UNCHANGED calls

(* --- The backend's calls --------------------------------------------------- *)

(* _partition_cuda_payloads: greedy, in input order, at most limit texts and  *)
(* at most limit times the 95th percentile of padded tokens in a batch.  What *)
(* a batch takes depends on its own texts only: here it is its last text.     *)
P95Rank(n) == (95 * n + 99) \div 100
Budget(tokens, limit) == limit * SortSeq(tokens, <)[P95Rank(Len(tokens))]
SizeOf(i, k) == k - i + 1
LargestOf(tokens, i, k) == Max({tokens[j] : j \in i..k})
Fits(tokens, limit, i, k) ==
  SizeOf(i, k) <= limit /\ SizeOf(i, k) * LargestOf(tokens, i, k) <= Budget(tokens, limit)
Partition(tokens, limit, i) ==
  Max({k \in i..Len(tokens) : \A j \in (i + 1)..k : Fits(tokens, limit, i, j)})

(* _cuda_oom_batch_ladder: from the batch the last call ended with.           *)
LadderFromHere ==
  IF emb.cuda /\ \E i \in DOMAIN Ladder : Ladder[i] = emb.batch
  THEN SubSeq(Ladder, CHOOSE i \in DOMAIN Ladder : Ladder[i] = emb.batch, Len(Ladder))
  ELSE <<emb.batch>>

(* A released ONNX backend loads its model anew for a call under way.         *)
StartDocuments(c) ==
  /\ call[c].at = "execute" /\ call[c].kind = "documents" /\ call[c].work.ladder = <<>>
  /\ call' = [call EXCEPT ![c].work.ladder = LadderFromHere]
  /\ emb' = [emb EXCEPT !.model = TRUE]
  /\ RootUnchanged /\ UNCHANGED calls

(* Mutant: the vectors of the attempt that failed are kept. *)
KeepVectors(w) == w.vectors
FreshVectors(w) == <<>>
StartAttempt(c) ==
  LET w == call[c].work  limit == w.ladder[w.attempt + 1] IN
  /\ call[c].at = "execute" /\ w.ladder # <<>> /\ w.next = 0 /\ w.attempt < Len(w.ladder)
  /\ emb' = [emb EXCEPT !.batch = limit]
  /\ call' = [call EXCEPT ![c].work = [w EXCEPT !.next = 1, !.vectors = FreshVectors(w), !.batches = {}]]
  /\ RootUnchanged /\ UNCHANGED calls
(* A CPU encodes all texts in one batch. *)
LastText(w) == IF emb.cuda THEN Partition(w.tokens, w.ladder[w.attempt + 1], w.next) ELSE Len(w.tokens)
EncodeBatch(c) ==
  LET w == call[c].work  last == LastText(w) IN
  /\ call[c].at = "execute" /\ w.next \in 1..Len(w.tokens)
  /\ call' = [call EXCEPT ![c].work = [w EXCEPT !.next = last + 1, !.batches = w.batches \cup {<<w.next, last>>},
       !.vectors = w.vectors \o [i \in 1..SizeOf(w.next, last) |-> w.next + i - 1]]]
  /\ UNCHANGED <<emb, calls>> /\ RootUnchanged
(* Out of memory: the next smaller batch, or CudaMemoryExhaustedError.        *)
BatchOutOfMemory(c) ==
  LET w == call[c].work IN
  /\ call[c].at = "execute" /\ emb.cuda /\ w.next \in 1..Len(w.tokens)
  /\ IF w.attempt + 1 < Len(w.ladder)
     THEN /\ call' = [call EXCEPT ![c].work = [w EXCEPT !.attempt = w.attempt + 1, !.next = 0]]
          /\ emb' = [emb EXCEPT !.batch = w.ladder[w.attempt + 2]]
     ELSE call' = [call EXCEPT ![c].at = "failing"] /\ UNCHANGED emb
  /\ RootUnchanged /\ UNCHANGED calls
DocumentsDone(c) ==
  LET w == call[c].work IN
  /\ call[c].at = "execute" /\ w.next = Len(w.tokens) + 1
  /\ call' = [call EXCEPT ![c].at = "answered"]
  /\ UNCHANGED <<emb, calls>> /\ RootUnchanged

QueryDone(c) ==
  /\ call[c].at = "execute" /\ call[c].kind = "query"
  /\ call' = [call EXCEPT ![c] = NoCall] /\ emb' = [emb EXCEPT !.model = TRUE]
  /\ RootUnchanged /\ UNCHANGED calls
ExecutionFails(c) ==
  /\ call[c].at = "execute" /\ call' = [call EXCEPT ![c].at = "failing"]
  /\ UNCHANGED <<emb, calls>> /\ RootUnchanged
AnswerIsUsed(c) ==
  /\ call[c].at = "answered" /\ call' = [call EXCEPT ![c] = NoCall]
  /\ UNCHANGED <<emb, calls>> /\ RootUnchanged

(* --- _mark_failed and close ------------------------------------------------- *)

(* Only an ONNX backend can be released; a torch model goes with the object.  *)
Dropped == [emb EXCEPT !.backend = FALSE, !.model = FALSE]

AfterFailure == IF Refuses THEN emb ELSE [Dropped EXCEPT !.state = "FAILED", !.kind = "EXECUTION"]
MarkFailed(c) ==
  /\ call[c].at = "failing" /\ emb.lock = "free" /\ emb' = AfterFailure
  /\ call' = [call EXCEPT ![c] = NoCall]
  /\ RootUnchanged /\ UNCHANGED calls
CloseEmbedder ==
  /\ emb.state \notin {"none", "CLOSED"} /\ emb.lock = "free"
  /\ emb' = [Dropped EXCEPT !.state = "CLOSED"]
  /\ RootUnchanged /\ UNCHANGED <<call, calls>>

RuntimeInit == ProvisionInit /\ emb = NoEmbedder /\ call = [c \in Callers |-> NoCall] /\ calls = 0
EmbedNext ==
  \/ \E device \in {"cpu", "cuda", "auto"}, fp16, cuda \in BOOLEAN : make_embedder(device, fp16, cuda)
  \/ Restart \/ CloseEmbedder
  \/ \E c \in Callers :
       \/ EnsureReady(c, "query", <<1>>)
       \/ c \in DocumentCallers /\ \E tokens \in DocumentSets : EnsureReady(c, "documents", tokens)
       \/ TakeInitLock(c) \/ \E ok \in BOOLEAN : FinishLoad(c, ok)
       \/ StartDocuments(c) \/ StartAttempt(c) \/ EncodeBatch(c) \/ BatchOutOfMemory(c) \/ DocumentsDone(c)
       \/ QueryDone(c) \/ ExecutionFails(c) \/ AnswerIsUsed(c) \/ MarkFailed(c)
EmbeddingNext == (ProvisionNext /\ UNCHANGED runtimeVars) \/ EmbedNext
EmbeddingSpec == RuntimeInit /\ [][EmbeddingNext]_embeddingVars

(* --- Properties ------------------------------------------------------------ *)

(* However many threads make the first call at once, one loads the model, and *)
(* none loads it again after a failure (_ensure_ready).                       *)
LoadedOnce == emb.state # "none" => emb.loads <= 1

(* FAILED and CLOSED are final and the kind of failure is never rewritten, by *)
(* a call that fails after another one failed or after close (_mark_failed).  *)
EndIsFinal ==
  emb.state \in {"FAILED", "CLOSED"} /\ emb'.state # "none" =>
    /\ emb'.state \in {emb.state, "CLOSED"} /\ emb'.kind = emb.kind /\ emb'.loads = emb.loads

(* A call returns one vector per text, in order, all of one attempt, however  *)
(* often it ran out of memory between two batches (embed_documents).          *)
VectorsAreWhole ==
  \A c \in Callers : call[c].at = "answered" =>
    call[c].work.vectors = [i \in 1..Len(call[c].work.tokens) |-> i]

(* No batch exceeds the limit of its attempt nor, unless it is a single text, *)
(* the padded-token budget (_partition_cuda_payloads).                        *)
BatchesAreBounded ==
  \A c \in Callers : call[c].at = "execute" /\ emb.cuda =>
    LET w == call[c].work  limit == w.ladder[w.attempt + 1] IN
    w.next # 0 => \A b \in w.batches :
      /\ SizeOf(b[1], b[2]) <= limit
      /\ b[1] = b[2] \/ SizeOf(b[1], b[2]) * LargestOf(w.tokens, b[1], b[2]) <= Budget(w.tokens, limit)

(* The batch that fits is learnt once: within a process that embeds the       *)
(* documents of one ingest at a time (OneDocumentCaller) it never grows.      *)
BatchOnlyShrinks ==
  emb.state # "none" /\ emb'.state # "none" => emb'.batch <= emb.batch

(* The directory frozen at start is still there when the first call, much     *)
(* later, loads it, whatever was provisioned in between.                      *)
FrozenInstanceStays ==
  emb.state = "UNLOADED" => InstanceReadiness(emb.rep, emb.instance) # "absent"

(* The embedder serves the installation frozen at its start: the selected    *)
(* directories stay, the model is loaded once, and every call gets all its   *)
(* vectors in bounded batches.                                               *)
EmbeddingIsSound ==
  SelectionIsInstalled /\ FrozenInstanceStays /\ LoadedOnce /\ VectorsAreWhole /\ BatchesAreBounded
=============================================================================
