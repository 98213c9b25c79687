----------------------- MODULE OperationObservability -----------------------
(***************************************************************************)
(* What the record of a running operation shows: the phase of each         *)
(* document, the documents being worked on, metrics and progress.  The     *)
(* publisher keeps a projection in memory, moved by events and reports of  *)
(* the stages, and writes it best effort (metrics first, then the          *)
(* worklist); a failed write is swallowed and the next one carries the     *)
(* whole projection again.  Progress is throttled and written apart.       *)
(***************************************************************************)
EXTENDS Integers, FiniteSets

CONSTANTS ObsDocs, MaxLost, MaxProgress

ASSUME ObsAssumption == IsFiniteSet(ObsDocs) /\ MaxLost \in Nat /\ MaxProgress \in Nat

Rank == [pending |-> 0, parsing |-> 1, parsed |-> 2, chunking |-> 3, chunked |-> 4,
         indexing |-> 5, indexed |-> 6, removed |-> 6, failed |-> 100, requires_ocr |-> 100]
Phases    == DOMAIN Rank
Absorbing == {"failed", "requires_ocr"}
Stages    == {"admit", "ingest", "chunk", "dense", "lexical", "publish", "empty", "closing", "end"}

VARIABLES
  stage,     \* where the worker is
  memory,    \* the publisher: frozen, phase of each document, active, metrics
  record,    \* the durable record: status, phases, active, metrics, progress
  counted,   \* the dense index was materialised and its count verified
  lost       \* writes that failed so far

obsVars == <<stage, memory, record, counted, lost>>

NoProgress == [step |-> "none", current |-> 0]
ObsInit ==
  /\ stage = "admit" /\ counted = FALSE /\ lost = 0
  /\ memory = [frozen |-> FALSE, phase |-> [d \in ObsDocs |-> "pending"],
               active |-> {}, metrics |-> "none"]
  /\ record = [status |-> "running", listed |-> FALSE, phase |-> [d \in ObsDocs |-> "pending"],
               active |-> {}, metrics |-> "none", progress |-> NoProgress]

Terminal(status) == status \in {"succeeded", "failed"}

(* update_metrics and update_worklist refuse a terminal record. *)
Writable == ~Terminal(record.status)

(* _persist: two writes in this order; either may fail, and is swallowed. *)
Persist(m) ==
  \/ ~m.frozen /\ UNCHANGED <<record, lost>>
  \/ /\ m.frozen /\ Writable
     /\ record' = [record EXCEPT !.metrics = m.metrics, !.phase = m.phase, !.active = m.active]
     /\ UNCHANGED lost
  \/ m.frozen /\ ~Writable /\ UNCHANGED <<record, lost>>
  \/ /\ m.frozen /\ lost < MaxLost /\ lost' = lost + 1
     /\ record' \in {record, IF Writable THEN [record EXCEPT !.metrics = m.metrics] ELSE record}
PublishView(m) == memory' = m /\ Persist(m)

(* freeze_admission: fail-closed; a failed write takes the marker back, so a *)
(* later attempt writes the whole projection.                                *)
FreezeAdmission ==
  /\ stage = "admit"
  /\ \/ /\ memory' = [memory EXCEPT !.frozen = TRUE, !.metrics = "admitted"]
        /\ record' = [record EXCEPT !.listed = TRUE, !.metrics = "admitted"]
        /\ stage' \in {"ingest", "empty"} /\ UNCHANGED lost
     \/ /\ lost < MaxLost /\ lost' = lost + 1
        /\ memory' = [memory EXCEPT !.frozen = FALSE] /\ UNCHANGED <<record, stage>>
  /\ UNCHANGED counted

(* hydrate: the worker's own publisher starts from the durable worklist. *)
Hydrate ==
  /\ stage \in {"ingest", "empty"} /\ memory.metrics = "admitted" /\ record.listed
  /\ memory' = [memory EXCEPT !.frozen = TRUE, !.phase = record.phase,
                              !.active = record.active, !.metrics = "hydrated"]
  /\ UNCHANGED <<stage, record, counted, lost>>
Working == memory.metrics # "admitted"

(* Mutant: the last event wins, whatever its rank. *)
LastPhase(old, new) == new

(* _apply_document_phase: a failure is final, and no other phase regresses. *)
NextPhase(old, new) ==
  IF old \in Absorbing THEN old
  ELSE IF Rank[new] < Rank[old] /\ new \notin Absorbing THEN old ELSE new

Apply(m, d, phase) == [m EXCEPT !.phase[d] = NextPhase(@, phase)]

(* A stage tells where a document is; an event may arrive for any document, *)
(* in any order, or never.                                                  *)
PhaseOf(s) == CASE s = "ingest" -> {"parsing", "parsed", "failed", "requires_ocr"}
                [] s = "chunk"  -> {"chunking", "chunked", "failed"}
                [] s = "dense"  -> IF counted THEN {"indexed"} ELSE {"indexing"}
                [] OTHER        -> {}
DocumentPhase(d, phase) ==
  /\ Working /\ phase \in PhaseOf(stage)
  /\ PublishView(Apply(memory, d, phase))
  /\ UNCHANGED <<stage, counted>>

(* on_activity: the documents of the batch being encoded. *)
Activity(ds) ==
  /\ Working /\ stage = "dense"
  /\ PublishView([memory EXCEPT !.active = ds])
  /\ UNCHANGED <<stage, counted>>

ApplyAll(m, ds, phase) ==
  [m EXCEPT !.phase = [d \in ObsDocs |-> IF d \in ds THEN NextPhase(@[d], phase) ELSE @[d]]]

(* before_stage("dense"): every document not failed is being indexed. *)
BeforeDense(m) ==
  [m EXCEPT !.active = {},
            !.phase = [d \in ObsDocs |-> IF @[d] \in {"chunked", "parsed", "pending"}
                                         THEN "indexing" ELSE @[d]]]

(* _apply_ingestion_report and _apply_chunking_report, then the next stage. *)
IngestReport(bad) ==
  /\ Working /\ stage = "ingest"
  /\ PublishView([ApplyAll(ApplyAll(memory, bad, "failed"), ObsDocs \ bad, "parsed")
                EXCEPT !.metrics = "ingest"])
  /\ stage' = IF bad = {} THEN "chunk" ELSE "closing"
  /\ UNCHANGED counted
ChunkReport(bad) ==
  /\ stage = "chunk"
  /\ PublishView(LET m == [ApplyAll(ApplyAll(memory, bad, "failed"), ObsDocs \ bad, "chunked")
                         EXCEPT !.metrics = "chunk"]
             IN IF bad = {} THEN BeforeDense(m) ELSE m)
  /\ stage' = IF bad = {} THEN "dense" ELSE "closing"
  /\ UNCHANGED counted

(* The dense stage reports documents as indexed once the count of its       *)
(* collection is verified, before it writes the manifest.                   *)
Materialise == /\ stage = "dense" /\ ~counted /\ counted' = TRUE
               /\ UNCHANGED <<stage, memory, record, lost>>

(* _apply_dense_report: only a successful stage moves indexing to indexed. *)
DenseClosed(m, ok) ==
  [m EXCEPT !.active = {}, !.metrics = "dense",
            !.phase = [d \in ObsDocs |-> IF ok /\ @[d] = "indexing" THEN "indexed" ELSE @[d]]]
DenseReport(ok) ==
  /\ stage = "dense" /\ (ok => counted)
  /\ PublishView(DenseClosed(memory, ok))
  /\ stage' = IF ok THEN "lexical" ELSE "closing"
  /\ UNCHANGED counted

LexicalReport(ok) ==
  /\ stage = "lexical"
  /\ PublishView([memory EXCEPT !.metrics = "lexical"])
  /\ stage' = IF ok THEN "publish" ELSE "closing"
  /\ UNCHANGED counted

(* after_stage("publish"), then complete_lifecycle and the terminal status. *)
SettleAs(m, phase) == [m EXCEPT !.active = {},
  !.phase = [d \in ObsDocs |-> IF @[d] \in Absorbing THEN @[d] ELSE phase]]
AfterPublish ==
  /\ stage = "publish"
  /\ PublishView([SettleAs(memory, "indexed") EXCEPT !.metrics = "final"])
  /\ stage' = "end" /\ UNCHANGED counted
CompleteEmpty ==
  /\ Working /\ stage = "empty"
  /\ PublishView([SettleAs(memory, "removed") EXCEPT !.metrics = "final"])
  /\ stage' = "end" /\ UNCHANGED counted
CompleteFailed ==
  /\ stage = "closing"
  /\ PublishView([memory EXCEPT !.active = {}, !.metrics = "failed"])
  /\ stage' = "end" /\ UNCHANGED counted
Terminalise ==
  /\ stage = "end" /\ ~Terminal(record.status)
  /\ record' = [record EXCEPT !.status =
                  IF memory.metrics = "failed" THEN "failed" ELSE "succeeded"]
  /\ UNCHANGED <<stage, memory, counted, lost>>
(* A late activity event after the operation has ended. *)
LateEvent ==
  /\ Terminal(record.status)
  /\ PublishView([memory EXCEPT !.active = ObsDocs])
  /\ UNCHANGED <<stage, counted>>

(* update_progress refuses to move back within a step. *)
Advances(prior, e) == prior.step = e.step => prior.current <= e.current

(* DurableProgressPublisher: events are throttled to one a percent and one  *)
(* a second, so any of them may be dropped; a refused write is swallowed.   *)
Progress(e) ==
  /\ Working /\ stage \in {"ingest", "dense", "lexical"} /\ e.step = stage
  /\ Writable /\ Advances(record.progress, e)
  /\ record' = [record EXCEPT !.progress = e]
  /\ UNCHANGED <<stage, memory, counted, lost>>

ObsNext ==
  \/ FreezeAdmission \/ Hydrate \/ Materialise
  \/ \E d \in ObsDocs, phase \in Phases : DocumentPhase(d, phase)
  \/ \E ds \in SUBSET ObsDocs : Activity(ds) \/ IngestReport(ds) \/ ChunkReport(ds)
  \/ \E ok \in BOOLEAN : DenseReport(ok) \/ LexicalReport(ok)
  \/ AfterPublish \/ CompleteEmpty \/ CompleteFailed \/ Terminalise \/ LateEvent
  \/ \E s \in Stages, k \in 0..MaxProgress : Progress([step |-> s, current |-> k])

ObsSpec == ObsInit /\ [][ObsNext]_obsVars

(****************************** properties *********************************)

(* What the record shows of a document never goes back, and a failure stays *)
(* a failure, although events arrive late and writes are lost.              *)
PhasesAdvance ==
  \A d \in ObsDocs : /\ Rank[record'.phase[d]] >= Rank[record.phase[d]]
                     /\ record.phase[d] \in Absorbing => record'.phase[d] = record.phase[d]

(* A document is shown as indexed only after its vectors were counted.     *)
IndexedIsCounted == \A d \in ObsDocs : record.phase[d] = "indexed" => counted

(* The counters of one step of a running operation never go back.          *)
ProgressAdvances ==
  record'.progress.step = record.progress.step =>
    record'.progress.current >= record.progress.current

(* Nothing changes the record of a finished operation, and if no write was  *)
(* lost a finished operation shows no document at work.                     *)
FinishedIsQuiet ==
  Terminal(record.status) => record' = record
FinishedShowsNoWork ==
  Terminal(record.status) /\ lost = 0 =>
    /\ record.active = {}
    /\ record.status = "succeeded" =>
         \A d \in ObsDocs : record.phase[d] \in {"indexed", "removed"} \cup Absorbing

(* The record a client polls only moves forward: phases and counters never  *)
(* go back, nothing follows the end, and what it shows as indexed or done   *)
(* is so, although events come late and writes of the record are lost.      *)
RecordAdvances ==
  [][/\ PhasesAdvance /\ ProgressAdvances /\ FinishedIsQuiet
     /\ IndexedIsCounted' /\ FinishedShowsNoWork']_obsVars
=============================================================================
