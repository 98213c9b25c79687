---------------------------- MODULE IngestProofs ----------------------------
(***************************************************************************)
(* Proofs about the batch side of the corpus. First the record of a        *)
(* running operation (OperationObservability), for any documents, order of *)
(* events and lost writes. Then the four stages (IngestPipeline), for any  *)
(* processes, sources, contents, configurations, crashes and damage; the   *)
(* uploads (UploadSpool), for any documents, limits, crashes and damage;   *)
(* and the chunker (StructureChunking), for any documents and budgets.     *)
(*                                                                         *)
(* The stages rest on PipeInv. They share their stores without a           *)
(* lock, so the invariant says what a process may still believe of stores  *)
(* that others write: nothing written is ever taken away (Grows), except   *)
(* that a corpus manifest may give way to another of the same documents,   *)
(* and a collection, which only the process with the vector store open     *)
(* touches. These facts carry Knows and Indexing over the steps of others. *)
(***************************************************************************)
EXTENDS MCIngest, FiniteSetTheorems, SequenceTheorems, WellFoundedInduction, TLAPS

(***************************************************************************)
(* The record of an operation.                                             *)
(***************************************************************************)

Metrics == {"none", "admitted", "hydrated", "ingest", "chunk", "dense", "lexical", "final", "failed"}
Views == [frozen : BOOLEAN, phase : [ObsDocs -> Phases], active : SUBSET ObsDocs, metrics : Metrics]
OpRecords == [status : {"running", "succeeded", "failed"}, listed : BOOLEAN,
               phase : [ObsDocs -> Phases], active : SUBSET ObsDocs, metrics : Metrics,
               progress : [step : Stages \cup {"none"}, current : Nat]]

\* A phase may follow another: it does not go back, and a failure stays.
Ahead(new, old) == Rank[new] >= Rank[old] /\ (old \in Absorbing => new = old)
Finished(phase) == phase \in {"indexed", "removed"} \cup Absorbing

ObsInv ==
    /\ stage \in Stages /\ memory \in Views /\ record \in OpRecords /\ counted \in BOOLEAN /\ lost \in Nat
    /\ \A d \in ObsDocs : /\ Ahead(memory.phase[d], record.phase[d])
                          /\ memory.phase[d] = "indexed" => counted
                          /\ record.phase[d] = "indexed" => counted
    /\ stage \in {"lexical", "publish"} => counted
    /\ stage # "admit" => memory.frozen
    /\ Terminal(record.status) => stage = "end"
    /\ stage = "end" /\ lost = 0 =>
          /\ record.active = {}
          /\ memory.metrics # "failed" \/ record.status = "succeeded" =>
                \A d \in ObsDocs : Finished(record.phase[d])

LEMMA Ranks ==
    /\ \A x \in Phases : Rank[x] \in Nat
    /\ Absorbing \subseteq Phases
    /\ \A x \in Phases : Rank[x] <= 100 /\ (x \notin Absorbing => Rank[x] <= 6)
    /\ Phases = {"pending", "parsing", "parsed", "chunking", "chunked", "indexing", "indexed", "removed",
                 "failed", "requires_ocr"}
  BY DEF Rank, Phases, Absorbing

LEMMA AheadFollows ==
    ASSUME NEW x \in Phases, NEW y \in Phases, NEW z \in Phases, Ahead(y, x), Ahead(z, y)
    PROVE  Ahead(z, x)
  BY Ranks DEF Ahead

LEMMA NextPhaseAhead ==
    ASSUME NEW old \in Phases, NEW new \in Phases
    PROVE  /\ NextPhase(old, new) \in Phases /\ Ahead(NextPhase(old, new), old)
           /\ NextPhase(old, new) \in {old, new}
  BY DEF NextPhase, Ahead, Rank, Phases, Absorbing

\* What a publication makes of the record: the projection, or less of it when
\* a write is lost.
LEMMA Persisted ==
    ASSUME ObsInv, NEW m \in Views, Persist(m), stage # "admit" => m.frozen
    PROVE  /\ record' \in OpRecords /\ lost' \in Nat
           /\ record'.status = record.status /\ record'.progress = record.progress
           /\ Terminal(record.status) => record' = record
           /\ \/ record'.phase = record.phase /\ record'.active = record.active
              \/ record'.phase = m.phase /\ record'.active = m.active
           /\ lost' = 0 /\ stage # "admit" /\ ~Terminal(record.status) =>
                lost = 0 /\ record'.phase = m.phase /\ record'.active = m.active
           /\ lost' = 0 => lost = 0
<1>1. record \in OpRecords /\ lost \in Nat /\ stage \in Stages
  BY DEF ObsInv
<1>2. CASE ~m.frozen /\ UNCHANGED <<record, lost>>
  BY <1>1, <1>2
<1>3. CASE m.frozen /\ ~Writable /\ UNCHANGED <<record, lost>>
  BY <1>1, <1>3 DEF Writable
<1>4. CASE /\ m.frozen /\ Writable /\ UNCHANGED lost
           /\ record' = [record EXCEPT !.metrics = m.metrics, !.phase = m.phase, !.active = m.active]
  BY <1>1, <1>4 DEF Writable, Views, OpRecords
<1>5. CASE /\ m.frozen /\ lost' = lost + 1
           /\ record' \in {record, IF Writable THEN [record EXCEPT !.metrics = m.metrics] ELSE record}
  <2>1. lost' # 0 /\ lost' \in Nat
    BY <1>1, <1>5
  <2>2. /\ record' \in OpRecords
        /\ record'.status = record.status /\ record'.progress = record.progress
        /\ record'.phase = record.phase /\ record'.active = record.active
    BY <1>1, <1>5 DEF Views, OpRecords
  <2>3. Terminal(record.status) => record' = record
    BY <1>1, <1>5 DEF Writable
  <2>q. QED
    BY <2>1, <2>2, <2>3
<1>q. QED
  BY <1>2, <1>3, <1>4, <1>5 DEF Persist

\* A step that publishes a projection ahead of the old one.
LEMMA PublishKeeps ==
    ASSUME ObsInv, NEW m \in Views, PublishView(m), stage # "admit", m.frozen, counted' \in BOOLEAN,
           stage' \in Stages, counted => counted',
           \A d \in ObsDocs : /\ Ahead(m.phase[d], memory.phase[d])
                              /\ m.phase[d] = "indexed" => counted',
           stage' \in {"lexical", "publish"} => counted',
           stage' # "admit",
           Terminal(record.status) => stage' = "end" /\ stage = "end" /\ m.metrics = memory.metrics,
           stage' = "end" /\ ~Terminal(record.status) =>
               /\ m.active = {}
               /\ m.metrics # "failed" => \A d \in ObsDocs : Finished(m.phase[d])
    PROVE  /\ ObsInv' /\ PhasesAdvance /\ ProgressAdvances /\ FinishedIsQuiet
<1>. memory' = m /\ Persist(m)
  BY DEF PublishView
<1>1. /\ record' \in OpRecords /\ lost' \in Nat
      /\ record'.status = record.status /\ record'.progress = record.progress
      /\ Terminal(record.status) => record' = record
      /\ \/ record'.phase = record.phase /\ record'.active = record.active
         \/ record'.phase = m.phase /\ record'.active = m.active
      /\ lost' = 0 /\ stage # "admit" /\ ~Terminal(record.status) =>
           lost = 0 /\ record'.phase = m.phase /\ record'.active = m.active
      /\ lost' = 0 => lost = 0
  BY Persisted
<1>2. \A d \in ObsDocs : Ahead(m.phase[d], record.phase[d])
  BY AheadFollows DEF ObsInv, Views, OpRecords
<1>3. \A x \in Phases : Ahead(x, x)
  BY Ranks DEF Ahead
<1>4. \A d \in ObsDocs : /\ m.phase[d] \in Phases /\ record.phase[d] \in Phases
                         /\ record'.phase[d] \in {m.phase[d], record.phase[d]}
  BY <1>1 DEF ObsInv, Views, OpRecords
<1>5. \A d \in ObsDocs : /\ Ahead(m.phase[d], record'.phase[d]) /\ Ahead(record'.phase[d], record.phase[d])
                         /\ record'.phase[d] = "indexed" => counted'
  BY <1>2, <1>3, <1>4 DEF ObsInv
<1>6. PhasesAdvance /\ ProgressAdvances /\ FinishedIsQuiet
  BY <1>1, <1>5 DEF PhasesAdvance, ProgressAdvances, FinishedIsQuiet, Ahead, OpRecords, ObsInv
<1>7. ASSUME stage' = "end", lost' = 0
      PROVE  /\ record'.active = {}
             /\ m.metrics # "failed" \/ record'.status = "succeeded" =>
                  \A d \in ObsDocs : Finished(record'.phase[d])
  <2>1. CASE Terminal(record.status)
    BY <1>1, <1>7, <2>1 DEF ObsInv
  <2>2. CASE ~Terminal(record.status)
    BY <1>1, <1>7, <2>2 DEF ObsInv, Terminal
  <2>q. QED
    BY <2>1, <2>2
<1>8. ObsInv'
  BY <1>1, <1>5, <1>7 DEF ObsInv
<1>q. QED
  BY <1>6, <1>8

\* Steps that move no phase but the record's own.
LEMMA Advance ==
    ASSUME ObsInv, record'.phase = record.phase, record'.active = record.active,
           Terminal(record.status) => record' = record,
           record'.progress = record.progress \/ Advances(record.progress, record'.progress)
    PROVE  PhasesAdvance /\ ProgressAdvances /\ FinishedIsQuiet
<1>1. \A d \in ObsDocs : record.phase[d] \in Phases
  BY DEF ObsInv, OpRecords
<1>2. PhasesAdvance
  BY <1>1, Ranks DEF PhasesAdvance
<1>3. ProgressAdvances
  BY DEF ProgressAdvances, Advances, ObsInv, OpRecords
<1>q. QED
  BY <1>2, <1>3 DEF FinishedIsQuiet

Moved == ObsInv' /\ PhasesAdvance /\ ProgressAdvances /\ FinishedIsQuiet

LEMMA FreezeStep == ASSUME ObsInv, FreezeAdmission PROVE Moved
<1>1. CASE /\ memory' = [memory EXCEPT !.frozen = TRUE, !.metrics = "admitted"]
           /\ record' = [record EXCEPT !.listed = TRUE, !.metrics = "admitted"]
           /\ stage' \in {"ingest", "empty"} /\ UNCHANGED <<lost, counted>> /\ stage = "admit"
  <2>1. memory' \in Views /\ memory'.phase = memory.phase /\ memory'.frozen
    BY <1>1 DEF ObsInv, Views, Metrics
  <2>2. /\ record' \in OpRecords /\ record'.phase = record.phase /\ record'.active = record.active
        /\ record'.progress = record.progress /\ record'.status = record.status
    BY <1>1 DEF ObsInv, OpRecords, Metrics
  <2>3. ObsInv'
    BY <1>1, <2>1, <2>2 DEF ObsInv, Stages
  <2>4. ~Terminal(record.status)
    BY <1>1 DEF ObsInv
  <2>q. QED
    BY <2>2, <2>3, <2>4, Advance DEF Moved
<1>2. CASE /\ lost' = lost + 1 /\ stage = "admit"
           /\ memory' = [memory EXCEPT !.frozen = FALSE] /\ UNCHANGED <<record, stage, counted>>
  <2>1. memory' \in Views /\ memory'.phase = memory.phase
    BY <1>2 DEF ObsInv, Views
  <2>2. ObsInv'
    BY <1>2, <2>1 DEF ObsInv
  <2>q. QED
    BY <1>2, <2>2, Advance DEF Moved
<1>q. QED
  BY <1>1, <1>2 DEF FreezeAdmission

LEMMA HydrateStep == ASSUME ObsInv, Hydrate PROVE Moved
<1>1. /\ memory' \in Views /\ memory'.phase = record.phase /\ memory'.frozen
  BY DEF ObsInv, Hydrate, Views, OpRecords, Metrics
<1>2. \A d \in ObsDocs : Ahead(record.phase[d], record.phase[d])
  BY Ranks DEF Ahead, ObsInv, OpRecords
<1>3. stage # "end" /\ UNCHANGED <<stage, record, counted, lost>>
  BY DEF Hydrate
<1>4. ObsInv'
  BY <1>1, <1>2, <1>3 DEF ObsInv
<1>q. QED
  BY <1>3, <1>4, Advance DEF Moved

LEMMA MaterialiseStep == ASSUME ObsInv, Materialise PROVE Moved
<1>1. ObsInv'
  BY DEF ObsInv, Materialise
<1>q. QED
  BY <1>1, Advance DEF Moved, Materialise

LEMMA TerminaliseStep == ASSUME ObsInv, Terminalise PROVE Moved
<1>1. /\ record' \in OpRecords /\ record'.phase = record.phase /\ record'.active = record.active
      /\ record'.progress = record.progress
      /\ record'.status = "succeeded" => memory.metrics # "failed"
  BY DEF ObsInv, Terminalise, OpRecords
<1>2. ObsInv'
  BY <1>1 DEF ObsInv, Terminalise
<1>q. QED
  BY <1>1, <1>2, Advance DEF Moved, Terminalise

LEMMA ProgressStep ==
    ASSUME ObsInv, NEW s \in Stages, NEW k \in 0..MaxProgress, Progress([step |-> s, current |-> k])
    PROVE  Moved
<1>0. k \in Nat
  BY ObsAssumption
<1>1. /\ record' \in OpRecords /\ record'.phase = record.phase /\ record'.active = record.active
      /\ record'.progress = [step |-> s, current |-> k] /\ record'.status = record.status
  BY <1>0 DEF ObsInv, Progress, OpRecords
<1>2. /\ ~Terminal(record.status) /\ Advances(record.progress, record'.progress)
      /\ UNCHANGED <<stage, memory, counted, lost>>
  BY <1>1 DEF Progress, Writable
<1>3. ObsInv'
  BY <1>1, <1>2 DEF ObsInv
<1>q. QED
  BY <1>1, <1>2, <1>3, Advance DEF Moved

\* The projections that the worker publishes follow the one before.
LEMMA DocumentsMove ==
    ASSUME NEW m \in Views, NEW ds \in SUBSET ObsDocs, NEW phase \in Phases
    PROVE  /\ ApplyAll(m, ds, phase) \in Views
           /\ ApplyAll(m, ds, phase).frozen = m.frozen /\ ApplyAll(m, ds, phase).metrics = m.metrics
           /\ \A d \in ObsDocs : /\ Ahead(ApplyAll(m, ds, phase).phase[d], m.phase[d])
                                 /\ ApplyAll(m, ds, phase).phase[d] \in {m.phase[d], phase}
<1>1. \A d \in ObsDocs : m.phase[d] \in Phases /\ Ahead(m.phase[d], m.phase[d])
  BY Ranks DEF Views, Ahead
<1>2. \A d \in ObsDocs : /\ NextPhase(m.phase[d], phase) \in Phases
                         /\ Ahead(NextPhase(m.phase[d], phase), m.phase[d])
                         /\ NextPhase(m.phase[d], phase) \in {m.phase[d], phase}
  BY <1>1, NextPhaseAhead
<1>3. ApplyAll(m, ds, phase) = [m EXCEPT !.phase = [d \in ObsDocs |-> IF d \in ds THEN NextPhase(m.phase[d], phase)
                                                                      ELSE m.phase[d]]]
  BY DEF ApplyAll, Views
<1>. DEFINE new == [d \in ObsDocs |-> IF d \in ds THEN NextPhase(m.phase[d], phase) ELSE m.phase[d]]
<1>4. new \in [ObsDocs -> Phases]
  BY <1>1, <1>2
<1>5. \A d \in ObsDocs : Ahead(new[d], m.phase[d]) /\ new[d] \in {m.phase[d], phase}
  BY <1>1, <1>2
<1>. HIDE DEF new
<1>6. /\ [m EXCEPT !.phase = new] \in Views /\ [m EXCEPT !.phase = new].phase = new
      /\ [m EXCEPT !.phase = new].frozen = m.frozen /\ [m EXCEPT !.phase = new].metrics = m.metrics
  BY <1>4 DEF Views
<1>7. ApplyAll(m, ds, phase) = [m EXCEPT !.phase = new]
  BY <1>3 DEF new
<1>q. QED
  BY <1>5, <1>6, <1>7

LEMMA Unmoved ==
    ASSUME ObsInv
    PROVE  /\ memory \in Views /\ (stage # "admit" => memory.frozen)
           /\ \A d \in ObsDocs : /\ memory.phase[d] \in Phases /\ Ahead(memory.phase[d], memory.phase[d])
                                 /\ memory.phase[d] = "indexed" => counted
  BY Ranks DEF ObsInv, Views, Ahead

LEMMA DocumentPhaseStep ==
    ASSUME ObsInv, NEW d \in ObsDocs, NEW phase \in Phases, DocumentPhase(d, phase) PROVE Moved
<1>. DEFINE m == Apply(memory, d, phase)
<1>1. m = [memory EXCEPT !.phase = [memory.phase EXCEPT ![d] = NextPhase(memory.phase[d], phase)]]
  BY Unmoved DEF Apply, Views
<1>2. /\ NextPhase(memory.phase[d], phase) \in Phases
      /\ Ahead(NextPhase(memory.phase[d], phase), memory.phase[d])
      /\ NextPhase(memory.phase[d], phase) \in {memory.phase[d], phase}
  BY Unmoved, NextPhaseAhead
<1>3. phase = "indexed" => counted
  BY DEF DocumentPhase, PhaseOf
<1>4. stage \in {"ingest", "chunk", "dense"}
  BY DEF DocumentPhase, PhaseOf
<1>5. /\ m \in Views /\ m.frozen = memory.frozen
      /\ \A e \in ObsDocs : /\ Ahead(m.phase[e], memory.phase[e])
                            /\ m.phase[e] = "indexed" => counted
  <2>. DEFINE n == [memory.phase EXCEPT ![d] = NextPhase(memory.phase[d], phase)]
  <2>1. memory.phase \in [ObsDocs -> Phases]
    BY Unmoved DEF Views
  <2>2. /\ n \in [ObsDocs -> Phases] /\ n[d] = NextPhase(memory.phase[d], phase)
        /\ \A e \in ObsDocs : e # d => n[e] = memory.phase[e]
    BY <1>2, <2>1
  <2>. HIDE DEF n
  <2>3. [memory EXCEPT !.phase = n] \in Views /\ [memory EXCEPT !.phase = n].phase = n
        /\ [memory EXCEPT !.phase = n].frozen = memory.frozen
    BY <2>2, Unmoved DEF Views
  <2>4. m = [memory EXCEPT !.phase = n]
    BY <1>1 DEF n
  <2>5. \A e \in ObsDocs : Ahead(n[e], memory.phase[e]) /\ (n[e] = "indexed" => counted)
    BY <1>2, <1>3, <2>2, Unmoved
  <2>. HIDE DEF m
  <2>q. QED
    BY <2>3, <2>4, <2>5
<1>6. PublishView(m) /\ UNCHANGED <<stage, counted>>
  BY DEF DocumentPhase
<1>7. ~Terminal(record.status) /\ stage \in Stages /\ counted \in BOOLEAN
  BY <1>4 DEF ObsInv
<1>. HIDE DEF m
<1>q. QED
  BY <1>4, <1>5, <1>6, <1>7, Unmoved, PublishKeeps DEF Moved

\* A view with the same phases.
LEMMA SamePhases ==
    ASSUME ObsInv, NEW m \in Views, m.phase = memory.phase
    PROVE  \A d \in ObsDocs : /\ Ahead(m.phase[d], memory.phase[d])
                              /\ m.phase[d] = "indexed" => counted
  BY Unmoved

LEMMA ActivityStep == ASSUME ObsInv, NEW ds \in SUBSET ObsDocs, Activity(ds) PROVE Moved
<1>. DEFINE m == [memory EXCEPT !.active = ds]
<1>1. m \in Views /\ m.phase = memory.phase /\ m.frozen = memory.frozen
  BY Unmoved DEF Views
<1>2. PublishView(m) /\ UNCHANGED <<stage, counted>> /\ stage = "dense"
  BY DEF Activity
<1>3. ~Terminal(record.status) /\ stage \in Stages /\ counted \in BOOLEAN
  BY <1>2 DEF ObsInv
<1>. HIDE DEF m
<1>q. QED
  BY <1>1, <1>2, <1>3, SamePhases, Unmoved, PublishKeeps DEF Moved

LEMMA LateEventStep == ASSUME ObsInv, LateEvent PROVE Moved
<1>. DEFINE m == [memory EXCEPT !.active = ObsDocs]
<1>1. m \in Views /\ m.phase = memory.phase /\ m.frozen = memory.frozen /\ m.metrics = memory.metrics
  BY Unmoved DEF Views
<1>2. PublishView(m) /\ UNCHANGED <<stage, counted>> /\ Terminal(record.status)
  BY DEF LateEvent
<1>3. stage = "end" /\ counted \in BOOLEAN
  BY <1>2 DEF ObsInv
<1>. HIDE DEF m
<1>q. QED
  BY <1>1, <1>2, <1>3, SamePhases, Unmoved, PublishKeeps DEF Moved, Stages

\* A report of a stage: some documents failed, the others went through.
LEMMA Reported ==
    ASSUME ObsInv, NEW bad \in SUBSET ObsDocs, NEW good \in {"parsed", "chunked"}, NEW metrics \in Metrics
    PROVE  LET m == [ApplyAll(ApplyAll(memory, bad, "failed"), ObsDocs \ bad, good) EXCEPT !.metrics = metrics]
           IN /\ m \in Views /\ m.frozen = memory.frozen
              /\ \A d \in ObsDocs : /\ m.phase[d] \in Phases
                                    /\ Ahead(m.phase[d], memory.phase[d])
                                    /\ m.phase[d] = "indexed" => counted
<1>. DEFINE one == ApplyAll(memory, bad, "failed")
            two == ApplyAll(one, ObsDocs \ bad, good)
<1>0. "failed" \in Phases /\ good \in Phases /\ ObsDocs \ bad \in SUBSET ObsDocs
  BY Ranks
<1>1. /\ one \in Views /\ one.frozen = memory.frozen
      /\ \A d \in ObsDocs : /\ Ahead(one.phase[d], memory.phase[d])
                            /\ one.phase[d] \in {memory.phase[d], "failed"}
  BY <1>0, Unmoved, DocumentsMove
<1>. HIDE DEF one
<1>2. /\ two \in Views /\ two.frozen = memory.frozen
      /\ \A d \in ObsDocs : /\ Ahead(two.phase[d], one.phase[d])
                            /\ two.phase[d] \in {one.phase[d], good}
  BY <1>0, <1>1, DocumentsMove
<1>. HIDE DEF two
<1>3. \A d \in ObsDocs : /\ one.phase[d] \in Phases /\ two.phase[d] \in Phases
                         /\ memory.phase[d] \in Phases
  BY <1>1, <1>2, Unmoved DEF Views
<1>4. \A d \in ObsDocs : Ahead(two.phase[d], memory.phase[d])
  BY <1>1, <1>2, <1>3, AheadFollows
<1>5. \A d \in ObsDocs : two.phase[d] = "indexed" => counted
  BY <1>1, <1>2, Unmoved
<1>6. /\ [two EXCEPT !.metrics = metrics] \in Views
      /\ [two EXCEPT !.metrics = metrics].phase = two.phase
      /\ [two EXCEPT !.metrics = metrics].frozen = two.frozen
  BY <1>2 DEF Views
<1>q. QED
  BY <1>2, <1>3, <1>4, <1>5, <1>6 DEF two, one

LEMMA IngestReportStep == ASSUME ObsInv, NEW bad \in SUBSET ObsDocs, IngestReport(bad) PROVE Moved
<1>. DEFINE m == [ApplyAll(ApplyAll(memory, bad, "failed"), ObsDocs \ bad, "parsed") EXCEPT !.metrics = "ingest"]
<1>1. /\ m \in Views /\ m.frozen = memory.frozen
      /\ \A d \in ObsDocs : Ahead(m.phase[d], memory.phase[d]) /\ (m.phase[d] = "indexed" => counted)
  BY Reported DEF Metrics
<1>2. PublishView(m) /\ UNCHANGED counted /\ stage = "ingest" /\ stage' \in {"chunk", "closing"}
  BY DEF IngestReport
<1>3. ~Terminal(record.status) /\ counted \in BOOLEAN
  BY <1>2 DEF ObsInv
<1>. HIDE DEF m
<1>q. QED
  BY <1>1, <1>2, <1>3, Unmoved, PublishKeeps DEF Moved, Stages

LEMMA DenseFollows ==
    ASSUME NEW m \in Views
    PROVE  /\ BeforeDense(m) \in Views /\ BeforeDense(m).frozen = m.frozen
           /\ \A d \in ObsDocs : /\ Ahead(BeforeDense(m).phase[d], m.phase[d])
                                 /\ BeforeDense(m).phase[d] = "indexed" => m.phase[d] = "indexed"
<1>. DEFINE new == [d \in ObsDocs |-> IF m.phase[d] \in {"chunked", "parsed", "pending"}
                                      THEN "indexing" ELSE m.phase[d]]
<1>1. BeforeDense(m) = [m EXCEPT !.active = {}, !.phase = new]
  BY DEF BeforeDense, Views
<1>2. \A d \in ObsDocs : m.phase[d] \in Phases
  BY DEF Views
<1>3. new \in [ObsDocs -> Phases] /\ \A d \in ObsDocs : Ahead(new[d], m.phase[d])
  BY <1>2, Ranks DEF Ahead, Rank, Absorbing
<1>4. \A d \in ObsDocs : new[d] = "indexed" => m.phase[d] = "indexed"
  OBVIOUS
<1>. HIDE DEF new
<1>q. QED
  BY <1>1, <1>3, <1>4 DEF Views

LEMMA ChunkReportStep == ASSUME ObsInv, NEW bad \in SUBSET ObsDocs, ChunkReport(bad) PROVE Moved
<1>. DEFINE n == [ApplyAll(ApplyAll(memory, bad, "failed"), ObsDocs \ bad, "chunked") EXCEPT !.metrics = "chunk"]
            m == IF bad = {} THEN BeforeDense(n) ELSE n
<1>1. /\ n \in Views /\ n.frozen = memory.frozen
      /\ \A d \in ObsDocs : /\ n.phase[d] \in Phases
                            /\ Ahead(n.phase[d], memory.phase[d]) /\ (n.phase[d] = "indexed" => counted)
  BY Reported DEF Metrics
<1>2. PublishView(m) /\ UNCHANGED counted /\ stage = "chunk" /\ stage' \in {"dense", "closing"}
  BY DEF ChunkReport
<1>3. ~Terminal(record.status) /\ counted \in BOOLEAN
  BY <1>2 DEF ObsInv
<1>. HIDE DEF n
<1>4. /\ m \in Views /\ m.frozen = memory.frozen
      /\ \A d \in ObsDocs : Ahead(m.phase[d], memory.phase[d]) /\ (m.phase[d] = "indexed" => counted)
  <2>1. /\ BeforeDense(n) \in Views /\ BeforeDense(n).frozen = n.frozen
        /\ \A d \in ObsDocs : /\ Ahead(BeforeDense(n).phase[d], n.phase[d])
                              /\ BeforeDense(n).phase[d] = "indexed" => n.phase[d] = "indexed"
    BY <1>1, DenseFollows
  <2>2. \A d \in ObsDocs : BeforeDense(n).phase[d] \in Phases /\ memory.phase[d] \in Phases
    BY <2>1, Unmoved DEF Views
  <2>3. \A d \in ObsDocs : Ahead(BeforeDense(n).phase[d], memory.phase[d])
    BY <1>1, <2>1, <2>2, AheadFollows
  <2>q. QED
    BY <1>1, <2>1, <2>3
<1>. HIDE DEF m
<1>q. QED
  BY <1>2, <1>3, <1>4, Unmoved, PublishKeeps DEF Moved, Stages

LEMMA DenseReportStep == ASSUME ObsInv, NEW ok \in BOOLEAN, DenseReport(ok) PROVE Moved
<1>. DEFINE new == [d \in ObsDocs |-> IF ok /\ memory.phase[d] = "indexing" THEN "indexed" ELSE memory.phase[d]]
            m == [memory EXCEPT !.active = {}, !.metrics = "dense", !.phase = new]
<1>1. DenseClosed(memory, ok) = m
  BY Unmoved DEF DenseClosed, Views
<1>2. /\ PublishView(m) /\ UNCHANGED counted /\ stage = "dense" /\ stage' \in {"lexical", "closing"}
      /\ ok => counted
      /\ stage' = "lexical" => ok
  BY <1>1 DEF DenseReport
<1>3. ~Terminal(record.status) /\ counted \in BOOLEAN
  BY <1>2 DEF ObsInv
<1>4. /\ new \in [ObsDocs -> Phases]
      /\ \A d \in ObsDocs : Ahead(new[d], memory.phase[d]) /\ (new[d] = "indexed" => counted)
  BY <1>2, Unmoved, Ranks DEF Ahead, Rank, Absorbing
<1>. HIDE DEF new
<1>5. m \in Views /\ m.phase = new /\ m.frozen = memory.frozen
  BY <1>4, Unmoved DEF Views, Metrics
<1>. HIDE DEF m
<1>q. QED
  BY <1>2, <1>3, <1>4, <1>5, Unmoved, PublishKeeps DEF Moved, Stages

LEMMA LexicalReportStep == ASSUME ObsInv, NEW ok \in BOOLEAN, LexicalReport(ok) PROVE Moved
<1>. DEFINE m == [memory EXCEPT !.metrics = "lexical"]
<1>1. m \in Views /\ m.phase = memory.phase /\ m.frozen = memory.frozen
  BY Unmoved DEF Views, Metrics
<1>2. PublishView(m) /\ UNCHANGED counted /\ stage = "lexical" /\ stage' \in {"publish", "closing"}
  BY DEF LexicalReport
<1>3. ~Terminal(record.status) /\ counted
  BY <1>2 DEF ObsInv
<1>. HIDE DEF m
<1>q. QED
  BY <1>1, <1>2, <1>3, SamePhases, Unmoved, PublishKeeps DEF Moved, Stages

LEMMA CompleteFailedStep == ASSUME ObsInv, CompleteFailed PROVE Moved
<1>. DEFINE m == [memory EXCEPT !.active = {}, !.metrics = "failed"]
<1>1. m \in Views /\ m.phase = memory.phase /\ m.frozen = memory.frozen /\ m.active = {} /\ m.metrics = "failed"
  BY Unmoved DEF Views, Metrics
<1>2. PublishView(m) /\ UNCHANGED counted /\ stage = "closing" /\ stage' = "end"
  BY DEF CompleteFailed
<1>3. ~Terminal(record.status) /\ counted \in BOOLEAN
  BY <1>2 DEF ObsInv
<1>. HIDE DEF m
<1>q. QED
  BY <1>1, <1>2, <1>3, SamePhases, Unmoved, PublishKeeps DEF Moved, Stages

\* The end of a success: every document is settled.
LEMMA Settled ==
    ASSUME ObsInv, NEW phase \in {"indexed", "removed"}, phase = "indexed" => counted
    PROVE  LET m == [SettleAs(memory, phase) EXCEPT !.metrics = "final"] IN
           /\ m \in Views /\ m.frozen = memory.frozen /\ m.active = {}
           /\ \A d \in ObsDocs : /\ Ahead(m.phase[d], memory.phase[d]) /\ Finished(m.phase[d])
                                 /\ m.phase[d] = "indexed" => counted
<1>. DEFINE new == [d \in ObsDocs |-> IF memory.phase[d] \in Absorbing THEN memory.phase[d] ELSE phase]
<1>1. SettleAs(memory, phase) = [memory EXCEPT !.active = {}, !.phase = new]
  BY Unmoved DEF SettleAs, Views
<1>2. phase \in Phases /\ Rank[phase] = 6
  BY DEF Phases, Rank
<1>3. /\ new \in [ObsDocs -> Phases]
      /\ \A d \in ObsDocs : /\ Ahead(new[d], memory.phase[d]) /\ Finished(new[d])
                            /\ new[d] = "indexed" => counted
  BY <1>2, Unmoved, Ranks DEF Ahead, Finished, Absorbing
<1>. HIDE DEF new
<1>q. QED
  BY <1>1, <1>3, Unmoved DEF Views, Metrics

LEMMA AfterPublishStep == ASSUME ObsInv, AfterPublish PROVE Moved
<1>. DEFINE m == [SettleAs(memory, "indexed") EXCEPT !.metrics = "final"]
<1>1. PublishView(m) /\ UNCHANGED counted /\ stage = "publish" /\ stage' = "end"
  BY DEF AfterPublish
<1>2. ~Terminal(record.status) /\ counted
  BY <1>1 DEF ObsInv
<1>3. /\ m \in Views /\ m.frozen = memory.frozen /\ m.active = {}
      /\ \A d \in ObsDocs : /\ Ahead(m.phase[d], memory.phase[d]) /\ Finished(m.phase[d])
                            /\ m.phase[d] = "indexed" => counted
  BY <1>2, Settled
<1>. HIDE DEF m
<1>q. QED
  BY <1>1, <1>2, <1>3, Unmoved, PublishKeeps DEF Moved, Stages

LEMMA CompleteEmptyStep == ASSUME ObsInv, CompleteEmpty PROVE Moved
<1>. DEFINE m == [SettleAs(memory, "removed") EXCEPT !.metrics = "final"]
<1>1. PublishView(m) /\ UNCHANGED counted /\ stage = "empty" /\ stage' = "end"
  BY DEF CompleteEmpty
<1>2. ~Terminal(record.status) /\ counted \in BOOLEAN
  BY <1>1 DEF ObsInv
<1>3. /\ m \in Views /\ m.frozen = memory.frozen /\ m.active = {}
      /\ \A d \in ObsDocs : /\ Ahead(m.phase[d], memory.phase[d]) /\ Finished(m.phase[d])
                            /\ m.phase[d] = "indexed" => counted
  BY Settled
<1>. HIDE DEF m
<1>q. QED
  BY <1>1, <1>2, <1>3, Unmoved, PublishKeeps DEF Moved, Stages

LEMMA RecordStep == ObsInv /\ ObsNext => Moved
<1>. SUFFICES ASSUME ObsInv, ObsNext PROVE Moved
  OBVIOUS
<1>1. CASE FreezeAdmission \/ Hydrate \/ Materialise
  BY <1>1, FreezeStep, HydrateStep, MaterialiseStep
<1>2. CASE \E d \in ObsDocs, phase \in Phases : DocumentPhase(d, phase)
  BY <1>2, DocumentPhaseStep
<1>3. CASE \E ds \in SUBSET ObsDocs : Activity(ds) \/ IngestReport(ds) \/ ChunkReport(ds)
  BY <1>3, ActivityStep, IngestReportStep, ChunkReportStep
<1>4. CASE \E ok \in BOOLEAN : DenseReport(ok) \/ LexicalReport(ok)
  BY <1>4, DenseReportStep, LexicalReportStep
<1>5. CASE AfterPublish \/ CompleteEmpty \/ CompleteFailed \/ Terminalise \/ LateEvent
  BY <1>5, AfterPublishStep, CompleteEmptyStep, CompleteFailedStep, TerminaliseStep, LateEventStep
<1>6. CASE \E s \in Stages, k \in 0..MaxProgress : Progress([step |-> s, current |-> k])
  BY <1>6, ProgressStep
<1>q. QED
  BY <1>1, <1>2, <1>3, <1>4, <1>5, <1>6 DEF ObsNext

\* The invariant of the record of a running operation and of the projection
\* its publisher keeps (observability.py), for any documents, any order of
\* events and any number of lost writes.
THEOREM ObsInvariant == ObsSpec => []ObsInv
<1>1. ObsInit => ObsInv
  <2>. SUFFICES ASSUME ObsInit PROVE ObsInv
    OBVIOUS
  <2>1. "pending" \in Phases /\ Ahead("pending", "pending")
    BY DEF Phases, Rank, Ahead
  <2>2. memory \in Views /\ \A d \in ObsDocs : memory.phase[d] = "pending"
    BY <2>1 DEF ObsInit, Views, Metrics
  <2>3. record \in OpRecords /\ record.status = "running" /\ \A d \in ObsDocs : record.phase[d] = "pending"
    BY <2>1 DEF ObsInit, OpRecords, Metrics, NoProgress
  <2>4. ~Terminal(record.status)
    BY <2>3 DEF Terminal
  <2>q. QED
    BY <2>1, <2>2, <2>3, <2>4 DEF ObsInit, ObsInv, Stages
<1>2. ObsInv /\ [ObsNext]_obsVars => ObsInv'
  <2>1. ObsInv /\ UNCHANGED obsVars => ObsInv'
    BY DEF ObsInv, obsVars
  <2>q. QED
    BY <2>1, RecordStep DEF Moved
<1>q. QED
  BY <1>1, <1>2, PTL DEF ObsSpec

\* What a client polls only moves forward and ends as it says: phases and
\* counters never go back, nothing follows the end, a document shown as
\* indexed was counted, and a finished operation whose writes all arrived
\* shows no document at work.
THEOREM RecordMovesOn == ObsSpec => RecordAdvances
<1>. DEFINE Forward == /\ PhasesAdvance /\ ProgressAdvances /\ FinishedIsQuiet
                       /\ IndexedIsCounted' /\ FinishedShowsNoWork'
<1>1. ObsInv => IndexedIsCounted /\ FinishedShowsNoWork
  BY DEF ObsInv, IndexedIsCounted, FinishedShowsNoWork, Finished
<1>2. ObsInv' => IndexedIsCounted' /\ FinishedShowsNoWork'
  BY <1>1, PTL
<1>3. ObsInv /\ [ObsNext]_obsVars => [Forward]_obsVars
  <2>1. ASSUME ObsInv, ObsNext PROVE Forward
    BY <1>2, <2>1, RecordStep DEF Moved
  <2>q. QED
    BY <2>1
<1>q. QED
  BY <1>3, ObsInvariant, PTL DEF ObsSpec, RecordAdvances, Forward

(***************************************************************************)
(* The four stages.                                                        *)
(***************************************************************************)

Causes == {"none", "discovery", "document", "conflict", "io", "manifest", "precondition", "empty",
           "busy", "exists", "count", "destination"}
RunRecords ==
    [stage : {"none", "ingest", "chunk", "index", "lexical"},
     pc : {"idle", "sources", "write", "documents", "embed", "create", "upsert", "build", "place",
           "manifest", "state"},
     src : Sources, prev : Sources, id : CorpusIds, cfg : Configs \cup {0},
     todo : SUBSET (Paths \cup Contents), failed : BOOLEAN, cause : Causes,
     status : {"none", "FAILED", "SUCCESS", "NO_OP"}]

\* What the artifacts of a corpus are, and a collection that was verified.
Parsed(id) == \A c \in Documents(id) : parsed[c] # "none"
HasChunks(id) == \A c \in Documents(id) : chunks[c] # "none"
Whole(i) == /\ coll[i].there /\ coll[i].points = Eligible(i[1], HeadingOnly)
            /\ Cardinality(coll[i].points) = ChildJobs(i[1], HeadingOnly)

\* What is damaged was good, what is named complete is, and no directory
\* holds one child twice.
StoresKept ==
    /\ \A c \in Contents : (parsed[c] = "bad" \/ chunks[c] = "bad") => hurt.artifact
    /\ \A e \in Contents \X Configs : embeds[e] = "bad" => hurt.artifact
    /\ \A id \in CorpusIds : /\ ldir[id] = "bad" => hurt.artifact
                             /\ ldir[id] # "none" => DistinctJobs(id)
                             /\ id \in lman => ldir[id] # "none"
    /\ \A i \in Indexes : /\ i \in dman /\ i \notin hurt.index => Whole(i)
                          /\ ~coll[i].there => coll[i].points = {}

\* Why a stage that failed did.
Explained(r) ==
    /\ r.cause # "exists"
    /\ r.cause = "conflict" => hurt.artifact
    /\ r.cause = "count" => \E c \in Contents : r.id[c] > 1
    /\ r.cause = "manifest" => \/ OfSameCorpus(r.src) \ {r.src} # {}
                               \/ corpus_id(r.src) \in hurt.rewritten
    /\ r.cause = "destination" => ldir[r.id] # "none"

\* What a process in a stage knows of the stores that others write too.
Ingesting(r) ==
    r.stage = "ingest" =>
      /\ r.pc \in {"sources", "write", "state"}
      /\ r.pc = "sources" =>
           /\ r.todo \subseteq Paths /\ \A q \in r.todo : r.src[q] \in Contents
           /\ \A q \in Paths : r.src[q] \in Contents
                => q \in r.todo \/ r.failed \/ parsed[r.src[q]] # "none"
      /\ r.pc \in {"write", "state"} => Parsed(corpus_id(r.src))
      /\ r.pc = "state" => HasManifest(r.src)
Chunking(r) ==
    r.stage = "chunk" =>
      /\ r.pc \in {"documents", "state"}
      /\ r.pc = "documents" =>
           /\ r.todo \subseteq Documents(r.id) /\ Parsed(r.id)
           /\ \A c \in Documents(r.id) : c \in r.todo \/ r.failed \/ chunks[c] # "none"
      /\ r.pc = "state" => r.id \in kman /\ HasChunks(r.id)
Termed(r) ==
    r.stage = "lexical" =>
      /\ r.pc \in {"build", "place", "manifest", "state"}
      /\ r.pc = "place" => DistinctJobs(r.id)
      /\ r.pc = "manifest" => ldir[r.id] # "none"
      /\ r.pc = "state" => r.id \in lman
Knows(r) ==
    /\ r.stage = "none" <=> r.pc = "idle"
    /\ r.status = "FAILED" => Explained(r)
    /\ r.pc # "idle" => /\ r.status = "none" /\ r.cause \in {"none", "document", "conflict", "io"}
                        /\ r.cause = "conflict" => hurt.artifact
    /\ Ingesting(r) /\ Chunking(r) /\ Termed(r)

\* A process that indexes has the vector store to itself.
Indexing(p, r) ==
    r.stage = "index" =>
      LET i == <<r.id, r.cfg>> IN
      /\ client = p /\ r.cfg \in Configs
      /\ r.pc \in {"embed", "create", "upsert", "state"}
      /\ r.pc \in {"embed", "create", "upsert"} => i \notin dman \/ i \in hurt.index
      /\ r.pc = "embed" => r.todo \subseteq Contents
      /\ r.pc = "create" => ~coll[i].there
      /\ r.pc = "upsert" => /\ coll[i].there /\ r.todo \subseteq Eligible(r.id, HeadingOnly)
                            /\ coll[i].points \subseteq Eligible(r.id, HeadingOnly)
                            /\ Eligible(r.id, HeadingOnly) \subseteq coll[i].points \cup r.todo
      /\ r.pc = "state" => i \in dman

Written ==
    /\ files \in Sources /\ config \in Configs
    /\ parsed \in [Contents -> Quality] /\ chunks \in [Contents -> Quality]
    /\ embeds \in [Contents \X Configs -> Quality] /\ ldir \in [CorpusIds -> Quality]
    /\ coll \in [Indexes -> [there : BOOLEAN, points : SUBSET Contents]]
    /\ cman \subseteq Sources /\ kman \subseteq CorpusIds /\ dman \subseteq Indexes
    /\ lman \subseteq CorpusIds
    /\ cstate \in Sources /\ kstate \in CorpusIds /\ dstate \in Indexes /\ lstate \in CorpusIds
    /\ client \in Procs \cup {"none"} /\ faults \in 0..MaxFaults
    /\ hurt \in [artifact : BOOLEAN, index : SUBSET Indexes, rewritten : SUBSET CorpusIds]
PipeShape == Written /\ run \in [Procs -> RunRecords]
Pointers ==
    /\ cstate # NoSources => HasManifest(cstate) /\ Parsed(corpus_id(cstate))
    /\ kstate # NoCorpus => kstate \in kman /\ HasChunks(kstate)
    /\ dstate # NoIndex => dstate \in dman
    /\ lstate # NoCorpus => lstate \in lman
PipeInv ==
    /\ PipeShape /\ StoresKept /\ Pointers
    /\ \A p \in Procs : Knows(run[p]) /\ Indexing(p, run[p])

(* --- Counting ------------------------------------------------------------- *)

LEMMA CountOf ==
    ASSUME NEW s \in Sources, NEW c \in Contents
    PROVE  /\ corpus_id(s)[c] \in Nat /\ corpus_id(s)[c] <= Cardinality(Paths)
           /\ corpus_id(s)[c] > 0 <=> \E p \in Paths : s[p] = c
<1>. DEFINE P == {p \in Paths : s[p] = c}
<1>1. IsFiniteSet(P) /\ Cardinality(P) <= Cardinality(Paths)
  BY PipelineAssumption, FS_Subset
<1>2. Cardinality(P) \in Nat /\ (Cardinality(P) = 0 <=> P = {})
  BY <1>1, FS_CardinalityType, FS_EmptySet
<1>3. corpus_id(s)[c] = Cardinality(P)
  BY DEF corpus_id
<1>q. QED
  BY <1>1, <1>2, <1>3

LEMMA IdsAreCounts ==
    ASSUME NEW id \in CorpusIds
    PROVE  /\ \A c \in Contents : id[c] \in Nat /\ id[c] <= Cardinality(Paths)
           /\ Cardinality(Paths) \in Nat
  BY CountOf, PipelineAssumption, FS_CardinalityType DEF CorpusIds

\* A searchable child is one job at least, and as many as its document has
\* paths.
LEMMA JobsCount ==
    ASSUME NEW id \in CorpusIds, NEW out
    PROVE  /\ IsFiniteSet(Eligible(id, out)) /\ ChildJobs(id, out) \in Nat
           /\ Cardinality(Eligible(id, out)) \in Nat
           /\ Cardinality(Eligible(id, out)) <= ChildJobs(id, out)
           /\ Cardinality(Eligible(id, out)) = ChildJobs(id, out)
                <=> \A c \in Eligible(id, out) : id[c] = 1
<1>. DEFINE E == Eligible(id, out)
            J == Jobs(id, out)
            f == [c \in E |-> <<c, 1>>]
            N == Cardinality(Paths)
<1>1. /\ \A c \in Contents : id[c] \in Nat /\ id[c] <= N
      /\ N \in Nat
  BY IdsAreCounts
<1>2. IsFiniteSet((Contents \ out) \X (1..N))
  <2>1. IsFiniteSet(Contents \ out)
    BY PipelineAssumption, FS_Subset
  <2>2. IsFiniteSet(1..N)
    BY <1>1, FS_Interval
  <2>q. QED
    BY <2>1, <2>2, FS_Product
<1>3. IsFiniteSet(J) /\ Cardinality(J) \in Nat
  <2>1. J \in SUBSET ((Contents \ out) \X (1..N))
    BY DEF Jobs
  <2>q. QED
    BY <1>2, <2>1, FS_Subset, FS_CardinalityType
<1>4. E = {c \in Contents \ out : id[c] > 0}
  BY DEF Eligible, Documents
<1>5. \A c \in Contents, k \in Int : <<c, k>> \in J <=> c \notin out /\ k \in 1..N /\ k <= id[c]
  BY DEF Jobs
<1>6. \A j \in J : \E c \in Contents, k \in 1..N : j = <<c, k>>
  BY DEF Jobs
<1>. HIDE DEF E, J, N
<1>7. f \in Injection(E, J)
  <2>1. \A c \in E : <<c, 1>> \in J
    BY <1>1, <1>4, <1>5
  <2>2. f \in [E -> J] /\ \A a, b \in E : f[a] = f[b] => a = b
    BY <2>1
  <2>. HIDE DEF f
  <2>q. QED
    BY <2>2 DEF Injection, IsInjective
<1>8. /\ IsFiniteSet(E) /\ Cardinality(E) <= Cardinality(J)
      /\ Cardinality(E) = Cardinality(J) <=> f \in Surjection(E, J)
  <2>. HIDE DEF f
  <2>q. QED
    BY <1>3, <1>7, FS_Injection
<1>9. f \in Surjection(E, J) <=> \A c \in E : id[c] = 1
  <2>1. f \in [E -> J]
    BY <1>7 DEF Injection
  <2>2. ASSUME f \in Surjection(E, J), NEW c \in E PROVE id[c] = 1
    <3>1. c \in Contents /\ c \notin out /\ id[c] \in Nat /\ id[c] > 0 /\ id[c] <= N
      BY <1>1, <1>4
    <3>. SUFFICES ASSUME id[c] >= 2 PROVE FALSE
      BY <3>1
    <3>2. <<c, 2>> \in J
      BY <1>1, <1>5, <3>1
    <3>3. PICK a \in E : f[a] = <<c, 2>>
      BY <2>2, <3>2 DEF Surjection
    <3>q. QED
      BY <3>3
  <2>3. ASSUME \A c \in E : id[c] = 1 PROVE f \in Surjection(E, J)
    <3>1. \A j \in J : \E c \in E : f[c] = j
      <4>. SUFFICES ASSUME NEW j \in J PROVE \E c \in E : f[c] = j
        OBVIOUS
      <4>1. PICK c \in Contents, k \in 1..N : j = <<c, k>>
        BY <1>6
      <4>2. c \notin out /\ k <= id[c] /\ id[c] \in Nat
        BY <1>1, <1>5, <4>1
      <4>3. c \in E /\ id[c] = 1
        BY <1>1, <1>4, <2>3, <4>2
      <4>q. QED
        BY <1>1, <4>1, <4>2, <4>3
    <3>. HIDE DEF f
    <3>q. QED
      BY <2>1, <3>1 DEF Surjection
  <2>q. QED
    BY <2>2, <2>3
<1>q. QED
  BY <1>3, <1>8, <1>9, FS_CardinalityType DEF ChildJobs, E, J

(* --- What other processes leave alone ------------------------------------- *)

\* Nothing written is taken away, but a manifest for one of the same documents.
Grows ==
    /\ \A c \in Contents : /\ parsed[c] # "none" => parsed'[c] # "none"
                           /\ chunks[c] # "none" => chunks'[c] # "none"
    /\ \A id \in CorpusIds : ldir[id] # "none" => ldir'[id] # "none"
    /\ kman \subseteq kman' /\ dman \subseteq dman' /\ lman \subseteq lman'
    /\ hurt.rewritten \subseteq hurt'.rewritten
    /\ \A m \in cman : \/ m \in cman'
                       \/ /\ corpus_id(m) \in hurt'.rewritten
                          /\ \E n \in cman' : corpus_id(n) = corpus_id(m)
    /\ hurt.artifact => hurt'.artifact

LEMMA ManifestKept ==
    ASSUME Grows, NEW s
    PROVE  /\ HasManifest(s) => HasManifest(s)'
           /\ \/ OfSameCorpus(s) \ {s} # {}
              \/ corpus_id(s) \in hurt.rewritten
              => \/ OfSameCorpus(s)' \ {s} # {}
                 \/ corpus_id(s) \in hurt'.rewritten
<1>. DEFINE C(m) == corpus_id(m)
<1>1. \A m : C(m)' = C(m)
  BY DEF corpus_id
<1>2. /\ OfSameCorpus(s) = {m \in cman : C(m) = C(s)}
      /\ OfSameCorpus(s)' = {m \in cman' : C(m) = C(s)}
  BY <1>1 DEF OfSameCorpus
<1>3. /\ hurt.rewritten \subseteq hurt'.rewritten
      /\ \A m \in cman : m \in cman' \/ (C(m) \in hurt'.rewritten /\ \E n \in cman' : C(n) = C(m))
  BY DEF Grows
<1>4. /\ HasManifest(s) <=> OfSameCorpus(s) # {} /\ (s \in cman \/ C(s) \in hurt.rewritten)
      /\ HasManifest(s)' <=> OfSameCorpus(s)' # {} /\ (s \in cman' \/ C(s) \in hurt'.rewritten)
  BY <1>1 DEF HasManifest
<1>. HIDE DEF C
<1>5. HasManifest(s) => HasManifest(s)'
  BY <1>2, <1>3, <1>4
<1>6. OfSameCorpus(s) \ {s} # {} => OfSameCorpus(s)' \ {s} # {} \/ C(s) \in hurt'.rewritten
  BY <1>2, <1>3
<1>q. QED
  BY <1>3, <1>5, <1>6 DEF C

LEMMA KnowsKept ==
    ASSUME Grows, NEW r \in RunRecords, Knows(r)
    PROVE  Knows(r)'
<1>1. \A id : /\ Parsed(id) => Parsed(id)'
              /\ HasChunks(id) => HasChunks(id)'
  BY DEF Grows, Parsed, HasChunks, Documents
<1>2. Explained(r) => Explained(r)'
  <2>1. r.id \in CorpusIds
    BY DEF RunRecords
  <2>q. QED
    BY <2>1, ManifestKept DEF Grows, Explained
<1>3. Ingesting(r)'
  BY <1>1, ManifestKept DEF Knows, Ingesting, Grows
<1>4. Chunking(r)'
  BY <1>1 DEF Knows, Chunking, Grows, Documents
<1>5. Termed(r)'
  BY DEF Knows, Termed, Grows, RunRecords
<1>q. QED
  BY <1>2, <1>3, <1>4, <1>5 DEF Knows, Grows

LEMMA PointersKept ==
    ASSUME Pointers, Grows, UNCHANGED pointers
    PROVE  Pointers'
<1>1. HasManifest(cstate) => HasManifest(cstate)'
  BY ManifestKept DEF pointers
<1>q. QED
  BY <1>1 DEF Pointers, Grows, Parsed, HasChunks, Documents, pointers

\* Another process, unless it has the vector store and that is touched.
LEMMA OtherKept ==
    ASSUME PipeInv, Grows, NEW o \in Procs, run'[o] = run[o],
           \/ UNCHANGED <<coll, dman, client>> /\ hurt'.index = hurt.index
           \/ client # o
    PROVE  (Knows(run[o]) /\ Indexing(o, run[o]))'
<1>1. PICK r : r = run[o]
  OBVIOUS
<1>2. r \in RunRecords /\ Knows(r) /\ Indexing(o, r)
  BY <1>1 DEF PipeInv, PipeShape, Written
<1>3. Knows(r)'
  BY <1>2, KnowsKept
<1>4. Indexing(o, r)'
  BY <1>2 DEF Indexing
<1>q. QED
  BY <1>1, <1>3, <1>4

\* A process takes a step.
LEMMA ProcessSteps ==
    ASSUME PipeInv, Grows, NEW p \in Procs, NEW r \in RunRecords, run' = [run EXCEPT ![p] = r],
           Knows(r)', Indexing(p, r)',
           \/ UNCHANGED <<coll, dman, client>> /\ hurt'.index = hurt.index
           \/ client \in {p, "none"}
    PROVE  /\ run' \in [Procs -> RunRecords]
           /\ \A o \in Procs : (Knows(run[o]) /\ Indexing(o, run[o]))'
<1>1. run \in [Procs -> RunRecords]
  BY DEF PipeInv, PipeShape, Written
<1>2. run' \in [Procs -> RunRecords] /\ run'[p] = r
  BY <1>1
<1>3. (Knows(run[p]) /\ Indexing(p, run[p]))'
  BY <1>2
<1>4. ASSUME NEW o \in Procs, o # p PROVE (Knows(run[o]) /\ Indexing(o, run[o]))'
  <2>1. run'[o] = run[o]
    BY <1>1, <1>4
  <2>2. \/ UNCHANGED <<coll, dman, client>> /\ hurt'.index = hurt.index
        \/ client # o
    BY <1>4, PipelineAssumption
  <2>q. QED
    BY <2>1, <2>2, OtherKept
<1>q. QED
  BY <1>2, <1>3, <1>4

\* A step that writes no store.
LEMMA QuietStep ==
    ASSUME PipeInv, UNCHANGED <<files, config, stores, manifests, pointers, hurt>>,
           NEW p \in Procs, NEW r \in RunRecords, run' = [run EXCEPT ![p] = r],
           Knows(r), Indexing(p, r)', faults' \in 0..MaxFaults,
           client' = client \/ (client \in {p, "none"} /\ client' \in {p, "none"})
    PROVE  PipeInv'
<1>. /\ UNCHANGED <<files, config, hurt, parsed, chunks, embeds, coll, ldir, cman, kman, dman, lman>>
     /\ UNCHANGED <<pointers, cstate, kstate, dstate, lstate>>
  BY DEF stores, manifests, pointers
<1>1. Grows
  BY DEF Grows
<1>2. Knows(r)'
  BY <1>1, KnowsKept
<1>3. /\ run' \in [Procs -> RunRecords]
      /\ \A o \in Procs : (Knows(run[o]) /\ Indexing(o, run[o]))'
  BY <1>1, <1>2, ProcessSteps
<1>4. Pointers'
  BY <1>1, PointersKept DEF PipeInv
<1>5. StoresKept'
  BY DEF PipeInv, StoresKept, Whole
<1>6. PipeShape'
  BY <1>3 DEF PipeInv, PipeShape, Written
<1>q. QED
  BY <1>3, <1>4, <1>5, <1>6 DEF PipeInv

(* --- Runs that end or begin ----------------------------------------------- *)

LEMMA SourcesFields ==
    /\ NoSources \in Sources /\ NoCorpus \in CorpusIds
    /\ \A s \in Sources : corpus_id(s) \in CorpusIds
  BY DEF NoSources, Sources, NoCorpus, CorpusIds

LEMMA IdleFields == Idle \in RunRecords
  BY SourcesFields DEF Idle, RunRecords, Causes

\* A record of no stage knows why it failed.
LEMMA RestingKnows ==
    ASSUME NEW r, r.stage = "none", r.pc = "idle", r.status = "FAILED" => Explained(r)
    PROVE  Knows(r) /\ \A p : Indexing(p, r)'
  BY DEF Knows, Ingesting, Chunking, Termed, Indexing

\* Report leaves a record of no stage.
LEMMA ReportFields ==
    ASSUME PipeInv, NEW p \in Procs, NEW status \in {"FAILED", "SUCCESS", "NO_OP"}, NEW cause \in Causes,
           Report(p, status, cause)
    PROVE  \E r \in RunRecords :
              /\ run' = [run EXCEPT ![p] = r] /\ r.stage = "none" /\ r.pc = "idle"
              /\ r.status = status
              /\ status = "FAILED" => r.cause = cause /\ r.id = run[p].id /\ r.src = run[p].src
<1>1. run[p] \in RunRecords /\ run \in [Procs -> RunRecords]
  BY DEF PipeInv, PipeShape, Written
<1>2. CASE status = "FAILED"
  <2>. DEFINE r == [Idle EXCEPT !.id = run[p].id, !.src = run[p].src, !.status = status, !.cause = cause]
  <2>1. /\ r \in RunRecords /\ r.stage = "none" /\ r.pc = "idle" /\ r.status = status
        /\ r.cause = cause /\ r.id = run[p].id /\ r.src = run[p].src
    BY <1>1, SourcesFields DEF Idle, RunRecords
  <2>2. run' = [run EXCEPT ![p] = r]
    BY <1>2 DEF Report
  <2>. HIDE DEF r
  <2>q. QED
    BY <2>1, <2>2
<1>3. CASE status # "FAILED"
  <2>. DEFINE r == [Idle EXCEPT !.status = status]
  <2>1. r \in RunRecords /\ r.stage = "none" /\ r.pc = "idle" /\ r.status = status
    BY SourcesFields DEF Idle, RunRecords, Causes
  <2>2. run' = [run EXCEPT ![p] = r]
    BY <1>3 DEF Report
  <2>. HIDE DEF r
  <2>q. QED
    BY <1>3, <2>1, <2>2
<1>q. QED
  BY <1>2, <1>3

\* A stage that ends where it is, its reason given.
LEMMA EndStep ==
    ASSUME PipeInv, UNCHANGED <<files, config, stores, manifests, pointers, hurt>>,
           NEW p \in Procs, NEW status \in {"FAILED", "SUCCESS", "NO_OP"}, NEW cause \in Causes,
           Report(p, status, cause), faults' \in 0..MaxFaults,
           client' = client \/ (client \in {p, "none"} /\ client' \in {p, "none"}),
           status = "FAILED" =>
             /\ cause # "exists" /\ (cause = "conflict" => hurt.artifact)
             /\ cause = "count" => \E c \in Contents : run[p].id[c] > 1
             /\ cause = "manifest" => OfSameCorpus(run[p].src) \ {run[p].src} # {}
             /\ cause = "destination" => ldir[run[p].id] # "none"
    PROVE  PipeInv'
<1>1. PICK r \in RunRecords :
        /\ run' = [run EXCEPT ![p] = r] /\ r.stage = "none" /\ r.pc = "idle"
        /\ r.status = status
        /\ status = "FAILED" => r.cause = cause /\ r.id = run[p].id /\ r.src = run[p].src
  BY ReportFields
<1>2. r.status = "FAILED" => Explained(r)
  BY <1>1 DEF Explained
<1>3. Knows(r) /\ Indexing(p, r)'
  BY <1>1, <1>2, RestingKnows
<1>q. QED
  BY <1>1, <1>3, QuietStep

\* A stage that is not begun.
LEMMA StopStep ==
    ASSUME PipeInv, UNCHANGED <<files, config, stores, manifests, pointers, hurt, faults, client>>,
           NEW p \in Procs, NEW status \in {"FAILED", "NO_OP"}, NEW cause \in Causes,
           run' = [run EXCEPT ![p] = [Idle EXCEPT !.status = status, !.cause = cause]],
           cause \notin {"exists", "count", "manifest", "destination"}, cause = "conflict" => hurt.artifact
    PROVE  PipeInv'
<1>0. status \in {"FAILED", "SUCCESS", "NO_OP"}
  OBVIOUS
<1>1. PICK r : r = [Idle EXCEPT !.status = status, !.cause = cause]
  OBVIOUS
<1>2. r \in RunRecords /\ r.stage = "none" /\ r.pc = "idle" /\ r.status = status /\ r.cause = cause
  BY <1>0, <1>1, SourcesFields DEF Idle, RunRecords
<1>3. Knows(r) /\ Indexing(p, r)'
  <2>1. Explained(r)
    BY <1>2 DEF Explained
  <2>q. QED
    BY <1>2, <2>1, RestingKnows
<1>4. faults' \in 0..MaxFaults
  BY DEF PipeInv, PipeShape, Written
<1>q. QED
  BY <1>1, <1>2, <1>3, <1>4, QuietStep

LEMMA PipeCrashStep == ASSUME PipeInv, NEW p \in Procs, PipeCrash(p) PROVE PipeInv'
<1>1. Knows(Idle) /\ Indexing(p, Idle)'
  <2>1. Idle.stage = "none" /\ Idle.pc = "idle" /\ Idle.status = "none"
    BY DEF Idle
  <2>. HIDE DEF Idle
  <2>q. QED
    BY <2>1, RestingKnows
<1>2. faults' \in 0..MaxFaults
  BY PipelineAssumption DEF PipeInv, PipeShape, Written, PipeCrash
<1>3. client' = client \/ (client \in {p, "none"} /\ client' \in {p, "none"})
  BY DEF PipeCrash
<1>4. UNCHANGED <<files, config, stores, manifests, pointers, hurt>> /\ run' = [run EXCEPT ![p] = Idle]
  BY DEF PipeCrash
<1>. HIDE DEF Idle
<1>q. QED
  BY <1>1, <1>2, <1>3, <1>4, IdleFields, QuietStep

LEMMA EditStep == ASSUME PipeInv, UserEdits PROVE PipeInv'
<1>1. /\ UNCHANGED <<stores, manifests, pointers, client, run, hurt>>
      /\ files' \in Sources /\ config' \in Configs
  BY DEF UserEdits, PipeInv, PipeShape, Written
<1>2. faults' \in 0..MaxFaults
  BY PipelineAssumption DEF PipeInv, PipeShape, Written, UserEdits
<1>3. /\ UNCHANGED <<hurt, parsed, chunks, embeds, coll, ldir, cman, kman, dman, lman, client, run>>
      /\ UNCHANGED <<cstate, kstate, dstate, lstate>>
  BY <1>1 DEF stores, manifests, pointers
<1>4. Grows
  BY <1>3 DEF Grows
<1>5. \A o \in Procs : (Knows(run[o]) /\ Indexing(o, run[o]))'
  BY <1>3, <1>4, OtherKept
<1>6. Pointers'
  BY <1>1, <1>4, PointersKept DEF PipeInv
<1>7. StoresKept'
  BY <1>3 DEF PipeInv, StoresKept, Whole
<1>8. PipeShape'
  BY <1>1, <1>2, <1>3 DEF PipeInv, PipeShape, Written
<1>q. QED
  BY <1>5, <1>6, <1>7, <1>8 DEF PipeInv

\* A step that writes stores, and whatever it leaves of the rest.
LEMMA StoreStep ==
    ASSUME PipeInv, Grows, UNCHANGED pointers, Written', StoresKept',
           NEW p \in Procs, NEW r \in RunRecords, run' = [run EXCEPT ![p] = r],
           Knows(r)', Indexing(p, r)',
           \/ UNCHANGED <<coll, dman, client>> /\ hurt'.index = hurt.index
           \/ client \in {p, "none"}
    PROVE  PipeInv'
<1>1. /\ run' \in [Procs -> RunRecords]
      /\ \A o \in Procs : (Knows(run[o]) /\ Indexing(o, run[o]))'
  BY ProcessSteps
<1>2. Pointers'
  BY PointersKept DEF PipeInv
<1>q. QED
  BY <1>1, <1>2 DEF PipeInv, PipeShape

\* The same for a pointer, which names what is there.
LEMMA PointerStep ==
    ASSUME PipeInv, UNCHANGED <<files, config, stores, manifests, faults, hurt>>, Pointers',
           cstate' \in Sources, kstate' \in CorpusIds, dstate' \in Indexes, lstate' \in CorpusIds,
           NEW p \in Procs, NEW status \in {"SUCCESS", "NO_OP"}, Report(p, status, "none"),
           client' = client \/ (client \in {p, "none"} /\ client' \in {p, "none"})
    PROVE  PipeInv'
<1>. UNCHANGED <<hurt, parsed, chunks, embeds, coll, ldir, cman, kman, dman, lman>>
  BY DEF stores, manifests
<1>0. "none" \in Causes /\ status \in {"FAILED", "SUCCESS", "NO_OP"}
  BY DEF Causes
<1>1. PICK r \in RunRecords :
        /\ run' = [run EXCEPT ![p] = r] /\ r.stage = "none" /\ r.pc = "idle" /\ r.status = status
  BY <1>0, ReportFields
<1>2. Grows
  BY DEF Grows
<1>3. Knows(r) /\ Indexing(p, r)'
  BY <1>1, RestingKnows
<1>4. Knows(r)'
  BY <1>2, <1>3, KnowsKept
<1>5. /\ run' \in [Procs -> RunRecords]
      /\ \A o \in Procs : (Knows(run[o]) /\ Indexing(o, run[o]))'
  BY <1>1, <1>2, <1>3, <1>4, ProcessSteps
<1>6. StoresKept'
  BY DEF PipeInv, StoresKept, Whole
<1>7. Written'
  BY DEF PipeInv, PipeShape, Written
<1>q. QED
  BY <1>5, <1>6, <1>7 DEF PipeInv, PipeShape

(* --- Ingestion ------------------------------------------------------------ *)

LEMMA ActiveIsParsed ==
    ASSUME PipeInv, NEW q \in Paths, cstate[q] \in Contents
    PROVE  parsed[cstate[q]] # "none"
<1>1. cstate # NoSources
  BY PipelineAssumption DEF NoSources
<1>2. cstate \in Sources
  BY DEF PipeInv, PipeShape, Written
<1>3. cstate[q] \in Documents(corpus_id(cstate))
  BY <1>2, CountOf DEF Documents
<1>q. QED
  BY <1>1, <1>3 DEF PipeInv, Pointers, Parsed

LEMMA BeginIngestStep == ASSUME PipeInv, NEW p \in Procs, BeginIngest(p) PROVE PipeInv'
<1>. DEFINE found == {q \in Paths : files[q] # NoFile}
<1>1. CASE found = {}
  <2>1. /\ UNCHANGED <<files, config, stores, manifests, pointers, hurt, faults, client>>
        /\ run' = [run EXCEPT ![p] = [Idle EXCEPT !.status = "FAILED", !.cause = "discovery"]]
    BY <1>1 DEF BeginIngest
  <2>2. "discovery" \in Causes
    BY DEF Causes
  <2>q. QED
    BY <2>1, <2>2, StopStep
<1>2. CASE found # {}
  <2>0. found \in SUBSET Paths /\ \A q \in found : files[q] \in Contents
    BY DEF PipeInv, PipeShape, Written, Sources
  <2>1. /\ UNCHANGED <<files, config, stores, manifests, pointers, hurt, faults, client>>
        /\ run' = [run EXCEPT ![p] = [Idle EXCEPT !.stage = "ingest", !.pc = "sources", !.todo = found,
                                        !.prev = cstate, !.src = Candidate(found)]]
    BY <1>2 DEF BeginIngest
  <2>2. /\ Candidate(found) \in Sources /\ \A q \in found : Candidate(found)[q] = files[q]
        /\ \A q \in Paths \ found : Candidate(found)[q] = cstate[q]
    BY DEF Candidate, PipeInv, PipeShape, Written, Sources
  <2>3. PICK r : r = [Idle EXCEPT !.stage = "ingest", !.pc = "sources", !.todo = found,
                                   !.prev = cstate, !.src = Candidate(found)]
    OBVIOUS
  <2>4. /\ r \in RunRecords /\ r.stage = "ingest" /\ r.pc = "sources" /\ r.todo = found
        /\ r.src = Candidate(found) /\ r.status = "none" /\ r.cause = "none"
    <3>. HIDE DEF found
    <3>1. cstate \in Sources
      BY DEF PipeInv, PipeShape, Written
    <3>q. QED
      BY <2>0, <2>2, <2>3, <3>1, SourcesFields DEF Idle, RunRecords, Causes
  <2>5. Ingesting(r)
    <3>1. \A q \in Paths : r.src[q] \in Contents => q \in r.todo \/ parsed[r.src[q]] # "none"
      BY <2>2, <2>4, ActiveIsParsed
    <3>2. \A q \in r.todo : r.src[q] \in Contents
      BY <2>0, <2>2, <2>4
    <3>. HIDE DEF found
    <3>q. QED
      BY <2>0, <2>4, <3>1, <3>2 DEF Ingesting
  <2>6. Knows(r) /\ Indexing(p, r)'
    BY <2>4, <2>5 DEF Knows, Chunking, Termed, Indexing
  <2>7. faults' \in 0..MaxFaults
    BY <2>1 DEF PipeInv, PipeShape, Written
  <2>q. QED
    BY <2>1, <2>3, <2>4, <2>6, <2>7, QuietStep
<1>q. QED
  BY <1>1, <1>2

\* One more of a set is done, or found wrong.
LEMMA DoneFields ==
    ASSUME NEW old \in RunRecords, NEW x, NEW r, r = [old EXCEPT !.todo = @ \ {x}]
    PROVE  /\ r \in RunRecords /\ r.stage = old.stage /\ r.pc = old.pc /\ r.status = old.status
           /\ r.cause = old.cause /\ r.src = old.src /\ r.id = old.id /\ r.cfg = old.cfg
           /\ r.failed = old.failed /\ r.todo = old.todo \ {x} /\ r.prev = old.prev
  BY DEF RunRecords

LEMMA FailedFields ==
    ASSUME NEW old \in RunRecords, NEW cause \in {"document", "conflict", "io"},
           NEW r, r = Failed(old, cause)
    PROVE  /\ r \in RunRecords /\ r.stage = old.stage /\ r.pc = old.pc /\ r.status = old.status
           /\ r.cause \in {old.cause, cause} /\ r.src = old.src /\ r.id = old.id /\ r.cfg = old.cfg
           /\ r.failed /\ r.todo = old.todo /\ r.prev = old.prev
  BY DEF RunRecords, Failed, Causes

\* What is left of a source after its turn.
LEMMA SourceDone ==
    ASSUME NEW old \in RunRecords, NEW q \in old.todo, Knows(old), old.stage = "ingest", old.pc = "sources",
           NEW r \in RunRecords, r.stage = "ingest", r.pc = "sources", r.status = old.status,
           r.src = old.src, r.id = old.id, r.todo = old.todo \ {q}, Grows,
           r.cause \in {old.cause, "document", "conflict", "io"},
           r.cause = "conflict" => hurt'.artifact,
           \/ r.failed
           \/ r.failed = old.failed /\ parsed'[old.src[q]] # "none"
    PROVE  Knows(r)' /\ \A p : Indexing(p, r)'
<1>1. Ingesting(r)'
  <2>1. \A k \in Paths : r.src[k] \in Contents
          => k \in r.todo \/ r.failed \/ parsed'[r.src[k]] # "none"
    BY DEF Knows, Ingesting, Grows
  <2>q. QED
    BY <2>1 DEF Knows, Ingesting
<1>2. r.status = "none" /\ r.cause \in {"none", "document", "conflict", "io"}
  BY DEF Knows
<1>q. QED
  BY <1>1, <1>2 DEF Knows, Chunking, Termed, Indexing

LEMMA IngestSourceStep ==
    ASSUME PipeInv, NEW p \in Procs, NEW q \in Paths, IngestSource(p, q) PROVE PipeInv'
<1>. DEFINE c == run[p].src[q]
<1>0. PICK old : old = run[p]
  OBVIOUS
<1>1. /\ old \in RunRecords /\ Knows(old) /\ old.stage = "ingest" /\ old.pc = "sources" /\ q \in old.todo
      /\ c = old.src[q]
  BY <1>0 DEF PipeInv, PipeShape, IngestSource, At
<1>2. c \in Contents
  BY <1>1 DEF Knows, Ingesting
<1>3. /\ UNCHANGED <<files, config, chunks, embeds, coll, ldir, cman, kman, dman, lman>>
      /\ UNCHANGED <<pointers, cstate, kstate, dstate, lstate, client, hurt>>
  BY DEF IngestSource, manifests, pointers
<1>4. PICK r : r = [old EXCEPT !.todo = @ \ {q}]
  OBVIOUS
<1>5. /\ r \in RunRecords /\ r.stage = old.stage /\ r.pc = old.pc /\ r.status = old.status
      /\ r.cause = old.cause /\ r.src = old.src /\ r.id = old.id
      /\ r.failed = old.failed /\ r.todo = old.todo \ {q}
  BY <1>1, <1>4, DoneFields
<1>6. StoresKept /\ Written /\ parsed \in [Contents -> Quality]
  BY DEF PipeInv, PipeShape, Written
<1>7. ASSUME NEW cause \in {"document", "conflict", "io"}, UNCHANGED parsed, faults' \in 0..MaxFaults,
             cause = "conflict" => hurt.artifact,
             run' = [run EXCEPT ![p] = Failed(r, cause)]
      PROVE  PipeInv'
  <2>1. PICK n : n = Failed(r, cause)
    OBVIOUS
  <2>2. /\ n \in RunRecords /\ n.stage = r.stage /\ n.pc = r.pc /\ n.status = r.status
        /\ n.cause \in {r.cause, cause} /\ n.src = r.src /\ n.id = r.id /\ n.failed /\ n.todo = r.todo
    BY <1>5, <2>1, FailedFields
  <2>3. Grows
    BY <1>3, <1>7 DEF Grows
  <2>4. n.cause = "conflict" => hurt'.artifact
    BY <1>1, <1>3, <1>5, <1>7, <2>2 DEF Knows
  <2>5. n.cause \in {old.cause, "document", "conflict", "io"}
    BY <1>5, <2>2
  <2>6. Knows(n)' /\ Indexing(p, n)'
    BY <1>1, <1>5, <2>2, <2>3, <2>4, <2>5, SourceDone
  <2>7. Written' /\ StoresKept'
    BY <1>3, <1>6, <1>7 DEF Written, StoresKept, Whole
  <2>q. QED
    BY <1>3, <1>7, <2>1, <2>2, <2>3, <2>6, <2>7, StoreStep
<1>8. CASE parsed[c] # "bad" /\ parsed' = [parsed EXCEPT ![c] = "good"] /\ run' = [run EXCEPT ![p] = r]
             /\ UNCHANGED faults
  <2>1. parsed' \in [Contents -> Quality] /\ parsed'[c] = "good"
        /\ \A d \in Contents : d # c => parsed'[d] = parsed[d]
    BY <1>2, <1>6, <1>8 DEF Quality
  <2>2. Grows
    BY <1>3, <2>1 DEF Grows
  <2>3. r.cause = "conflict" => hurt'.artifact
    BY <1>1, <1>3, <1>5 DEF Knows
  <2>4. Knows(r)' /\ Indexing(p, r)'
    BY <1>1, <1>5, <2>1, <2>2, <2>3, SourceDone
  <2>5. Written' /\ StoresKept'
    BY <1>3, <1>6, <1>8, <2>1 DEF Written, StoresKept, Whole
  <2>q. QED
    BY <1>3, <1>5, <1>8, <2>2, <2>4, <2>5, StoreStep
<1>q. QED
  <2>1. \/ /\ UNCHANGED <<parsed, faults>> /\ run' = [run EXCEPT ![p] = Failed(r, "document")]
        \/ parsed[c] # "bad" /\ parsed' = [parsed EXCEPT ![c] = "good"] /\ run' = [run EXCEPT ![p] = r]
             /\ UNCHANGED faults
        \/ parsed[c] = "bad" /\ UNCHANGED <<parsed, faults>> /\ run' = [run EXCEPT ![p] = Failed(r, "conflict")]
        \/ /\ faults < MaxFaults /\ faults' = faults + 1 /\ UNCHANGED parsed
           /\ run' = [run EXCEPT ![p] = Failed(r, "io")]
    BY <1>0, <1>4 DEF IngestSource
  <2>2. faults \in 0..MaxFaults /\ (faults < MaxFaults => faults + 1 \in 0..MaxFaults)
    BY <1>6, PipelineAssumption DEF Written
  <2>3. parsed[c] = "bad" => hurt.artifact
    BY <1>2, <1>6 DEF StoresKept
  <2>q. QED
    BY <1>7, <1>8, <2>1, <2>2, <2>3

\* What a run that has parsed every source knows.
LEMMA AllParsed ==
    ASSUME NEW r \in RunRecords, Knows(r), r.stage = "ingest", r.pc = "sources", r.todo = {}, ~r.failed
    PROVE  Parsed(corpus_id(r.src))
<1>. SUFFICES ASSUME NEW c \in Documents(corpus_id(r.src)) PROVE parsed[c] # "none"
  BY DEF Parsed
<1>1. c \in Contents /\ \E k \in Paths : r.src[k] = c
  BY CountOf DEF Documents, RunRecords
<1>q. QED
  BY <1>1 DEF Knows, Ingesting

LEMMA IngestManifestStep == ASSUME PipeInv, NEW p \in Procs, IngestManifest(p) PROVE PipeInv'
<1>0. PICK old : old = run[p]
  OBVIOUS
<1>1. /\ old \in RunRecords /\ Knows(old) /\ old.stage = "ingest" /\ old.pc = "sources" /\ old.todo = {}
      /\ old.src \in Sources
  BY <1>0 DEF PipeInv, PipeShape, IngestManifest, At, RunRecords
<1>2. UNCHANGED <<files, config, stores, manifests, pointers, client, hurt, faults>>
  BY DEF IngestManifest
<1>3. faults' \in 0..MaxFaults
  BY <1>2 DEF PipeInv, PipeShape, Written
<1>4. CASE old.failed /\ Report(p, "FAILED", old.cause)
  <2>1. /\ old.cause \in Causes /\ old.cause \in {"none", "document", "conflict", "io"}
        /\ old.cause = "conflict" => hurt.artifact
    BY <1>1 DEF Knows, Causes
  <2>q. QED
    BY <1>2, <1>3, <1>4, <2>1, EndStep
<1>5. CASE OfSameCorpus(old.src) \ {old.src} # {} /\ Report(p, "FAILED", "manifest")
  <2>1. "manifest" \in Causes
    BY DEF Causes
  <2>q. QED
    BY <1>0, <1>2, <1>3, <1>5, <2>1, EndStep
<1>6. ASSUME NEW pc \in {"write", "state"}, ~old.failed, Local(p, pc), pc = "state" => HasManifest(old.src)
      PROVE  PipeInv'
  <2>1. PICK r : r = [old EXCEPT !.pc = pc]
    OBVIOUS
  <2>2. /\ r \in RunRecords /\ r.stage = "ingest" /\ r.pc = pc /\ r.status = old.status
        /\ r.cause = old.cause /\ r.src = old.src
    BY <1>1, <2>1 DEF RunRecords
  <2>3. run' = [run EXCEPT ![p] = r]
    BY <1>0, <1>6, <2>1 DEF Local, PipeInv, PipeShape
  <2>4. Parsed(corpus_id(old.src))
    BY <1>1, <1>6, AllParsed
  <2>5. Knows(r) /\ Indexing(p, r)'
    BY <1>1, <1>6, <2>2, <2>4 DEF Knows, Ingesting, Chunking, Termed, Indexing
  <2>q. QED
    BY <1>2, <1>3, <2>2, <2>3, <2>5, QuietStep
<1>7. old.src \in cman => HasManifest(old.src)
  BY DEF HasManifest, OfSameCorpus
<1>q. QED
  BY <1>0, <1>4, <1>5, <1>6, <1>7 DEF IngestManifest

LEMMA WriteManifestStep == ASSUME PipeInv, NEW p \in Procs, WriteManifest(p) PROVE PipeInv'
<1>0. PICK old : old = run[p]
  OBVIOUS
<1>. DEFINE s == old.src
            C(m) == corpus_id(m)
<1>1. /\ old \in RunRecords /\ Knows(old) /\ old.stage = "ingest" /\ old.pc = "write" /\ s \in Sources
  BY <1>0 DEF PipeInv, PipeShape, WriteManifest, At, RunRecords
<1>2. /\ UNCHANGED <<files, config, stores, parsed, chunks, embeds, coll, ldir, kman, dman, lman>>
      /\ UNCHANGED <<pointers, cstate, kstate, dstate, lstate, client, faults>>
  BY DEF WriteManifest, stores, pointers
<1>3. /\ cman' = (cman \ {m \in cman : C(m) = C(s)}) \cup {s} /\ Local(p, "state")
      /\ hurt' = IF {m \in cman : C(m) = C(s)} \subseteq {s} THEN hurt
                 ELSE [hurt EXCEPT !.rewritten = @ \cup {C(s)}]
  BY <1>0 DEF WriteManifest, OfSameCorpus
<1>4. C(s) \in CorpusIds /\ Written /\ StoresKept
  BY <1>1, SourcesFields DEF PipeInv, PipeShape
<1>5. /\ hurt' \in [artifact : BOOLEAN, index : SUBSET Indexes, rewritten : SUBSET CorpusIds]
      /\ hurt'.artifact = hurt.artifact /\ hurt'.index = hurt.index
      /\ hurt.rewritten \subseteq hurt'.rewritten
      /\ {m \in cman : C(m) = C(s)} \subseteq {s} \/ C(s) \in hurt'.rewritten
  <2>. HIDE DEF C, s
  <2>q. QED
    BY <1>3, <1>4 DEF Written
<1>6. \A m \in cman : m \in cman' \/ (C(m) \in hurt'.rewritten /\ \E n \in cman' : C(n) = C(m))
  <2>. HIDE DEF C, s
  <2>q. QED
    BY <1>3, <1>5
<1>7. Grows
  BY <1>2, <1>5, <1>6 DEF Grows
<1>8. HasManifest(s)'
  <2>1. s \in cman' /\ s \in {m \in cman' : C(m) = C(s)}
    BY <1>3
  <2>q. QED
    BY <2>1 DEF HasManifest, OfSameCorpus, corpus_id
<1>9. PICK r : r = [old EXCEPT !.pc = "state"]
  OBVIOUS
<1>10. /\ r \in RunRecords /\ r.stage = "ingest" /\ r.pc = "state" /\ r.status = old.status
       /\ r.cause = old.cause /\ r.src = s
  BY <1>1, <1>9 DEF RunRecords
<1>11. run' = [run EXCEPT ![p] = r]
  BY <1>0, <1>3, <1>9 DEF Local, PipeInv, PipeShape
<1>12. Parsed(corpus_id(s))'
  BY <1>1, <1>2 DEF Knows, Ingesting, Parsed
<1>. HIDE DEF C, s
<1>13. Knows(r)' /\ Indexing(p, r)'
  BY <1>1, <1>5, <1>8, <1>10, <1>12 DEF Knows, Ingesting, Chunking, Termed, Indexing
<1>14. Written' /\ StoresKept'
  BY <1>1, <1>2, <1>3, <1>4, <1>5 DEF Written, StoresKept, Whole
<1>q. QED
  BY <1>2, <1>5, <1>7, <1>10, <1>11, <1>13, <1>14, StoreStep

LEMMA IngestStateStep == ASSUME PipeInv, NEW p \in Procs, IngestState(p) PROVE PipeInv'
<1>1. /\ UNCHANGED <<files, config, stores, manifests, kstate, dstate, lstate, client, faults, hurt>>
      /\ UNCHANGED <<parsed, chunks, embeds, coll, ldir, cman, kman, dman, lman>>
  BY DEF IngestState, stores, manifests
<1>2. /\ run[p] \in RunRecords /\ Knows(run[p]) /\ run[p].stage = "ingest" /\ run[p].pc = "state"
  BY DEF PipeInv, PipeShape, IngestState, At
<1>3. HasManifest(run[p].src) /\ Parsed(corpus_id(run[p].src)) /\ run[p].src \in Sources
  BY <1>2 DEF Knows, Ingesting, RunRecords
<1>4. CASE Report(p, "NO_OP", "none") /\ UNCHANGED cstate
  <2>1. Pointers'
    BY <1>1, <1>4 DEF PipeInv, Pointers, Parsed, HasChunks, HasManifest, OfSameCorpus
  <2>2. cstate' \in Sources /\ kstate' \in CorpusIds /\ dstate' \in Indexes /\ lstate' \in CorpusIds
    BY <1>1, <1>4 DEF PipeInv, PipeShape, Written
  <2>q. QED
    BY <1>1, <1>4, <2>1, <2>2, PointerStep
<1>5. CASE cstate' = run[p].src /\ Report(p, "SUCCESS", "none")
  <2>1. Pointers'
    BY <1>1, <1>3, <1>5 DEF PipeInv, Pointers, Parsed, HasChunks, HasManifest, OfSameCorpus
  <2>2. cstate' \in Sources /\ kstate' \in CorpusIds /\ dstate' \in Indexes /\ lstate' \in CorpusIds
    BY <1>1, <1>3, <1>5 DEF PipeInv, PipeShape, Written
  <2>q. QED
    BY <1>1, <1>5, <2>1, <2>2, PointerStep
<1>q. QED
  BY <1>4, <1>5 DEF IngestState

(* --- Chunking ------------------------------------------------------------- *)

LEMMA BeginChunkStep == ASSUME PipeInv, NEW p \in Procs, BeginChunk(p) PROVE PipeInv'
<1>0. UNCHANGED <<files, config, stores, manifests, pointers, hurt, faults, client>>
  BY DEF BeginChunk
<1>1. CASE cstate = NoSources
  <2>1. run' = [run EXCEPT ![p] = [Idle EXCEPT !.status = "FAILED", !.cause = "precondition"]]
    BY <1>1 DEF BeginChunk
  <2>2. "precondition" \in Causes
    BY DEF Causes
  <2>q. QED
    BY <1>0, <2>1, <2>2, StopStep
<1>2. CASE cstate # NoSources
  <2>1. PICK id : id = corpus_id(cstate)
    OBVIOUS
  <2>2. id \in CorpusIds /\ Parsed(id) /\ Documents(id) \subseteq Contents
    BY <1>2, <2>1, SourcesFields DEF PipeInv, PipeShape, Written, Pointers, Documents
  <2>3. PICK r : r = [Idle EXCEPT !.stage = "chunk", !.pc = "documents", !.id = id, !.todo = Documents(id)]
    OBVIOUS
  <2>4. run' = [run EXCEPT ![p] = r]
    BY <1>2, <2>1, <2>3 DEF BeginChunk
  <2>5. /\ r \in RunRecords /\ r.stage = "chunk" /\ r.pc = "documents" /\ r.todo = Documents(id)
        /\ r.id = id /\ r.status = "none" /\ r.cause = "none"
    BY <2>2, <2>3, SourcesFields DEF Idle, RunRecords, Causes
  <2>6. Knows(r) /\ Indexing(p, r)'
    BY <2>2, <2>5 DEF Knows, Ingesting, Chunking, Termed, Indexing
  <2>7. faults' \in 0..MaxFaults
    BY <1>0 DEF PipeInv, PipeShape, Written
  <2>q. QED
    BY <1>0, <2>4, <2>5, <2>6, <2>7, QuietStep
<1>q. QED
  BY <1>1, <1>2

LEMMA ChunkOneDocumentStep ==
    ASSUME PipeInv, NEW p \in Procs, NEW c \in Contents, ChunkOneDocument(p, c) PROVE PipeInv'
<1>0. PICK old : old = run[p]
  OBVIOUS
<1>1. /\ old \in RunRecords /\ Knows(old) /\ old.stage = "chunk" /\ old.pc = "documents" /\ c \in old.todo
  BY <1>0 DEF PipeInv, PipeShape, ChunkOneDocument, At
<1>2. c \in Documents(old.id) /\ parsed[c] # "none"
  BY <1>1 DEF Knows, Chunking, Parsed
<1>3. /\ UNCHANGED <<files, config, parsed, embeds, coll, ldir, cman, kman, dman, lman>>
      /\ UNCHANGED <<pointers, cstate, kstate, dstate, lstate, client, hurt, faults>>
  BY DEF ChunkOneDocument, manifests, pointers
<1>4. PICK r : r = [old EXCEPT !.todo = @ \ {c}]
  OBVIOUS
<1>5. /\ r \in RunRecords /\ r.stage = old.stage /\ r.pc = old.pc /\ r.status = old.status
      /\ r.cause = old.cause /\ r.src = old.src /\ r.id = old.id
      /\ r.failed = old.failed /\ r.todo = old.todo \ {c}
  BY <1>1, <1>4, DoneFields
<1>6. StoresKept /\ Written /\ chunks \in [Contents -> Quality] /\ parsed \in [Contents -> Quality]
  BY DEF PipeInv, PipeShape, Written
<1>7. CASE chunks[c] # "bad" /\ chunks' = [chunks EXCEPT ![c] = "good"] /\ run' = [run EXCEPT ![p] = r]
  <2>1. chunks' \in [Contents -> Quality] /\ chunks'[c] = "good"
        /\ \A d \in Contents : d # c => chunks'[d] = chunks[d]
    BY <1>6, <1>7 DEF Quality
  <2>2. Grows
    BY <1>3, <2>1 DEF Grows
  <2>3. Chunking(r)'
    BY <1>1, <1>3, <1>5, <2>1 DEF Knows, Chunking, Parsed, Documents
  <2>4. Knows(r)' /\ Indexing(p, r)'
    BY <1>1, <1>3, <1>5, <2>3 DEF Knows, Ingesting, Termed, Indexing
  <2>5. Written' /\ StoresKept'
    BY <1>3, <1>6, <2>1 DEF Written, StoresKept, Whole
  <2>q. QED
    BY <1>3, <1>5, <1>7, <2>2, <2>4, <2>5, StoreStep
<1>8. CASE /\ chunks[c] = "bad" \/ parsed[c] # "good"
           /\ run' = [run EXCEPT ![p] = Failed(r, "conflict")] /\ UNCHANGED chunks
  <2>0. hurt.artifact
    BY <1>2, <1>6, <1>8 DEF StoresKept, Quality
  <2>1. PICK n : n = Failed(r, "conflict")
    OBVIOUS
  <2>2. /\ n \in RunRecords /\ n.stage = r.stage /\ n.pc = r.pc /\ n.status = r.status
        /\ n.cause \in {r.cause, "conflict"} /\ n.src = r.src /\ n.id = r.id /\ n.failed /\ n.todo = r.todo
    BY <1>5, <2>1, FailedFields
  <2>3. Grows
    BY <1>3, <1>8 DEF Grows
  <2>4. Chunking(n)'
    BY <1>1, <1>3, <1>5, <2>2 DEF Knows, Chunking, Parsed, Documents
  <2>5. Knows(n)' /\ Indexing(p, n)'
    BY <1>1, <1>3, <1>5, <2>0, <2>2, <2>4 DEF Knows, Ingesting, Termed, Indexing
  <2>6. Written' /\ StoresKept'
    BY <1>3, <1>6, <1>8 DEF Written, StoresKept, Whole
  <2>q. QED
    BY <1>3, <1>8, <2>1, <2>2, <2>3, <2>5, <2>6, StoreStep
<1>q. QED
  BY <1>0, <1>4, <1>7, <1>8 DEF ChunkOneDocument

LEMMA ChunkManifestStep == ASSUME PipeInv, NEW p \in Procs, ChunkManifest(p) PROVE PipeInv'
<1>0. PICK old : old = run[p]
  OBVIOUS
<1>1. /\ old \in RunRecords /\ Knows(old) /\ old.stage = "chunk" /\ old.pc = "documents" /\ old.todo = {}
      /\ old.id \in CorpusIds
  BY <1>0 DEF PipeInv, PipeShape, ChunkManifest, At, RunRecords
<1>2. /\ UNCHANGED <<files, config, stores, parsed, chunks, embeds, coll, ldir, cman, dman, lman>>
      /\ UNCHANGED <<pointers, cstate, kstate, dstate, lstate, client, hurt, faults>>
  BY DEF ChunkManifest, stores, pointers
<1>3. faults' \in 0..MaxFaults
  BY <1>2 DEF PipeInv, PipeShape, Written
<1>4. CASE old.failed /\ Report(p, "FAILED", old.cause) /\ UNCHANGED kman
  <2>1. /\ old.cause \in Causes /\ old.cause \in {"none", "document", "conflict", "io"}
        /\ old.cause = "conflict" => hurt.artifact
    BY <1>1 DEF Knows, Causes
  <2>2. UNCHANGED manifests
    BY <1>2, <1>4 DEF manifests
  <2>q. QED
    BY <1>2, <1>3, <1>4, <2>1, <2>2, EndStep
<1>5. CASE ~old.failed /\ kman' = kman \cup {old.id} /\ Local(p, "state")
  <2>1. PICK r : r = [old EXCEPT !.pc = "state"]
    OBVIOUS
  <2>2. /\ r \in RunRecords /\ r.stage = "chunk" /\ r.pc = "state" /\ r.status = old.status
        /\ r.cause = old.cause /\ r.id = old.id
    BY <1>1, <2>1 DEF RunRecords
  <2>3. run' = [run EXCEPT ![p] = r]
    BY <1>0, <1>5, <2>1 DEF Local, PipeInv, PipeShape
  <2>4. Grows
    BY <1>2, <1>5 DEF Grows
  <2>5. HasChunks(old.id)
    BY <1>1, <1>5 DEF HasChunks, Knows, Chunking
  <2>6. HasChunks(old.id)'
    BY <1>2, <2>5 DEF HasChunks
  <2>7. Knows(r)' /\ Indexing(p, r)'
    BY <1>1, <1>2, <1>5, <2>2, <2>6 DEF Knows, Ingesting, Chunking, Termed, Indexing
  <2>8. Written' /\ StoresKept'
    BY <1>1, <1>2, <1>5 DEF PipeInv, PipeShape, Written, StoresKept, Whole
  <2>q. QED
    BY <1>2, <2>2, <2>3, <2>4, <2>7, <2>8, StoreStep
<1>q. QED
  BY <1>0, <1>4, <1>5 DEF ChunkManifest

LEMMA ChunkStateWriteStep == ASSUME PipeInv, NEW p \in Procs, ChunkStateWrite(p) PROVE PipeInv'
<1>1. /\ UNCHANGED <<files, config, stores, manifests, cstate, dstate, lstate, client, faults, hurt>>
      /\ UNCHANGED <<parsed, chunks, embeds, coll, ldir, cman, kman, dman, lman>>
  BY DEF ChunkStateWrite, stores, manifests
<1>2. /\ run[p] \in RunRecords /\ Knows(run[p]) /\ run[p].stage = "chunk" /\ run[p].pc = "state"
  BY DEF PipeInv, PipeShape, ChunkStateWrite, At
<1>3. run[p].id \in kman /\ HasChunks(run[p].id) /\ run[p].id \in CorpusIds
  BY <1>2 DEF Knows, Chunking, RunRecords
<1>4. kstate' = run[p].id /\ (Report(p, "NO_OP", "none") \/ Report(p, "SUCCESS", "none"))
  BY DEF ChunkStateWrite
<1>5. Pointers'
  BY <1>1, <1>3, <1>4 DEF PipeInv, Pointers, Parsed, HasChunks, HasManifest, OfSameCorpus
<1>6. cstate' \in Sources /\ kstate' \in CorpusIds /\ dstate' \in Indexes /\ lstate' \in CorpusIds
  BY <1>1, <1>3, <1>4 DEF PipeInv, PipeShape, Written
<1>q. QED
  BY <1>1, <1>4, <1>5, <1>6, PointerStep

(* --- Lexical indexing ----------------------------------------------------- *)

\* A stage that finds nothing wrong has its chunks; one that finds a conflict
\* has one that was damaged.
LEMMA PreconditionFields ==
    ASSUME PipeInv
    PROVE  /\ Precondition \in {"precondition", "conflict", "none"}
           /\ Precondition = "conflict" => hurt.artifact
           /\ Precondition = "none" => kstate # NoCorpus
<1>1. ASSUME kstate # NoCorpus, NEW c \in Documents(kstate), chunks[c] # "good"
      PROVE  hurt.artifact
  <2>1. chunks[c] # "none" /\ c \in Contents
    BY <1>1 DEF PipeInv, Pointers, HasChunks, Documents
  <2>2. chunks[c] = "bad"
    BY <1>1, <2>1 DEF PipeInv, PipeShape, Written, Quality
  <2>q. QED
    BY <2>1, <2>2 DEF PipeInv, StoresKept
<1>q. QED
  BY <1>1 DEF Precondition

LEMMA BeginLexicalStep == ASSUME PipeInv, NEW p \in Procs, BeginLexical(p) PROVE PipeInv'
<1>0. UNCHANGED <<files, config, stores, manifests, pointers, hurt, faults, client>>
  BY DEF BeginLexical
<1>1. ASSUME NEW status \in {"FAILED", "NO_OP"}, NEW cause \in {"none", "precondition", "conflict", "empty"},
             cause = "conflict" => hurt.artifact,
             run' = [run EXCEPT ![p] = [Idle EXCEPT !.status = status, !.cause = cause]]
      PROVE  PipeInv'
  <2>1. cause \in Causes
    BY DEF Causes
  <2>q. QED
    BY <1>0, <1>1, <2>1, StopStep
<1>2. ASSUME NEW pc \in {"build", "state"}, pc = "state" => kstate \in lman,
             run' = [run EXCEPT ![p] = [[Idle EXCEPT !.stage = "lexical", !.id = kstate] EXCEPT !.pc = pc]]
      PROVE  PipeInv'
  <2>0. kstate \in CorpusIds
    BY DEF PipeInv, PipeShape, Written
  <2>1. PICK r : r = [[Idle EXCEPT !.stage = "lexical", !.id = kstate] EXCEPT !.pc = pc]
    OBVIOUS
  <2>2. /\ r \in RunRecords /\ r.stage = "lexical" /\ r.pc = pc /\ r.id = kstate
        /\ r.status = "none" /\ r.cause = "none"
    BY <2>0, <2>1, SourcesFields DEF Idle, RunRecords, Causes
  <2>3. Knows(r) /\ Indexing(p, r)'
    BY <1>2, <2>2 DEF Knows, Ingesting, Chunking, Termed, Indexing
  <2>4. faults' \in 0..MaxFaults
    BY <1>0 DEF PipeInv, PipeShape, Written
  <2>q. QED
    BY <1>0, <1>2, <2>1, <2>2, <2>3, <2>4, QuietStep
<1>3. CASE Precondition # "none"
  <2>1. run' = [run EXCEPT ![p] = [Idle EXCEPT !.status = "FAILED", !.cause = Precondition]]
    BY <1>3 DEF BeginLexical
  <2>q. QED
    BY <1>1, <1>3, <2>1, PreconditionFields
<1>4. CASE Precondition = "none" /\ LexicalComplete(kstate) /\ lstate = kstate
  <2>1. run' = [run EXCEPT ![p] = [Idle EXCEPT !.status = "NO_OP", !.cause = "none"]]
    BY <1>4 DEF BeginLexical
  <2>q. QED
    BY <1>1, <2>1
<1>5. CASE Precondition = "none" /\ LexicalComplete(kstate) /\ lstate # kstate
  <2>1. run' = [run EXCEPT ![p] = [[Idle EXCEPT !.stage = "lexical", !.id = kstate] EXCEPT !.pc = "state"]]
    BY <1>5 DEF BeginLexical
  <2>q. QED
    BY <1>2, <1>5, <2>1 DEF LexicalComplete
<1>6. CASE Precondition = "none" /\ ~LexicalComplete(kstate) /\ LexicalJobs(kstate) < 1
  <2>1. run' = [run EXCEPT ![p] = [Idle EXCEPT !.status = "FAILED", !.cause = "empty"]]
    BY <1>6 DEF BeginLexical
  <2>q. QED
    BY <1>1, <2>1
<1>7. CASE Precondition = "none" /\ ~LexicalComplete(kstate) /\ ~(LexicalJobs(kstate) < 1)
  <2>1. run' = [run EXCEPT ![p] = [[Idle EXCEPT !.stage = "lexical", !.id = kstate] EXCEPT !.pc = "build"]]
    BY <1>7 DEF BeginLexical
  <2>q. QED
    BY <1>2, <2>1
<1>q. QED
  BY <1>3, <1>4, <1>5, <1>6, <1>7

LEMMA BuildLexicalStep == ASSUME PipeInv, NEW p \in Procs, BuildLexical(p) PROVE PipeInv'
<1>0. PICK old : old = run[p]
  OBVIOUS
<1>1. /\ old \in RunRecords /\ Knows(old) /\ old.stage = "lexical" /\ old.pc = "build" /\ old.id \in CorpusIds
  BY <1>0 DEF PipeInv, PipeShape, BuildLexical, At, RunRecords
<1>2. UNCHANGED <<files, config, stores, manifests, pointers, client, hurt, faults>>
  BY DEF BuildLexical
<1>3. StoresKept /\ faults' \in 0..MaxFaults
  BY <1>2 DEF PipeInv, PipeShape, Written
<1>4. CASE ldir[old.id] = "bad" /\ Report(p, "FAILED", "conflict")
  <2>1. "conflict" \in Causes /\ hurt.artifact
    BY <1>1, <1>3, <1>4 DEF Causes, StoresKept
  <2>q. QED
    BY <1>2, <1>3, <1>4, <2>1, EndStep
<1>5. CASE ~DistinctJobs(old.id) /\ Report(p, "FAILED", "count")
  <2>1. \E c \in Contents : old.id[c] > 1
    <3>1. PICK c \in Eligible(old.id, ZeroTerm) : old.id[c] # 1
      BY <1>1, <1>5, JobsCount DEF DistinctJobs, LexicalJobs
    <3>2. c \in Contents /\ old.id[c] > 0 /\ old.id[c] \in Nat
      BY <1>1, <3>1, IdsAreCounts DEF Eligible, Documents
    <3>q. QED
      BY <3>1, <3>2
  <2>2. "count" \in Causes
    BY DEF Causes
  <2>q. QED
    BY <1>0, <1>2, <1>3, <1>5, <2>1, <2>2, EndStep
<1>6. ASSUME NEW pc \in {"place", "manifest"}, Local(p, pc),
             pc = "place" => DistinctJobs(old.id), pc = "manifest" => ldir[old.id] # "none"
      PROVE  PipeInv'
  <2>1. PICK r : r = [old EXCEPT !.pc = pc]
    OBVIOUS
  <2>2. /\ r \in RunRecords /\ r.stage = "lexical" /\ r.pc = pc /\ r.status = old.status
        /\ r.cause = old.cause /\ r.id = old.id
    BY <1>1, <2>1 DEF RunRecords
  <2>3. run' = [run EXCEPT ![p] = r]
    BY <1>0, <1>6, <2>1 DEF Local, PipeInv, PipeShape
  <2>4. Knows(r) /\ Indexing(p, r)'
    BY <1>1, <1>6, <2>2 DEF Knows, Ingesting, Chunking, Termed, Indexing
  <2>q. QED
    BY <1>2, <1>3, <2>2, <2>3, <2>4, QuietStep
<1>q. QED
  BY <1>0, <1>4, <1>5, <1>6 DEF BuildLexical

LEMMA PlaceLexicalStep == ASSUME PipeInv, NEW p \in Procs, PlaceLexical(p) PROVE PipeInv'
<1>0. PICK old : old = run[p]
  OBVIOUS
<1>1. /\ old \in RunRecords /\ Knows(old) /\ old.stage = "lexical" /\ old.pc = "place" /\ old.id \in CorpusIds
      /\ DistinctJobs(old.id)
  BY <1>0 DEF PipeInv, PipeShape, PlaceLexical, At, RunRecords, Knows, Termed
<1>2. /\ UNCHANGED <<files, config, parsed, chunks, embeds, coll, manifests, cman, kman, dman, lman>>
      /\ UNCHANGED <<pointers, cstate, kstate, dstate, lstate, client, hurt, faults>>
  BY DEF PlaceLexical, pointers, manifests
<1>3. StoresKept /\ Written /\ ldir \in [CorpusIds -> Quality] /\ faults' \in 0..MaxFaults
  BY <1>2 DEF PipeInv, PipeShape, Written
<1>4. CASE ldir[old.id] # "none" /\ Report(p, "FAILED", "destination") /\ UNCHANGED ldir
  <2>1. "destination" \in Causes
    BY DEF Causes
  <2>2. UNCHANGED stores
    BY <1>2, <1>4 DEF stores
  <2>q. QED
    BY <1>0, <1>2, <1>3, <1>4, <2>1, <2>2, EndStep
<1>5. CASE ldir' = [ldir EXCEPT ![old.id] = "good"] /\ Local(p, "manifest")
  <2>1. PICK r : r = [old EXCEPT !.pc = "manifest"]
    OBVIOUS
  <2>2. /\ r \in RunRecords /\ r.stage = "lexical" /\ r.pc = "manifest" /\ r.status = old.status
        /\ r.cause = old.cause /\ r.id = old.id
    BY <1>1, <2>1 DEF RunRecords
  <2>3. run' = [run EXCEPT ![p] = r]
    BY <1>0, <1>5, <2>1 DEF Local, PipeInv, PipeShape
  <2>4. ldir' \in [CorpusIds -> Quality] /\ ldir'[old.id] = "good"
        /\ \A id \in CorpusIds : id # old.id => ldir'[id] = ldir[id]
    BY <1>1, <1>3, <1>5 DEF Quality
  <2>5. Grows
    BY <1>2, <2>4 DEF Grows
  <2>6. Knows(r)' /\ Indexing(p, r)'
    BY <1>1, <1>2, <2>2, <2>4 DEF Knows, Ingesting, Chunking, Termed, Indexing
  <2>7. Written' /\ StoresKept'
    BY <1>1, <1>2, <1>3, <1>5, <2>4 DEF Written, StoresKept, Whole
  <2>q. QED
    BY <1>2, <2>2, <2>3, <2>5, <2>6, <2>7, StoreStep
<1>q. QED
  BY <1>0, <1>4, <1>5 DEF PlaceLexical

LEMMA LexicalManifestStep == ASSUME PipeInv, NEW p \in Procs, LexicalManifest(p) PROVE PipeInv'
<1>0. PICK old : old = run[p]
  OBVIOUS
<1>1. /\ old \in RunRecords /\ Knows(old) /\ old.stage = "lexical" /\ old.pc = "manifest" /\ old.id \in CorpusIds
      /\ ldir[old.id] # "none"
  BY <1>0 DEF PipeInv, PipeShape, LexicalManifest, At, RunRecords, Knows, Termed
<1>2. /\ UNCHANGED <<files, config, stores, parsed, chunks, embeds, coll, ldir, cman, kman, dman>>
      /\ UNCHANGED <<pointers, cstate, kstate, dstate, lstate, client, hurt, faults>>
  BY DEF LexicalManifest, pointers, stores
<1>3. StoresKept /\ Written
  BY DEF PipeInv, PipeShape
<1>4. faults' \in 0..MaxFaults
  BY <1>2, <1>3 DEF Written
<1>5. CASE lman' = lman \cup {old.id} /\ Local(p, "state")
  <2>1. PICK r : r = [old EXCEPT !.pc = "state"]
    OBVIOUS
  <2>2. /\ r \in RunRecords /\ r.stage = "lexical" /\ r.pc = "state" /\ r.status = old.status
        /\ r.cause = old.cause /\ r.id = old.id
    BY <1>1, <2>1 DEF RunRecords
  <2>3. run' = [run EXCEPT ![p] = r]
    BY <1>0, <1>5, <2>1 DEF Local, PipeInv, PipeShape
  <2>4. Grows
    BY <1>2, <1>5 DEF Grows
  <2>5. Knows(r)' /\ Indexing(p, r)'
    BY <1>1, <1>2, <1>5, <2>2 DEF Knows, Ingesting, Chunking, Termed, Indexing
  <2>6. Written' /\ StoresKept'
    BY <1>1, <1>2, <1>3, <1>5 DEF Written, StoresKept, Whole
  <2>q. QED
    BY <1>2, <2>2, <2>3, <2>4, <2>5, <2>6, StoreStep
<1>6. CASE ldir[old.id] # "good" /\ Report(p, "FAILED", "conflict") /\ UNCHANGED lman
  <2>1. hurt.artifact
    BY <1>1, <1>3, <1>6 DEF StoresKept, Written, Quality
  <2>2. "conflict" \in Causes /\ UNCHANGED manifests
    BY <1>2, <1>6 DEF Causes, manifests
  <2>q. QED
    BY <1>2, <1>4, <1>6, <2>1, <2>2, EndStep
<1>q. QED
  BY <1>0, <1>5, <1>6 DEF LexicalManifest

LEMMA LexicalStateWriteStep == ASSUME PipeInv, NEW p \in Procs, LexicalStateWrite(p) PROVE PipeInv'
<1>1. /\ UNCHANGED <<files, config, stores, manifests, cstate, kstate, dstate, client, faults, hurt>>
      /\ UNCHANGED <<parsed, chunks, embeds, coll, ldir, cman, kman, dman, lman>>
  BY DEF LexicalStateWrite, stores, manifests
<1>2. /\ run[p] \in RunRecords /\ Knows(run[p]) /\ run[p].stage = "lexical" /\ run[p].pc = "state"
  BY DEF PipeInv, PipeShape, LexicalStateWrite, At
<1>3. run[p].id \in lman /\ run[p].id \in CorpusIds
  BY <1>2 DEF Knows, Termed, RunRecords
<1>4. lstate' = run[p].id /\ Report(p, "SUCCESS", "none")
  BY DEF LexicalStateWrite
<1>5. Pointers'
  BY <1>1, <1>3, <1>4 DEF PipeInv, Pointers, Parsed, HasChunks, HasManifest, OfSameCorpus
<1>6. cstate' \in Sources /\ kstate' \in CorpusIds /\ dstate' \in Indexes /\ lstate' \in CorpusIds
  BY <1>1, <1>3, <1>4 DEF PipeInv, PipeShape, Written
<1>q. QED
  BY <1>1, <1>4, <1>5, <1>6, PointerStep

(* --- Dense indexing ------------------------------------------------------- *)

LEMMA BeginIndexStep == ASSUME PipeInv, NEW p \in Procs, BeginIndex(p) PROVE PipeInv'
<1>. DEFINE i == <<kstate, config>>
<1>0. UNCHANGED <<files, config, stores, manifests, pointers, hurt, faults>>
  BY DEF BeginIndex
<1>1. ASSUME NEW status \in {"FAILED", "NO_OP"},
             NEW cause \in {"none", "precondition", "conflict", "empty", "busy"},
             cause = "conflict" => hurt.artifact, UNCHANGED client,
             run' = [run EXCEPT ![p] = [Idle EXCEPT !.status = status, !.cause = cause]]
      PROVE  PipeInv'
  <2>1. cause \in Causes
    BY DEF Causes
  <2>q. QED
    BY <1>0, <1>1, <2>1, StopStep
<1>2. kstate \in CorpusIds /\ config \in Configs /\ i \in Indexes
  BY DEF PipeInv, PipeShape, Written, Indexes
<1>3. faults' \in 0..MaxFaults
  BY <1>0 DEF PipeInv, PipeShape, Written
<1>4. ASSUME client = "none", client' = p, NEW r \in RunRecords, run' = [run EXCEPT ![p] = r],
             r.stage = "index", r.id = kstate, r.cfg = config, r.status = "none", r.cause = "none",
             r.todo \in SUBSET Contents, r.pc \in {"embed", "state"},
             r.pc = "state" => i \in dman, r.pc = "embed" => i \notin dman \/ i \in hurt.index
      PROVE  PipeInv'
  <2>1. Knows(r)
    BY <1>4 DEF Knows, Ingesting, Chunking, Termed
  <2>2. Indexing(p, r)'
    BY <1>0, <1>2, <1>4 DEF Indexing, manifests
  <2>q. QED
    BY <1>0, <1>3, <1>4, <2>1, <2>2, QuietStep
<1>5. CASE /\ Precondition # "none" /\ UNCHANGED client
           /\ run' = [run EXCEPT ![p] = [Idle EXCEPT !.status = "FAILED", !.cause = Precondition]]
  BY <1>1, <1>5, PreconditionFields
<1>6. CASE /\ UNCHANGED client
           /\ run' = [run EXCEPT ![p] = [Idle EXCEPT !.status = "FAILED", !.cause = "empty"]]
  BY <1>1, <1>6
<1>7. CASE /\ UNCHANGED client
           /\ run' = [run EXCEPT ![p] = [Idle EXCEPT !.status = "FAILED", !.cause = "busy"]]
  BY <1>1, <1>7
<1>8. CASE /\ UNCHANGED client
           /\ run' = [run EXCEPT ![p] = [Idle EXCEPT !.status = "NO_OP", !.cause = "none"]]
  BY <1>1, <1>8
<1>9. CASE /\ client = "none" /\ i \in dman /\ client' = p
           /\ run' = [run EXCEPT ![p] = [[Idle EXCEPT !.stage = "index", !.id = kstate, !.cfg = config]
                                           EXCEPT !.pc = "state"]]
  <2>1. PICK r : r = [[Idle EXCEPT !.stage = "index", !.id = kstate, !.cfg = config] EXCEPT !.pc = "state"]
    OBVIOUS
  <2>2. /\ r \in RunRecords /\ r.stage = "index" /\ r.id = kstate /\ r.cfg = config
        /\ r.status = "none" /\ r.cause = "none" /\ r.todo = {} /\ r.pc = "state"
    BY <1>2, <2>1, SourcesFields DEF Idle, RunRecords, Causes
  <2>3. run' = [run EXCEPT ![p] = r] /\ r.todo \in SUBSET Contents
    BY <1>9, <2>1, <2>2
  <2>q. QED
    BY <1>4, <1>9, <2>2, <2>3
<1>10. CASE /\ client = "none" /\ ~(i \in dman /\ CollectionOk(i)) /\ client' = p
            /\ run' = [run EXCEPT ![p] = [[Idle EXCEPT !.stage = "index", !.id = kstate, !.cfg = config]
                                            EXCEPT !.pc = "embed", !.todo = Eligible(kstate, HeadingOnly)]]
  <2>0. Eligible(kstate, HeadingOnly) \in SUBSET Contents
    BY DEF Eligible, Documents
  <2>1. PICK r : r = [[Idle EXCEPT !.stage = "index", !.id = kstate, !.cfg = config]
                        EXCEPT !.pc = "embed", !.todo = Eligible(kstate, HeadingOnly)]
    OBVIOUS
  <2>2. /\ r \in RunRecords /\ r.stage = "index" /\ r.id = kstate /\ r.cfg = config
        /\ r.status = "none" /\ r.cause = "none" /\ r.todo = Eligible(kstate, HeadingOnly) /\ r.pc = "embed"
    BY <1>2, <2>0, <2>1, SourcesFields DEF Idle, RunRecords, Causes
  <2>3. run' = [run EXCEPT ![p] = r]
    BY <1>10, <2>1
  <2>4. i \notin dman \/ i \in hurt.index
    BY <1>2, <1>10 DEF PipeInv, StoresKept, Whole, CollectionOk
  <2>q. QED
    BY <1>4, <1>10, <2>0, <2>2, <2>3, <2>4
<1>q. QED
  BY <1>5, <1>6, <1>7, <1>8, <1>9, <1>10 DEF BeginIndex

\* What the process that indexes holds.
LEMMA IndexFields ==
    ASSUME PipeInv, NEW p \in Procs, run[p].stage = "index"
    PROVE  /\ run[p] \in RunRecords /\ Knows(run[p]) /\ Indexing(p, run[p]) /\ client = p
           /\ run[p].id \in CorpusIds /\ run[p].cfg \in Configs
           /\ <<run[p].id, run[p].cfg>> \in Indexes
<1>1. run[p] \in RunRecords /\ Knows(run[p]) /\ Indexing(p, run[p])
  BY DEF PipeInv, PipeShape
<1>2. client = p /\ run[p].cfg \in Configs
  BY <1>1 DEF Indexing
<1>3. run[p].id \in CorpusIds
  BY <1>1 DEF RunRecords
<1>q. QED
  BY <1>1, <1>2, <1>3 DEF Indexes

LEMMA ReuseEmbeddingStep ==
    ASSUME PipeInv, NEW p \in Procs, NEW c \in Contents, ReuseEmbedding(p, c) PROVE PipeInv'
<1>0. PICK old : old = run[p]
  OBVIOUS
<1>1. /\ old \in RunRecords /\ Knows(old) /\ Indexing(p, old) /\ client = p
      /\ old.stage = "index" /\ old.pc = "embed"
  BY <1>0, IndexFields DEF ReuseEmbedding, At
<1>2. UNCHANGED <<files, config, stores, manifests, dman, pointers, client, faults, hurt>>
  BY DEF ReuseEmbedding, manifests
<1>3. PICK r : r = [old EXCEPT !.todo = @ \ {c}]
  OBVIOUS
<1>4. /\ r \in RunRecords /\ r.stage = old.stage /\ r.pc = old.pc /\ r.status = old.status
      /\ r.cause = old.cause /\ r.id = old.id /\ r.cfg = old.cfg /\ r.todo = old.todo \ {c}
  BY <1>1, <1>3, DoneFields
<1>5. run' = [run EXCEPT ![p] = r]
  BY <1>0, <1>3 DEF ReuseEmbedding, PipeInv, PipeShape
<1>6. Knows(r) /\ Indexing(p, r)'
  BY <1>1, <1>2, <1>4 DEF Knows, Ingesting, Chunking, Termed, Indexing
<1>7. faults' \in 0..MaxFaults
  BY <1>2 DEF PipeInv, PipeShape, Written
<1>q. QED
  BY <1>2, <1>4, <1>5, <1>6, <1>7, QuietStep

LEMMA EncodeBatchStep ==
    ASSUME PipeInv, NEW p \in Procs, NEW c \in Contents, EncodeBatch(p, c) PROVE PipeInv'
<1>. DEFINE e == <<c, run[p].cfg>>
<1>0. PICK old : old = run[p]
  OBVIOUS
<1>1. /\ old \in RunRecords /\ Knows(old) /\ Indexing(p, old) /\ client = p /\ old.cfg \in Configs
      /\ old.stage = "index" /\ old.pc = "embed" /\ e = <<c, old.cfg>>
  BY <1>0, IndexFields DEF EncodeBatch, At
<1>2. /\ UNCHANGED <<files, config, parsed, chunks, coll, ldir, manifests, cman, kman, dman, lman>>
      /\ UNCHANGED <<pointers, cstate, kstate, dstate, lstate, hurt>>
  BY DEF EncodeBatch, manifests, pointers
<1>3. e \in Contents \X Configs
  BY <1>1
<1>4. StoresKept /\ Written
  BY DEF PipeInv, PipeShape
<1>5. ASSUME NEW cause \in {"conflict", "io"}, cause = "conflict" => hurt.artifact,
             EndIndex(p, "FAILED", cause), UNCHANGED embeds, faults' \in 0..MaxFaults
      PROVE  PipeInv'
  <2>1. Report(p, "FAILED", cause) /\ client' = "none" /\ cause \in Causes /\ UNCHANGED stores
    BY <1>2, <1>5 DEF EndIndex, Causes, stores
  <2>q. QED
    BY <1>1, <1>2, <1>5, <2>1, EndStep
<1>6. CASE /\ embeds[e] = "none" /\ embeds' = [embeds EXCEPT ![e] = "good"]
           /\ run' = [run EXCEPT ![p].todo = @ \ {c}] /\ UNCHANGED <<client, faults>>
  <2>1. PICK r : r = [old EXCEPT !.todo = @ \ {c}]
    OBVIOUS
  <2>2. /\ r \in RunRecords /\ r.stage = old.stage /\ r.pc = old.pc /\ r.status = old.status
        /\ r.cause = old.cause /\ r.id = old.id /\ r.cfg = old.cfg /\ r.todo = old.todo \ {c}
    BY <1>1, <2>1, DoneFields
  <2>3. run' = [run EXCEPT ![p] = r]
    BY <1>0, <1>6, <2>1 DEF PipeInv, PipeShape
  <2>4. embeds' \in [Contents \X Configs -> Quality]
        /\ \A d \in Contents \X Configs : embeds'[d] = "bad" => embeds[d] = "bad"
    BY <1>3, <1>4, <1>6 DEF Written, Quality
  <2>5. Grows
    BY <1>2 DEF Grows
  <2>6. Knows(r)
    BY <1>1, <2>2 DEF Knows, Ingesting, Chunking, Termed
  <2>7. Knows(r)' /\ Indexing(p, r)'
    BY <1>1, <1>2, <1>6, <2>2, <2>5, <2>6, KnowsKept DEF Indexing
  <2>8. Written'
    BY <1>2, <1>4, <1>6, <2>4 DEF Written
  <2>9. StoresKept'
    BY <1>2, <1>4, <2>4 DEF StoresKept, Whole
  <2>q. QED
    BY <1>1, <1>2, <2>2, <2>3, <2>5, <2>7, <2>8, <2>9, StoreStep
<1>q. QED
  <2>1. faults \in 0..MaxFaults /\ (faults < MaxFaults => faults + 1 \in 0..MaxFaults)
    BY <1>4, PipelineAssumption DEF Written
  <2>2. embeds[e] = "bad" => hurt.artifact
    BY <1>3, <1>4 DEF StoresKept
  <2>q. QED
    BY <1>5, <1>6, <2>1, <2>2 DEF EncodeBatch

\* Only the process that indexes writes a collection, one that is not whole.
LEMMA CollectionStep ==
    ASSUME PipeInv, UNCHANGED <<files, config, parsed, chunks, embeds, ldir, manifests, pointers, faults, hurt>>,
           NEW p \in Procs, client = p, client' \in {p, "none"}, NEW i \in Indexes,
           i \notin dman \/ i \in hurt.index,
           NEW v \in [there : BOOLEAN, points : SUBSET Contents], coll' = [coll EXCEPT ![i] = v],
           ~v.there => v.points = {},
           NEW r \in RunRecords, run' = [run EXCEPT ![p] = r], Knows(r), Indexing(p, r)'
    PROVE  PipeInv'
<1>1. /\ UNCHANGED <<cman, kman, dman, lman, cstate, kstate, dstate, lstate>>
      /\ Written /\ StoresKept
  BY DEF manifests, pointers, PipeInv, PipeShape
<1>2. /\ coll' \in [Indexes -> [there : BOOLEAN, points : SUBSET Contents]]
      /\ coll'[i] = v /\ \A j \in Indexes : j # i => coll'[j] = coll[j]
  BY <1>1 DEF Written
<1>3. Grows
  BY <1>1 DEF Grows
<1>4. Written'
  BY <1>1, <1>2 DEF Written
<1>5. StoresKept'
  BY <1>1, <1>2 DEF StoresKept, Whole
<1>6. Knows(r)'
  BY <1>3, KnowsKept
<1>q. QED
  BY <1>3, <1>4, <1>5, <1>6, StoreStep

LEMMA ClearCollectionStep == ASSUME PipeInv, NEW p \in Procs, ClearCollection(p) PROVE PipeInv'
<1>. DEFINE i == <<run[p].id, run[p].cfg>>
            v == [there |-> FALSE, points |-> {}]
<1>0. PICK old : old = run[p]
  OBVIOUS
<1>1. /\ old \in RunRecords /\ Knows(old) /\ Indexing(p, old) /\ client = p /\ i \in Indexes
      /\ old.stage = "index" /\ old.pc = "embed" /\ i = <<old.id, old.cfg>>
  BY <1>0, IndexFields DEF ClearCollection, At
<1>2. /\ UNCHANGED <<files, config, parsed, chunks, embeds, ldir, manifests, dman>>
      /\ UNCHANGED <<pointers, faults, hurt, client>>
  BY DEF ClearCollection, manifests
<1>3. i \notin dman \/ i \in hurt.index
  BY <1>1 DEF Indexing
<1>4. coll \in [Indexes -> [there : BOOLEAN, points : SUBSET Contents]] /\ StoresKept
  BY DEF PipeInv, PipeShape, Written
<1>5. coll' = [coll EXCEPT ![i] = v]
  <2>1. CASE coll[i].there
    BY <2>1 DEF ClearCollection, DeleteStale
  <2>2. CASE ~coll[i].there
    <3>1. coll[i] = v
      BY <1>1, <1>4, <2>2 DEF StoresKept
    <3>2. coll' = coll
      BY <2>2 DEF ClearCollection
    <3>q. QED
      BY <1>4, <3>1, <3>2
  <2>q. QED
    BY <2>1, <2>2
<1>6. PICK r : r = [old EXCEPT !.pc = "create"]
  OBVIOUS
<1>7. /\ r \in RunRecords /\ r.stage = "index" /\ r.pc = "create" /\ r.status = old.status
      /\ r.cause = old.cause /\ r.id = old.id /\ r.cfg = old.cfg
  BY <1>1, <1>6 DEF RunRecords
<1>8. run' = [run EXCEPT ![p] = r]
  BY <1>0, <1>6 DEF ClearCollection, Local, PipeInv, PipeShape
<1>9. Knows(r)
  BY <1>1, <1>7 DEF Knows, Ingesting, Chunking, Termed
<1>10. coll'[i] = v
  BY <1>1, <1>4, <1>5
<1>11. Indexing(p, r)'
  BY <1>1, <1>2, <1>3, <1>7, <1>10 DEF Indexing
<1>12. v \in [there : BOOLEAN, points : SUBSET Contents] /\ v.points = {}
  OBVIOUS
<1>. HIDE DEF v, i
<1>q. QED
  BY <1>1, <1>2, <1>3, <1>5, <1>7, <1>8, <1>9, <1>11, <1>12, CollectionStep

LEMMA CollectionParts ==
    ASSUME NEW x \in [there : BOOLEAN, points : SUBSET Contents]
    PROVE  /\ \A b : [x EXCEPT !.there = b] = [there |-> b, points |-> x.points]
           /\ \A c : [x EXCEPT !.points = @ \cup {c}] = [there |-> x.there, points |-> x.points \cup {c}]
<1>1. DOMAIN x = {"there", "points"}
  OBVIOUS
<1>2. ASSUME NEW b
      PROVE  /\ DOMAIN [x EXCEPT !.there = b] = {"there", "points"}
             /\ [x EXCEPT !.there = b]["there"] = b /\ [x EXCEPT !.there = b]["points"] = x.points
  BY <1>1
<1>3. ASSUME NEW c
      PROVE  /\ DOMAIN [x EXCEPT !.points = @ \cup {c}] = {"there", "points"}
             /\ [x EXCEPT !.points = @ \cup {c}]["there"] = x.there
             /\ [x EXCEPT !.points = @ \cup {c}]["points"] = x.points \cup {c}
  BY <1>1
<1>4. ASSUME NEW b PROVE [x EXCEPT !.there = b] = [there |-> b, points |-> x.points]
  BY <1>2
<1>5. ASSUME NEW c
      PROVE  [x EXCEPT !.points = @ \cup {c}] = [there |-> x.there, points |-> x.points \cup {c}]
  BY <1>3
<1>q. QED
  BY <1>4, <1>5

LEMMA CreateCollectionStep == ASSUME PipeInv, NEW p \in Procs, CreateCollection(p) PROVE PipeInv'
<1>. DEFINE i == <<run[p].id, run[p].cfg>>
            v == [there |-> TRUE, points |-> {}]
            E == Eligible(run[p].id, HeadingOnly)
<1>0. PICK old : old = run[p]
  OBVIOUS
<1>1. /\ old \in RunRecords /\ Knows(old) /\ Indexing(p, old) /\ client = p /\ i \in Indexes
      /\ old.stage = "index" /\ old.pc = "create" /\ i = <<old.id, old.cfg>> /\ E = Eligible(old.id, HeadingOnly)
  BY <1>0, IndexFields DEF CreateCollection, At
<1>2. /\ UNCHANGED <<files, config, parsed, chunks, embeds, ldir, manifests, dman>>
      /\ UNCHANGED <<pointers, faults, hurt>>
  BY DEF CreateCollection, manifests
<1>3. (i \notin dman \/ i \in hurt.index) /\ ~coll[i].there
  BY <1>1 DEF Indexing
<1>4. coll \in [Indexes -> [there : BOOLEAN, points : SUBSET Contents]] /\ StoresKept
  BY DEF PipeInv, PipeShape, Written
<1>5. /\ coll' = [coll EXCEPT ![i].there = TRUE] /\ client' = client
      /\ run' = [run EXCEPT ![p].pc = "upsert", ![p].todo = E]
  BY <1>3 DEF CreateCollection
<1>6. coll' = [coll EXCEPT ![i] = v] /\ coll'[i] = v
  <2>1. coll[i] = [there |-> FALSE, points |-> {}]
    BY <1>1, <1>3, <1>4 DEF StoresKept
  <2>2. coll[i] \in [there : BOOLEAN, points : SUBSET Contents] /\ coll[i].points = {}
    BY <1>1, <1>4, <2>1
  <2>3. [coll[i] EXCEPT !.there = TRUE] = [there |-> TRUE, points |-> coll[i].points]
    <3>1. \A b : [coll[i] EXCEPT !.there = b] = [there |-> b, points |-> coll[i].points]
      BY <2>2, CollectionParts
    <3>q. QED
      BY <3>1, Zenon
  <2>4. [coll[i] EXCEPT !.there = TRUE] = v
    BY <2>2, <2>3
  <2>q. QED
    BY <1>1, <1>4, <1>5, <2>4
<1>7. PICK r : r = [old EXCEPT !.pc = "upsert", !.todo = E]
  OBVIOUS
<1>8. /\ r \in RunRecords /\ r.stage = "index" /\ r.pc = "upsert" /\ r.status = old.status
      /\ r.cause = old.cause /\ r.id = old.id /\ r.cfg = old.cfg /\ r.todo = E
  <2>1. E \in SUBSET Contents
    BY DEF Eligible, Documents
  <2>. HIDE DEF E
  <2>q. QED
    BY <1>1, <1>7, <2>1 DEF RunRecords
<1>9. run' = [run EXCEPT ![p] = r]
  BY <1>0, <1>5, <1>7 DEF PipeInv, PipeShape
<1>10. Knows(r)
  BY <1>1, <1>8 DEF Knows, Ingesting, Chunking, Termed
<1>11. \A id, out : Eligible(id, out)' = Eligible(id, out)
  BY DEF Eligible, Documents
<1>12. v \in [there : BOOLEAN, points : SUBSET Contents] /\ v.there /\ v.points = {}
  OBVIOUS
<1>. HIDE DEF v, i, E
<1>13. Indexing(p, r)'
  BY <1>1, <1>2, <1>3, <1>5, <1>6, <1>8, <1>11, <1>12 DEF Indexing
<1>q. QED
  BY <1>1, <1>2, <1>3, <1>5, <1>6, <1>8, <1>9, <1>10, <1>12, <1>13, CollectionStep

LEMMA UpsertStep ==
    ASSUME PipeInv, NEW p \in Procs, NEW c \in Contents, Upsert(p, c) PROVE PipeInv'
<1>. DEFINE i == <<run[p].id, run[p].cfg>>
            v == [there |-> TRUE, points |-> coll[i].points \cup {c}]
<1>0. PICK old : old = run[p]
  OBVIOUS
<1>1. /\ old \in RunRecords /\ Knows(old) /\ Indexing(p, old) /\ client = p /\ i \in Indexes
      /\ old.stage = "index" /\ old.pc = "upsert" /\ i = <<old.id, old.cfg>> /\ c \in old.todo
  BY <1>0, IndexFields DEF Upsert, At
<1>2. /\ UNCHANGED <<files, config, parsed, chunks, embeds, ldir, manifests, dman>>
      /\ UNCHANGED <<pointers, faults, hurt, client>>
  BY DEF Upsert, manifests
<1>3. /\ i \notin dman \/ i \in hurt.index
      /\ coll[i].there /\ old.todo \subseteq Eligible(old.id, HeadingOnly)
      /\ coll[i].points \subseteq Eligible(old.id, HeadingOnly)
      /\ Eligible(old.id, HeadingOnly) \subseteq coll[i].points \cup old.todo
  BY <1>1 DEF Indexing
<1>4. coll \in [Indexes -> [there : BOOLEAN, points : SUBSET Contents]]
  BY DEF PipeInv, PipeShape, Written
<1>5. /\ coll' = [coll EXCEPT ![i].points = @ \cup {c}] /\ run' = [run EXCEPT ![p].todo = @ \ {c}]
  BY DEF Upsert
<1>6. coll' = [coll EXCEPT ![i] = v] /\ coll'[i] = v
  <2>1. coll[i] \in [there : BOOLEAN, points : SUBSET Contents] /\ coll[i].there = TRUE
    BY <1>1, <1>3, <1>4
  <2>2. [coll[i] EXCEPT !.points = @ \cup {c}] = v
    BY <2>1, CollectionParts
  <2>q. QED
    BY <1>1, <1>4, <1>5, <2>2
<1>7. PICK r : r = [old EXCEPT !.todo = @ \ {c}]
  OBVIOUS
<1>8. /\ r \in RunRecords /\ r.stage = old.stage /\ r.pc = old.pc /\ r.status = old.status
      /\ r.cause = old.cause /\ r.id = old.id /\ r.cfg = old.cfg /\ r.todo = old.todo \ {c}
  BY <1>1, <1>7, DoneFields
<1>9. run' = [run EXCEPT ![p] = r]
  BY <1>0, <1>5, <1>7 DEF PipeInv, PipeShape
<1>10. Knows(r)
  BY <1>1, <1>8 DEF Knows, Ingesting, Chunking, Termed
<1>11. \A id, out : Eligible(id, out)' = Eligible(id, out)
  BY DEF Eligible, Documents
<1>12. v \in [there : BOOLEAN, points : SUBSET Contents] /\ v.there /\ v.points = coll[i].points \cup {c}
  BY <1>1, <1>4
<1>. HIDE DEF v, i
<1>13. Indexing(p, r)'
  BY <1>1, <1>2, <1>3, <1>6, <1>8, <1>11, <1>12 DEF Indexing
<1>q. QED
  BY <1>1, <1>2, <1>3, <1>6, <1>8, <1>9, <1>10, <1>12, <1>13, CollectionStep

LEMMA IndexManifestStep == ASSUME PipeInv, NEW p \in Procs, IndexManifest(p) PROVE PipeInv'
<1>. DEFINE i == <<run[p].id, run[p].cfg>>
            v == [there |-> FALSE, points |-> {}]
<1>0. PICK old : old = run[p]
  OBVIOUS
<1>1. /\ old \in RunRecords /\ Knows(old) /\ Indexing(p, old) /\ client = p /\ i \in Indexes
      /\ old.stage = "index" /\ old.pc = "upsert" /\ i = <<old.id, old.cfg>> /\ old.todo = {}
      /\ old.id \in CorpusIds /\ old.cfg \in Configs
  BY <1>0, IndexFields DEF IndexManifest, At
<1>2. /\ UNCHANGED <<files, config, parsed, chunks, embeds, ldir, cman, kman, lman>>
      /\ UNCHANGED <<pointers, cstate, kstate, dstate, lstate, faults>>
  BY DEF IndexManifest, pointers
<1>3. /\ i \notin dman \/ i \in hurt.index
      /\ coll[i].there /\ coll[i].points = Eligible(old.id, HeadingOnly)
  BY <1>1 DEF Indexing
<1>4. StoresKept /\ Written
  BY DEF PipeInv, PipeShape
<1>5. CASE /\ ~CollectionOk(i) /\ coll' = DeleteStale(i) /\ EndIndex(p, "FAILED", "count")
           /\ UNCHANGED <<dman, hurt>>
  <2>1. \E c \in Contents : old.id[c] > 1
    <3>1. PICK c \in Eligible(old.id, HeadingOnly) : old.id[c] # 1
      BY <1>1, <1>3, <1>5, JobsCount DEF CollectionOk
    <3>2. c \in Contents /\ old.id[c] > 0 /\ old.id[c] \in Nat
      BY <1>1, <3>1, IdsAreCounts DEF Eligible, Documents
    <3>q. QED
      BY <3>1, <3>2
  <2>2. Report(p, "FAILED", "count") /\ client' = "none" /\ coll' = [coll EXCEPT ![i] = v]
    BY <1>5 DEF EndIndex, DeleteStale
  <2>3. "count" \in Causes
    BY DEF Causes
  <2>4. PICK r \in RunRecords :
          /\ run' = [run EXCEPT ![p] = r] /\ r.stage = "none" /\ r.pc = "idle" /\ r.status = "FAILED"
          /\ r.cause = "count" /\ r.id = old.id
    BY <1>0, <2>2, <2>3, ReportFields
  <2>5. Explained(r)
    BY <2>1, <2>4 DEF Explained
  <2>6. Knows(r) /\ Indexing(p, r)'
    BY <2>4, <2>5, RestingKnows
  <2>7. v \in [there : BOOLEAN, points : SUBSET Contents] /\ v.points = {}
    OBVIOUS
  <2>8. UNCHANGED manifests
    BY <1>2, <1>5 DEF manifests
  <2>. HIDE DEF v, i
  <2>q. QED
    BY <1>1, <1>2, <1>3, <1>5, <2>2, <2>4, <2>6, <2>7, <2>8, CollectionStep
<1>6. CASE /\ CollectionOk(i) /\ dman' = dman \cup {i} /\ hurt' = [hurt EXCEPT !.index = @ \ {i}]
           /\ Local(p, "state") /\ UNCHANGED <<coll, client>>
  <2>1. PICK r : r = [old EXCEPT !.pc = "state"]
    OBVIOUS
  <2>2. /\ r \in RunRecords /\ r.stage = "index" /\ r.pc = "state" /\ r.status = old.status
        /\ r.cause = old.cause /\ r.id = old.id /\ r.cfg = old.cfg
    BY <1>1, <2>1 DEF RunRecords
  <2>3. run' = [run EXCEPT ![p] = r]
    BY <1>0, <1>6, <2>1 DEF Local, PipeInv, PipeShape
  <2>4. /\ hurt' \in [artifact : BOOLEAN, index : SUBSET Indexes, rewritten : SUBSET CorpusIds]
        /\ hurt'.artifact = hurt.artifact /\ hurt'.index = hurt.index \ {i}
        /\ hurt'.rewritten = hurt.rewritten
    BY <1>4, <1>6 DEF Written
  <2>5. Grows
    BY <1>2, <1>6, <2>4 DEF Grows
  <2>6. Whole(i)
    BY <1>1, <1>3, <1>6 DEF Whole, CollectionOk
  <2>7. Knows(r)
    BY <1>1, <2>2 DEF Knows, Ingesting, Chunking, Termed
  <2>. HIDE DEF i
  <2>8. Knows(r)' /\ Indexing(p, r)'
    BY <1>1, <1>6, <2>2, <2>5, <2>7, KnowsKept DEF Indexing
  <2>9. Written'
    BY <1>1, <1>2, <1>4, <1>6, <2>4 DEF Written
  <2>10. StoresKept'
    BY <1>2, <1>4, <1>6, <2>4, <2>6 DEF StoresKept, Whole, DistinctJobs, LexicalJobs, ChildJobs, Jobs, Eligible, Documents
  <2>q. QED
    BY <1>1, <1>2, <2>2, <2>3, <2>5, <2>8, <2>9, <2>10, StoreStep
<1>q. QED
  BY <1>5, <1>6 DEF IndexManifest

LEMMA IndexStateWriteStep == ASSUME PipeInv, NEW p \in Procs, IndexStateWrite(p) PROVE PipeInv'
<1>1. /\ UNCHANGED <<files, config, stores, manifests, cstate, kstate, lstate, faults, hurt>>
      /\ UNCHANGED <<parsed, chunks, embeds, coll, ldir, cman, kman, dman, lman>>
  BY DEF IndexStateWrite, stores, manifests
<1>2. /\ run[p] \in RunRecords /\ Indexing(p, run[p]) /\ client = p /\ <<run[p].id, run[p].cfg>> \in Indexes
      /\ run[p].stage = "index" /\ run[p].pc = "state"
  BY IndexFields DEF IndexStateWrite, At
<1>3. <<run[p].id, run[p].cfg>> \in dman
  BY <1>2 DEF Indexing
<1>4. dstate' = <<run[p].id, run[p].cfg>> /\ Report(p, "SUCCESS", "none") /\ client' = "none"
  BY DEF IndexStateWrite, EndIndex
<1>5. Pointers'
  BY <1>1, <1>3, <1>4 DEF PipeInv, Pointers, Parsed, HasChunks, HasManifest, OfSameCorpus
<1>6. cstate' \in Sources /\ kstate' \in CorpusIds /\ dstate' \in Indexes /\ lstate' \in CorpusIds
  BY <1>1, <1>2, <1>4 DEF PipeInv, PipeShape, Written
<1>q. QED
  BY <1>1, <1>2, <1>4, <1>5, <1>6, PointerStep

(* --- Damage --------------------------------------------------------------- *)

LEMMA DamageStep == ASSUME PipeInv, Damage PROVE PipeInv'
<1>1. UNCHANGED <<files, config, manifests, cman, kman, dman, lman, pointers, cstate, kstate, dstate, lstate, client, run>>
  BY DEF Damage, manifests, pointers
<1>2. StoresKept /\ Written
  BY DEF PipeInv, PipeShape
<1>3. faults' \in 0..MaxFaults
  BY <1>2, PipelineAssumption DEF Damage, Written
<1>4. ASSUME Grows, Written', StoresKept',
             (UNCHANGED coll /\ hurt'.index = hurt.index) \/ client = "none"
      PROVE  PipeInv'
  <2>1. \A o \in Procs : (Knows(run[o]) /\ Indexing(o, run[o]))'
    BY <1>1, <1>4, OtherKept, PipelineAssumption
  <2>2. Pointers'
    BY <1>1, <1>4, PointersKept DEF PipeInv
  <2>q. QED
    BY <1>1, <1>4, <2>1, <2>2 DEF PipeInv, PipeShape
<1>5. ASSUME hurt' = [hurt EXCEPT !.artifact = TRUE]
      PROVE  /\ hurt' \in [artifact : BOOLEAN, index : SUBSET Indexes, rewritten : SUBSET CorpusIds]
             /\ hurt'.artifact /\ hurt'.index = hurt.index /\ hurt'.rewritten = hurt.rewritten
  BY <1>2, <1>5 DEF Written
<1>6. ASSUME NEW c \in Contents, parsed[c] = "good", parsed' = [parsed EXCEPT ![c] = "bad"],
             hurt' = [hurt EXCEPT !.artifact = TRUE], UNCHANGED <<chunks, embeds, coll, ldir>>
      PROVE  PipeInv'
  <2>1. parsed' \in [Contents -> Quality] /\ \A d \in Contents : parsed[d] # "none" => parsed'[d] # "none"
    BY <1>2, <1>6 DEF Written, Quality
  <2>2. Grows
    BY <1>1, <1>5, <1>6, <2>1 DEF Grows
  <2>3. Written' /\ StoresKept'
    BY <1>1, <1>2, <1>3, <1>5, <1>6, <2>1 DEF Written, StoresKept, Whole
  <2>q. QED
    BY <1>4, <1>5, <1>6, <2>2, <2>3
<1>7. ASSUME NEW c \in Contents, chunks[c] = "good", chunks' = [chunks EXCEPT ![c] = "bad"],
             hurt' = [hurt EXCEPT !.artifact = TRUE], UNCHANGED <<parsed, embeds, coll, ldir>>
      PROVE  PipeInv'
  <2>1. chunks' \in [Contents -> Quality] /\ \A d \in Contents : chunks[d] # "none" => chunks'[d] # "none"
    BY <1>2, <1>7 DEF Written, Quality
  <2>2. Grows
    BY <1>1, <1>5, <1>7, <2>1 DEF Grows
  <2>3. Written' /\ StoresKept'
    BY <1>1, <1>2, <1>3, <1>5, <1>7, <2>1 DEF Written, StoresKept, Whole
  <2>q. QED
    BY <1>4, <1>5, <1>7, <2>2, <2>3
<1>8. ASSUME NEW e \in DOMAIN embeds, embeds[e] = "good", embeds' = [embeds EXCEPT ![e] = "bad"],
             hurt' = [hurt EXCEPT !.artifact = TRUE], UNCHANGED <<parsed, chunks, coll, ldir>>
      PROVE  PipeInv'
  <2>1. embeds' \in [Contents \X Configs -> Quality]
    BY <1>2, <1>8 DEF Written, Quality
  <2>2. Grows
    BY <1>1, <1>5, <1>8 DEF Grows
  <2>3. Written' /\ StoresKept'
    BY <1>1, <1>2, <1>3, <1>5, <1>8, <2>1 DEF Written, StoresKept, Whole
  <2>q. QED
    BY <1>4, <1>5, <1>8, <2>2, <2>3
<1>9. ASSUME NEW i \in CorpusIds, ldir[i] = "good", ldir' = [ldir EXCEPT ![i] = "bad"],
             hurt' = [hurt EXCEPT !.artifact = TRUE], UNCHANGED <<parsed, chunks, embeds, coll>>
      PROVE  PipeInv'
  <2>1. ldir' \in [CorpusIds -> Quality] /\ \A d \in CorpusIds : ldir[d] # "none" <=> ldir'[d] # "none"
    BY <1>2, <1>9 DEF Written, Quality
  <2>2. Grows
    BY <1>1, <1>5, <1>9, <2>1 DEF Grows
  <2>3. Written' /\ StoresKept'
    BY <1>1, <1>2, <1>3, <1>5, <1>9, <2>1 DEF Written, StoresKept, Whole
  <2>q. QED
    BY <1>4, <1>5, <1>9, <2>2, <2>3
<1>10. ASSUME NEW i \in Indexes, NEW c \in Contents, client = "none", c \in coll[i].points,
              coll' = [coll EXCEPT ![i].points = @ \ {c}], hurt' = [hurt EXCEPT !.index = @ \cup {i}],
              UNCHANGED <<parsed, chunks, embeds, ldir>>
       PROVE  PipeInv'
  <2>1. /\ hurt' \in [artifact : BOOLEAN, index : SUBSET Indexes, rewritten : SUBSET CorpusIds]
        /\ hurt'.artifact = hurt.artifact /\ hurt'.index = hurt.index \cup {i}
        /\ hurt'.rewritten = hurt.rewritten
    BY <1>2, <1>10 DEF Written
  <2>2. /\ coll' \in [Indexes -> [there : BOOLEAN, points : SUBSET Contents]]
        /\ \A j \in Indexes : j # i => coll'[j] = coll[j]
        /\ coll'[i].there = coll[i].there /\ coll'[i].points = coll[i].points \ {c}
    BY <1>2, <1>10 DEF Written
  <2>3. Grows
    BY <1>1, <1>10, <2>1 DEF Grows
  <2>4. Written'
    BY <1>1, <1>2, <1>3, <1>10, <2>1, <2>2 DEF Written
  <2>5. StoresKept'
    BY <1>1, <1>2, <1>10, <2>1, <2>2 DEF StoresKept, Whole
  <2>q. QED
    BY <1>4, <1>10, <2>3, <2>4, <2>5
<1>q. QED
  BY <1>6, <1>7, <1>8, <1>9, <1>10 DEF Damage

(* --- The theorems --------------------------------------------------------- *)

LEMMA PipeInitially == PipeInit => PipeInv
<1>. SUFFICES ASSUME PipeInit PROVE PipeInv
  OBVIOUS
<1>0. /\ config \in Configs /\ files \in Sources /\ 0 \in 0..MaxFaults /\ NoIndex \in Indexes
  BY PipelineAssumption, SourcesFields DEF PipeInit, Sources, NoIndex, Indexes
<1>1. Written
  BY <1>0, SourcesFields DEF PipeInit, Written, Quality
<1>2. run = [p \in Procs |-> Idle] /\ run \in [Procs -> RunRecords]
  BY IdleFields DEF PipeInit
<1>3. StoresKept /\ Pointers
  BY DEF PipeInit, StoresKept, Pointers
<1>4. ASSUME NEW p \in Procs PROVE Knows(run[p]) /\ Indexing(p, run[p])
  <2>1. run[p] = Idle /\ Idle.stage = "none" /\ Idle.pc = "idle" /\ Idle.status = "none"
    BY <1>2 DEF Idle
  <2>. HIDE DEF Idle
  <2>q. QED
    BY <2>1 DEF Knows, Ingesting, Chunking, Termed, Indexing
<1>q. QED
  BY <1>1, <1>2, <1>3, <1>4 DEF PipeInv, PipeShape

\* The invariant of the four stages: what is named is there, a verified
\* collection is whole, a failure has its cause, and a process still knows of
\* the shared stores what it read from them.
THEOREM PipeInvariant == PipeSpec => []PipeInv
<1>1. PipeInv /\ PipeNext => PipeInv'
  <2>. SUFFICES ASSUME PipeInv, PipeNext PROVE PipeInv'
    OBVIOUS
  <2>1. CASE Damage \/ UserEdits
    BY <2>1, DamageStep, EditStep
  <2>2. ASSUME NEW p \in Procs, BeginIngest(p) \/ BeginChunk(p) \/ BeginIndex(p) \/ BeginLexical(p) \/ PipeCrash(p)
        PROVE  PipeInv'
    BY <2>2, BeginIngestStep, BeginChunkStep, BeginIndexStep, BeginLexicalStep, PipeCrashStep
  <2>3. ASSUME NEW p \in Procs, StageStep(p) PROVE PipeInv'
    <3>1. CASE \E q \in Paths : IngestSource(p, q)
      BY <3>1, IngestSourceStep
    <3>2. CASE \E c \in Contents : ChunkOneDocument(p, c) \/ ReuseEmbedding(p, c) \/ EncodeBatch(p, c) \/ Upsert(p, c)
      BY <3>2, ChunkOneDocumentStep, ReuseEmbeddingStep, EncodeBatchStep, UpsertStep
    <3>3. CASE IngestManifest(p) \/ WriteManifest(p) \/ IngestState(p) \/ ChunkManifest(p) \/ ChunkStateWrite(p)
      BY <3>3, IngestManifestStep, WriteManifestStep, IngestStateStep, ChunkManifestStep, ChunkStateWriteStep
    <3>4. CASE ClearCollection(p) \/ CreateCollection(p) \/ IndexManifest(p) \/ IndexStateWrite(p)
      BY <3>4, ClearCollectionStep, CreateCollectionStep, IndexManifestStep, IndexStateWriteStep
    <3>5. CASE BuildLexical(p) \/ PlaceLexical(p) \/ LexicalManifest(p) \/ LexicalStateWrite(p)
      BY <3>5, BuildLexicalStep, PlaceLexicalStep, LexicalManifestStep, LexicalStateWriteStep
    <3>q. QED
      BY <2>3, <3>1, <3>2, <3>3, <3>4, <3>5 DEF StageStep
  <2>q. QED
    BY <2>1, <2>2, <2>3 DEF PipeNext
<1>2. PipeInv /\ UNCHANGED pipeVars => PipeInv'
  <2>. SUFFICES ASSUME PipeInv, UNCHANGED pipeVars PROVE PipeInv'
    OBVIOUS
  <2>1. /\ UNCHANGED <<files, config, parsed, chunks, embeds, coll, ldir, cman, kman, dman, lman>>
        /\ UNCHANGED <<cstate, kstate, dstate, lstate, client, run, faults, hurt>>
    BY DEF pipeVars, stores, manifests, pointers
  <2>2. Grows
    BY <2>1 DEF Grows
  <2>3. \A o \in Procs : (Knows(run[o]) /\ Indexing(o, run[o]))'
    BY <2>1, <2>2, OtherKept
  <2>4. Pointers'
    BY <2>1, <2>2, PointersKept DEF PipeInv, pointers
  <2>5. PipeShape' /\ StoresKept'
    BY <2>1 DEF PipeInv, PipeShape, Written, StoresKept, Whole
  <2>q. QED
    BY <2>3, <2>4, <2>5 DEF PipeInv
<1>q. QED
  BY <1>1, <1>2, PipeInitially, PTL DEF PipeSpec

LEMMA AnswersForActive == PipeInv => CurrentStackAnswers
<1>. SUFFICES ASSUME PipeInv, NEW q \in Paths, cstate[q] \in Contents
              PROVE  /\ DenseStatus = "CURRENT" /\ dstate \notin hurt.index =>
                          cstate[q] \in coll[dstate].points \cup HeadingOnly
                     /\ LexicalStatus = "CURRENT" => lstate[cstate[q]] = 1 \/ cstate[q] \in ZeroTerm
  BY DEF CurrentStackAnswers
<1>1. cstate \in Sources /\ corpus_id(cstate) \in CorpusIds /\ dstate \in Indexes /\ lstate \in CorpusIds
  BY SourcesFields DEF PipeInv, PipeShape, Written
<1>2. cstate[q] \in Documents(corpus_id(cstate))
  BY <1>1, CountOf DEF Documents
<1>3. ASSUME DenseStatus = "CURRENT", dstate \notin hurt.index
      PROVE  cstate[q] \in coll[dstate].points \cup HeadingOnly
  <2>1. dstate # NoIndex /\ dstate[1] = corpus_id(cstate)
    BY <1>3 DEF DenseStatus
  <2>2. Whole(dstate)
    BY <1>1, <1>3, <2>1 DEF PipeInv, Pointers, StoresKept
  <2>q. QED
    BY <1>2, <2>1, <2>2 DEF Whole, Eligible
<1>4. ASSUME LexicalStatus = "CURRENT", cstate[q] \notin ZeroTerm PROVE lstate[cstate[q]] = 1
  <2>1. lstate # NoCorpus /\ lstate = corpus_id(cstate)
    BY <1>4 DEF LexicalStatus
  <2>2. DistinctJobs(lstate)
    BY <1>1, <2>1 DEF PipeInv, Pointers, StoresKept
  <2>3. cstate[q] \in Eligible(lstate, ZeroTerm)
    BY <1>2, <1>4, <2>1 DEF Eligible
  <2>q. QED
    BY <1>1, <2>2, <2>3, JobsCount DEF DistinctJobs, LexicalJobs
<1>q. QED
  BY <1>3, <1>4

\* Whatever runs of the four stages overlap, fail or die, the corpus stays
\* usable: the pointers lead to complete artifacts, what is left over blocks
\* no later run, and a current index answers for the active documents.
THEOREM CorpusHolds == PipeSpec => []CorpusIsUsable
<1>1. PipeInv => PipeTypeOK
  BY DEF PipeInv, PipeShape, Written, PipeTypeOK, RunRecords
<1>2. PipeInv => PointersResolve
  <2>. SUFFICES ASSUME PipeInv PROVE PointersResolve
    OBVIOUS
  <2>1. dstate # NoIndex /\ dstate \notin hurt.index => Whole(dstate)
    BY DEF PipeInv, PipeShape, Written, Pointers, StoresKept
  <2>2. lstate # NoCorpus => ldir[lstate] # "none"
    BY DEF PipeInv, PipeShape, Written, Pointers, StoresKept
  <2>q. QED
    BY <2>1, <2>2 DEF PipeInv, Pointers, Parsed, HasChunks, Whole, PointersResolve
<1>3. PipeInv => FailuresHaveCauses
  BY DEF PipeInv, Knows, Explained, FailuresHaveCauses
<1>4. PipeInv => CorpusIsUsable
  BY <1>1, <1>2, <1>3, AnswersForActive DEF CorpusIsUsable
<1>q. QED
  BY <1>4, PipeInvariant, PTL

(***************************************************************************)
(* Induction, over a set instead of an operator: a set that holds 0 and,   *)
(* with every number but the last, the next, holds all of them.            *)
(***************************************************************************)

LEMMA LeastOf ==
    ASSUME NEW T, T \subseteq Nat, T # {}
    PROVE  \E x \in T : \A y \in T : x <= y
<1>1. PICK x \in T : \A y \in T : ~(<<y, x>> \in OpToRel(<, Nat))
  BY WFMin, NatLessThanWellFounded
<1>2. \A y \in T : x <= y
  <2>. SUFFICES ASSUME NEW y \in T, y < x PROVE FALSE
    OBVIOUS
  <2>1. <<y, x>> \in OpToRel(<, Nat)
    BY DEF OpToRel
  <2>q. QED
    BY <1>1, <2>1
<1>q. QED
  BY <1>2

LEMMA InductionUpTo ==
    ASSUME NEW L \in Nat, NEW P, 0 \in P, \A n \in 1..L : n - 1 \in P => n \in P
    PROVE  0..L \subseteq P
<1>. SUFFICES ASSUME (0..L) \ P # {} PROVE FALSE
  OBVIOUS
<1>1. PICK x \in (0..L) \ P : \A y \in (0..L) \ P : x <= y
  BY LeastOf, (0..L) \ P \subseteq Nat
<1>2. x \in 1..L /\ x - 1 \in 0..L
  OBVIOUS
<1>3. x - 1 \in P
  BY <1>1, <1>2
<1>q. QED
  BY <1>2, <1>3

\* The runs of a step function F from a start; there always is one.
Run(F, S, b, L) == {f \in [0..L -> S] : f[0] = b /\ \A n \in 1..L : f[n] = F[n][f[n - 1]]}

LEMMA Iteration ==
    ASSUME NEW S, NEW b \in S, NEW L \in Nat, NEW F \in [1..L -> [S -> S]]
    PROVE  Run(F, S, b, L) # {}
<1>. DEFINE P == {k \in 0..L : Run(F, S, b, k) # {}}
<1>1. 0 \in P
  <2>1. [n \in 0..0 |-> b] \in Run(F, S, b, 0)
    BY DEF Run
  <2>q. QED
    BY <2>1
<1>2. ASSUME NEW k \in 1..L, k - 1 \in P PROVE k \in P
  <2>1. PICK f : f \in Run(F, S, b, k - 1)
    BY <1>2
  <2>2. f \in [0..(k - 1) -> S] /\ f[0] = b /\ \A n \in 1..(k - 1) : f[n] = F[n][f[n - 1]]
    BY <2>1 DEF Run
  <2>. DEFINE g == [n \in 0..k |-> IF n = k THEN F[k][f[k - 1]] ELSE f[n]]
  <2>3. k - 1 \in 0..(k - 1) /\ f[k - 1] \in S /\ F[k][f[k - 1]] \in S
    BY <2>2
  <2>4. g \in [0..k -> S]
    <3>1. \A n \in 0..k : n # k => n \in 0..(k - 1)
      OBVIOUS
    <3>q. QED
      BY <2>2, <2>3, <3>1
  <2>5. ASSUME NEW n \in 1..k PROVE g[n] = F[n][g[n - 1]]
    <3>1. n - 1 \in 0..k /\ n - 1 # k /\ g[n - 1] = f[n - 1]
      OBVIOUS
    <3>2. CASE n = k
      BY <3>1, <3>2
    <3>3. CASE n # k
      BY <2>2, <3>1, <3>3
    <3>q. QED
      BY <3>2, <3>3
  <2>6. g[0] = b
    BY <2>2
  <2>. HIDE DEF g
  <2>7. g \in Run(F, S, b, k)
    BY <2>4, <2>5, <2>6 DEF Run
  <2>q. QED
    BY <2>7
<1>3. \A k \in 1..L : k - 1 \in P => k \in P
  BY <1>2
<1>. HIDE DEF P
<1>4. 0..L \subseteq P
  BY <1>1, <1>3, InductionUpTo
<1>5. L \in P
  BY <1>4
<1>q. QED
  BY ONLY <1>5 DEF P

\* What a recurrence keeps holds of all its values.
LEMMA Recurrence ==
    ASSUME NEW S, NEW L \in Nat, NEW g, g = [n \in 0..L |-> g[n]], g[0] \in S,
           \A n \in 1..L : g[n - 1] \in S => g[n] \in S
    PROVE  g \in [0..L -> S]
<1>. DEFINE P == {n \in 0..L : g[n] \in S}
<1>1. 0 \in P /\ \A n \in 1..L : n - 1 \in P => n \in P
  OBVIOUS
<1>. HIDE DEF P
<1>2. 0..L \subseteq P
  BY <1>1, InductionUpTo
<1>3. \A n \in 0..L : g[n] \in S
  BY <1>2 DEF P
<1>q. QED
  BY <1>3

(***************************************************************************)
(* Uploads.                                                                *)
(***************************************************************************)
UpStates == {"new", "spooling", "failed", "accepted", "queued", "writing", "done", "refused", "lost"}
Places == 1..(max_active_sources_per_workspace + 1)
Objects == Uploads \X (Nat \ {0})
UpRecs ==
    [st : UpStates, route : Routes \cup {"none"}, part : UploadParts \cup {NoPart}, read : Nat,
     size : Nat, seen : Nat, begun : Int, files : Seq(UpDocs), total : Nat,
     corpus : CorpusNames \cup {"none"}, desired : SUBSET (Places \X Objects)]

\* The running sums of a sequence, and what a list of files comes to.
Sums(w) == LET sum[n \in 0..Len(w)] == IF n = 0 THEN 0 ELSE sum[n - 1] + w[n]
           IN sum
Sizes(fs) == [i \in DOMAIN fs |-> DocBytes(fs[i])]

\* What the spool of one request holds: the files that are complete within the
\* limits; while it is written the total of an HTTP request is every byte there,
\* and the current file is as long as the chunks read of it.
Spooled(r) ==
    /\ r.route \in Http =>
         /\ r.size + SumOf(Sizes(r.files)) <= max_total_upload_bytes
         /\ Len(r.files) <= max_files_per_ingest
         /\ \A i \in DOMAIN r.files : DocBytes(r.files[i]) <= source_limit_bytes(r.files[i])
    /\ r.st = "new" => r = Fresh
    /\ r.st \in {"accepted", "queued"} => r.files # <<>>
    /\ r.st = "spooling" =>
         /\ r.route # "none"
         /\ r.route \in Http => r.total = r.size + SumOf(Sizes(r.files))
         /\ r.part.field # "files" => r.size = 0
         /\ r.part.field = "files" =>
              /\ r.read \in 0..Len(Chunks[r.part.value])
              /\ r.size = Sums(Chunks[r.part.value])[r.read]
              /\ r.size <= source_limit_bytes(r.part.value)
              /\ r.route \in Http => Len(r.files) < max_files_per_ingest

\* An object that a source may name: a file of an upload that has ended well,
\* so it is not going to change.
Placed(o) == o \in Objects /\ up[o[1]].st = "done" /\ o[2] \in DOMAIN up[o[1]].files

\* A desired set names each source once, and only its own files beside placed
\* ones; it was admitted as a whole.
Wanted(u) ==
    /\ \A e \in up[u].desired :
         /\ Placed(e[2]) \/ e[2] \in {u} \X DOMAIN up[u].files
         /\ \A f \in up[u].desired : e[1] = f[1] => e = f
    /\ Cardinality(up[u].desired) <= max_active_sources_per_workspace
    /\ Bytes(up[u].desired) <= max_active_source_bytes_per_workspace

UploadShape ==
    /\ up \in [Uploads -> UpRecs] /\ staging \subseteq Uploads
    /\ sources \in [Places -> Objects \cup {None}]
    /\ upHost \in [up : BOOLEAN, qualified : BOOLEAN]

UploadInv ==
    /\ UploadShape
    /\ \A u \in Uploads : Spooled(up[u])
    /\ \A u \in Uploads : up[u].st = "writing" => wsLease = u /\ Wanted(u)
    /\ \A s \in Active : Placed(sources[s])
    /\ StagingIsOwned /\ ServedIsUploaded /\ WithinCeilings /\ LegacyKeepsOut

LEMMA SumsOf ==
    ASSUME NEW w \in Seq(Nat)
    PROVE  /\ Sums(w) \in [0..Len(w) -> Nat] /\ Sums(w)[0] = 0
           /\ \A n \in 1..Len(w) : Sums(w)[n] = Sums(w)[n - 1] + w[n]
           /\ SumOf(w) = Sums(w)[Len(w)] /\ SumOf(w) \in Nat
<1>. DEFINE L == Len(w)
            Z == Nat
            W == [n \in 1..L |-> w[n]]
            F == [n \in 1..L |-> [x \in Z |-> x + W[n]]]
            Body(f) == [n \in 0..L |-> IF n = 0 THEN 0 ELSE f[n - 1] + w[n]]
            g == Sums(w)
<1>1. L \in Nat /\ W \in [1..L -> Z] /\ 0 \in Z
  OBVIOUS
<1>2. \A f : Body(f) = [n \in 0..L |-> IF n = 0 THEN 0 ELSE f[n - 1] + W[n]]
  <2>1. \A n \in 0..L : n # 0 => n \in 1..L
    BY <1>1
  <2>. HIDE DEF L
  <2>q. QED
    BY <2>1
<1>3. g = CHOOSE h : h = Body(h)
  BY DEF Sums
<1>4. SumOf(w) = g[L]
  BY DEF SumOf, Sums
<1>. HIDE DEF L, W, g, Body
<1>5. F \in [1..L -> [Z -> Z]]
  BY <1>1
<1>6. \A n \in 1..L : \A x \in Z : F[n][x] = x + W[n]
  OBVIOUS
<1>. HIDE DEF F, Z
<1>7. PICK f : f \in Run(F, Z, 0, L)
  <2>1. L \in Nat /\ 0 \in Z
    BY <1>1
  <2>q. QED
    BY <1>5, <2>1, Iteration
<1>8. f \in [0..L -> Z] /\ f[0] = 0 /\ \A n \in 1..L : f[n] = F[n][f[n - 1]]
  BY <1>7 DEF Run
<1>9. f = Body(f)
  <2>1. ASSUME NEW n \in 0..L, n # 0 PROVE f[n] = f[n - 1] + W[n]
    <3>1. n \in 1..L /\ n - 1 \in 0..L
      BY <2>1, <1>1
    <3>q. QED
      BY <1>6, <1>8, <3>1
  <2>q. QED
    BY <1>2, <1>8, <2>1
<1>10. g = [n \in 0..L |-> IF n = 0 THEN 0 ELSE g[n - 1] + W[n]]
  <2>1. g = Body(g)
    BY <1>3, <1>9
  <2>q. QED
    BY <1>2, <2>1
<1>11. g = [n \in 0..L |-> g[n]] /\ g[0] = 0 /\ \A n \in 1..L : g[n] = g[n - 1] + W[n]
  <2>1. 0 \in 0..L /\ \A n \in 1..L : n \in 0..L /\ n # 0
    BY <1>1
  <2>q. QED
    BY <1>10, <2>1
<1>12. ASSUME NEW n \in 1..L, g[n - 1] \in Z PROVE g[n] \in Z
  <2>1. g[n - 1] \in Nat /\ W[n] \in Nat /\ g[n] = g[n - 1] + W[n]
    BY <1>1, <1>11, <1>12 DEF Z
  <2>2. g[n] \in Nat
    BY <2>1
  <2>q. QED
    BY <2>2 DEF Z
<1>13. g \in [0..L -> Z]
  BY <1>1, <1>11, <1>12, Recurrence
<1>14. g \in [0..L -> Nat] /\ g[L] \in Nat /\ \A n \in 1..L : W[n] = w[n]
  BY <1>1, <1>13 DEF Z, W
<1>q. QED
  BY <1>4, <1>11, <1>14 DEF g, L

\* A longer sequence adds its last number; larger numbers have a larger sum.
LEMMA SumsBelow ==
    ASSUME NEW v \in Seq(Nat), NEW w \in Seq(Nat), Len(v) <= Len(w), \A i \in 1..Len(v) : v[i] <= w[i]
    PROVE  \A n \in 0..Len(v) : Sums(v)[n] <= Sums(w)[n]
<1>. DEFINE L == Len(v)
            P == {n \in 0..L : Sums(v)[n] <= Sums(w)[n]}
<1>1. L \in Nat /\ Len(w) \in Nat /\ \A n \in 1..L : n \in 1..Len(w) /\ v[n] \in Nat /\ w[n] \in Nat
  OBVIOUS
<1>2. 0 \in P
  BY <1>1, SumsOf
<1>3. ASSUME NEW n \in 1..L, n - 1 \in P PROVE n \in P
  <2>1. Sums(v)[n] = Sums(v)[n - 1] + v[n] /\ Sums(w)[n] = Sums(w)[n - 1] + w[n]
    BY <1>1, SumsOf
  <2>2. Sums(v)[n - 1] \in Nat /\ Sums(w)[n - 1] \in Nat
    <3>1. n - 1 \in 0..Len(v) /\ n - 1 \in 0..Len(w)
      BY <1>1
    <3>q. QED
      BY <3>1, SumsOf
  <2>3. w[n] \in Nat /\ v[n] \in Nat /\ v[n] <= w[n]
    BY <1>1
  <2>4. Sums(v)[n - 1] <= Sums(w)[n - 1]
    BY <1>3
  <2>5. Sums(v)[n] <= Sums(w)[n]
    <3>. DEFINE a == Sums(v)[n - 1]
                b == Sums(w)[n - 1]
                x == v[n]
                y == w[n]
    <3>1. a \in Nat /\ b \in Nat /\ x \in Nat /\ y \in Nat /\ a <= b /\ x <= y
      BY <2>2, <2>3, <2>4
    <3>2. Sums(v)[n] = a + x /\ Sums(w)[n] = b + y
      BY <2>1
    <3>. HIDE DEF a, b, x, y
    <3>q. QED
      BY <3>1, <3>2
  <2>q. QED
    BY <2>5
<1>. HIDE DEF P, L
<1>4. 0..L \subseteq P
  BY <1>1, <1>2, <1>3, InductionUpTo
<1>q. QED
  BY <1>4 DEF P, L

LEMMA SumAppend ==
    ASSUME NEW w \in Seq(Nat), NEW x \in Nat
    PROVE  SumOf(Append(w, x)) = SumOf(w) + x
<1>. DEFINE more == Append(w, x)
            L == Len(w)
<1>1. /\ more \in Seq(Nat) /\ Len(more) = L + 1 /\ more[L + 1] = x /\ L \in Nat
      /\ \A i \in 1..L : more[i] = w[i]
  OBVIOUS
<1>. HIDE DEF more
<1>2. w \in Seq(Nat) /\ \A i \in 1..L : w[i] \in Nat
  OBVIOUS
<1>3. Sums(w)[L] <= Sums(more)[L]
  <2>1. \A i \in 1..Len(w) : w[i] <= more[i]
    BY <1>1, <1>2
  <2>2. Len(w) <= Len(more) /\ L \in 0..Len(w)
    BY <1>1
  <2>q. QED
    BY <1>1, <2>1, <2>2, SumsBelow
<1>4. Sums(more)[L] <= Sums(w)[L]
  <2>. DEFINE P == {n \in 0..L : Sums(more)[n] = Sums(w)[n]}
  <2>1. 0 \in P
    BY <1>1, SumsOf
  <2>2. ASSUME NEW n \in 1..L, n - 1 \in P PROVE n \in P
    <3>1. Sums(more)[n] = Sums(more)[n - 1] + more[n] /\ Sums(w)[n] = Sums(w)[n - 1] + w[n]
      <4>1. n \in 1..Len(more) /\ n \in 1..Len(w)
        BY <1>1
      <4>q. QED
        BY <1>1, <4>1, SumsOf
    <3>q. QED
      BY <1>1, <2>2, <3>1
  <2>. HIDE DEF P
  <2>3. 0..L \subseteq P
    BY <1>1, <2>1, <2>2, InductionUpTo
  <2>4. Sums(w)[L] \in Nat
    BY <1>1, SumsOf
  <2>q. QED
    BY <1>1, <2>3, <2>4 DEF P
<1>5. SumOf(more) = Sums(more)[L] + x
  <2>1. L + 1 \in 1..Len(more) /\ (L + 1) - 1 = L
    BY <1>1
  <2>2. Sums(more)[L + 1] = Sums(more)[L] + x
    BY <1>1, <2>1, SumsOf
  <2>q. QED
    BY <1>1, <2>2, SumsOf
<1>6. SumOf(w) = Sums(w)[L] /\ Sums(w)[L] \in Nat /\ Sums(more)[L] \in Nat
  <2>1. L \in 0..L /\ L \in 0..Len(more)
    BY <1>1
  <2>q. QED
    BY <1>1, <2>1, SumsOf
<1>q. QED
  BY <1>3, <1>4, <1>5, <1>6 DEF more

LEMMA SumBelow ==
    ASSUME NEW v \in Seq(Nat), NEW w \in Seq(Nat), Len(v) = Len(w), \A i \in 1..Len(v) : v[i] <= w[i]
    PROVE  SumOf(v) <= SumOf(w)
<1>1. Len(v) \in 0..Len(v)
  OBVIOUS
<1>2. Sums(v)[Len(v)] <= Sums(w)[Len(v)]
  BY <1>1, SumsBelow
<1>q. QED
  BY <1>2, SumsOf

LEMMA DocBytesOf == \A d \in UpDocs : /\ Chunks[d] \in Seq(Nat) /\ DocBytes(d) \in Nat
                                      /\ DocBytes(d) = Sums(Chunks[d])[Len(Chunks[d])]
<1>1. \A d \in UpDocs : Chunks[d] \in Seq(Nat)
  BY UploadAssumption
<1>q. QED
  BY <1>1, SumsOf DEF DocBytes

LEMMA SizesOf ==
    ASSUME NEW fs \in Seq(UpDocs)
    PROVE  /\ Sizes(fs) \in Seq(Nat) /\ SumOf(Sizes(fs)) \in Nat
           /\ \A d \in UpDocs : SumOf(Sizes(Append(fs, d))) = SumOf(Sizes(fs)) + DocBytes(d)
<1>1. fs \in Seq(UpDocs) /\ Len(fs) \in Nat /\ DOMAIN fs = 1..Len(fs) /\ \A i \in 1..Len(fs) : fs[i] \in UpDocs
  OBVIOUS
<1>2. Sizes(fs) \in Seq(Nat) /\ Len(Sizes(fs)) = Len(fs)
  <2>1. \A i \in 1..Len(fs) : DocBytes(fs[i]) \in Nat
    BY <1>1, DocBytesOf
  <2>q. QED
    BY <1>1, <2>1 DEF Sizes
<1>3. ASSUME NEW d \in UpDocs PROVE Sizes(Append(fs, d)) = Append(Sizes(fs), DocBytes(d))
  <2>. DEFINE more == Append(fs, d)
              a == Sizes(more)
              b == Append(Sizes(fs), DocBytes(d))
  <2>1. /\ more \in Seq(UpDocs) /\ Len(more) = Len(fs) + 1 /\ more[Len(fs) + 1] = d
        /\ \A i \in 1..Len(fs) : more[i] = fs[i]
    OBVIOUS
  <2>. HIDE DEF more
  <2>2. DOMAIN more = 1..(Len(fs) + 1)
    BY <2>1
  <2>3. a = [i \in 1..(Len(fs) + 1) |-> DocBytes(more[i])]
    BY <2>2 DEF Sizes
  <2>4. \A i \in 1..Len(fs) : Sizes(fs)[i] = DocBytes(fs[i])
    BY <1>1 DEF Sizes
  <2>5. DocBytes(d) \in Nat
    BY DocBytesOf
  <2>6. b = [i \in 1..(Len(fs) + 1) |-> b[i]] /\ b[Len(fs) + 1] = DocBytes(d)
        /\ \A i \in 1..Len(fs) : b[i] = Sizes(fs)[i]
    <3>. DEFINE z == Sizes(fs)
                L == Len(fs)
                x == DocBytes(d)
    <3>1. z \in Seq(Nat) /\ Len(z) = L /\ x \in Nat /\ L \in Nat
      BY <1>1, <1>2, <2>5
    <3>. HIDE DEF z, L, x
    <3>2. /\ Append(z, x) \in Seq(Nat) /\ Len(Append(z, x)) = L + 1 /\ Append(z, x)[L + 1] = x
          /\ \A i \in 1..L : Append(z, x)[i] = z[i]
      BY <3>1
    <3>3. ASSUME NEW t \in Seq(Nat) PROVE t = [i \in 1..Len(t) |-> t[i]]
      OBVIOUS
    <3>4. Append(z, x) = [i \in 1..(L + 1) |-> Append(z, x)[i]]
      BY <3>2, <3>3
    <3>q. QED
      BY <3>2, <3>4 DEF z, L, x
  <2>. HIDE DEF b, a
  <2>7. \A i \in 1..(Len(fs) + 1) : DocBytes(more[i]) = b[i]
    <3>1. \A i \in 1..(Len(fs) + 1) : i \in 1..Len(fs) \/ i = Len(fs) + 1
      BY <1>1
    <3>q. QED
      BY <2>1, <2>4, <2>6, <3>1
  <2>8. a = b
    BY <2>3, <2>6, <2>7
  <2>q. QED
    BY <2>8 DEF a, b, more
<1>q. QED
  BY <1>2, <1>3, SumsOf, SumAppend, DocBytesOf


\* The bytes of a desired set, from what the uploads hold.
BytesIn(D, places, ups) ==
    SumOf([s \in places |-> LET o == ObjectOf(D, s)
                            IN  IF o = None THEN 0 ELSE DocBytes(ups[o[1]].files[o[2]])])

LEMMA BytesAre == \A D : Bytes(D) = BytesIn(D, DOMAIN sources, up)
  BY DEF Bytes, BytesIn, Uploaded

LEMMA ObjectOfSet ==
    ASSUME NEW D \in SUBSET (Places \X Objects), \A e, f \in D : e[1] = f[1] => e = f
    PROVE  /\ \A e \in D : ObjectOf(D, e[1]) = e[2]
           /\ \A s : ObjectOf(D, s) # None => <<s, ObjectOf(D, s)>> \in D
           /\ \A s : ObjectOf(D, s) \in Objects \cup {None}
<1>1. None \notin Objects
  BY DEF None, Objects
<1>2. \A e \in D : e = <<e[1], e[2]>> /\ e[2] \in Objects
  OBVIOUS
<1>3. ASSUME NEW e \in D PROVE ObjectOf(D, e[1]) = e[2]
  <2>1. (CHOOSE f \in D : f[1] = e[1]) = e
    OBVIOUS
  <2>q. QED
    BY <2>1 DEF ObjectOf
<1>4. ASSUME NEW s, ObjectOf(D, s) # None PROVE <<s, ObjectOf(D, s)>> \in D
  <2>1. PICK e \in D : e[1] = s
    BY <1>4 DEF ObjectOf
  <2>q. QED
    BY <1>2, <1>3, <2>1
<1>5. ASSUME NEW s PROVE ObjectOf(D, s) \in Objects \cup {None}
  BY <1>2, <1>4
<1>q. QED
  BY <1>3, <1>4, <1>5

LEMMA UpOf == ASSUME UploadInv, NEW u \in Uploads
              PROVE  up[u] \in UpRecs /\ Spooled(up[u]) /\ up[u].files \in Seq(UpDocs)
  BY DEF UploadInv, UploadShape, UpRecs

\* A step of one request that publishes nothing: the placed objects stay, and so
\* does what another one was admitted for.
LEMMA RequestStep ==
    ASSUME UploadInv, NEW u \in Uploads, NEW r \in UpRecs, up' = [up EXCEPT ![u] = r], Spooled(r),
           up[u].st # "done", r.st = "writing" => wsLease' = u /\ Wanted(u)',
           up[u].st = "writing" \/ wsLease = "none" \/ wsLease' = wsLease,
           staging' \subseteq staging \cup {u},
           u \in staging' /\ r.route \in {"add", "replace"} =>
               r.st \in {"spooling", "failed", "accepted", "queued", "writing"},
           UNCHANGED <<sources, served, upHost>>, LegacyKeepsOut'
    PROVE  UploadInv'
<1>1. up' \in [Uploads -> UpRecs] /\ up'[u] = r /\ \A v \in Uploads : v # u => up'[v] = up[v]
  BY DEF UploadInv, UploadShape
<1>2. UploadShape' /\ \A v \in Uploads : Spooled(up'[v])
  <2>1. \A v \in Uploads : Spooled(up'[v])
    BY <1>1, UpOf
  <2>q. QED
    BY <1>1, <2>1 DEF UploadInv, UploadShape
<1>3. \A o : Placed(o) => Placed(o)' /\ up'[o[1]] = up[o[1]]
  BY <1>1 DEF Placed, Objects
<1>4. ASSUME NEW v \in Uploads, up'[v].st = "writing" PROVE wsLease' = v /\ Wanted(v)'
  <2>. SUFFICES ASSUME v # u PROVE wsLease' = v /\ Wanted(v)'
    BY <1>1, <1>4
  <2>1. v # u /\ up'[v] = up[v] /\ up[v].st = "writing"
    BY <1>1, <1>4
  <2>2. wsLease = v /\ Wanted(v)
    BY <2>1 DEF UploadInv
  <2>3. wsLease' = wsLease
    BY <2>1, <2>2, UploadAssumption DEF UploadInv
  <2>. DEFINE D == up[v].desired
  <2>4. D = up'[v].desired /\ D \in SUBSET (Places \X Objects)
    BY <2>1, UpOf DEF UpRecs
  <2>5. \A e \in D : (Placed(e[2]) \/ e[2] \in {v} \X DOMAIN up[v].files) /\ \A f \in D : e[1] = f[1] => e = f
    BY <2>2 DEF Wanted
  <2>6. \A e \in D : up'[e[2][1]] = up[e[2][1]]
    BY <1>3, <2>1, <2>5
  <2>7. BytesIn(D, DOMAIN sources, up') = BytesIn(D, DOMAIN sources, up)
    <3>1. ASSUME NEW s, ObjectOf(D, s) # None PROVE up'[ObjectOf(D, s)[1]] = up[ObjectOf(D, s)[1]]
      <4>1. <<s, ObjectOf(D, s)>> \in D
        BY <2>4, <2>5, <3>1, ObjectOfSet
      <4>q. QED
        BY <2>6, <4>1
    <3>. HIDE DEF D
    <3>q. QED
      BY <3>1 DEF BytesIn
  <2>8. Bytes(D) = BytesIn(D, DOMAIN sources, up) /\ Bytes(up[v].desired)' = BytesIn(D, DOMAIN sources, up')
    BY <2>4, BytesAre DEF Bytes, BytesIn, Uploaded
  <2>q. QED
    BY <1>3, <2>1, <2>2, <2>3, <2>4, <2>5, <2>7, <2>8 DEF Wanted
<1>5. /\ Active' = Active /\ \A s \in Active : /\ s \in Places /\ Placed(sources[s]) /\ Placed(sources[s])'
                                               /\ sources[s] = <<sources[s][1], sources[s][2]>>
  <2>1. \A s \in Active : s \in Places /\ sources[s] \in Objects
    BY DEF Active, UploadInv, UploadShape
  <2>q. QED
    BY <1>3, <2>1 DEF UploadInv, Active, Objects
<1>6. \A s \in Active : Uploaded(sources[s])' = Uploaded(sources[s])
  BY <1>3, <1>5 DEF Uploaded
<1>7. ServedIsUploaded'
  BY <1>5, <1>6 DEF UploadInv, ServedIsUploaded
<1>8. WithinCeilings'
  <2>. DEFINE D == Kept(Active)
  <2>1. D' = D /\ DOMAIN sources' = DOMAIN sources
    BY <1>5 DEF Kept
  <2>2. D \in SUBSET (Places \X Objects) /\ \A e, f \in D : e[1] = f[1] => e = f
    BY <1>5 DEF Kept, Placed
  <2>3. \A e \in D : Placed(e[2])
    BY <1>5 DEF Kept
  <2>4. BytesIn(D, DOMAIN sources, up') = BytesIn(D, DOMAIN sources, up)
    <3>1. ASSUME NEW s, ObjectOf(D, s) # None PROVE up'[ObjectOf(D, s)[1]] = up[ObjectOf(D, s)[1]]
      <4>. HIDE DEF D
      <4>1. <<s, ObjectOf(D, s)>> \in D
        BY <2>2, <3>1, ObjectOfSet
      <4>q. QED
        BY <1>3, <2>3, <4>1
    <3>q. QED
      BY <3>1 DEF BytesIn
  <2>5. Bytes(D)' = BytesIn(D, DOMAIN sources, up')
    BY <2>1 DEF Bytes, BytesIn, Uploaded
  <2>q. QED
    BY <1>5, <2>4, <2>5, BytesAre DEF UploadInv, WithinCeilings
<1>9. StagingIsOwned'
  BY <1>1 DEF UploadInv, UploadShape, StagingIsOwned
<1>q. QED
  BY <1>2, <1>4, <1>5, <1>7, <1>8, <1>9 DEF UploadInv


LEMMA EndedOf ==
    ASSUME UploadInv, NEW u \in Uploads, NEW st \in {"done", "refused", "lost"}
    PROVE  /\ Ended(u, st) \in UpRecs /\ Spooled(Ended(u, st))
           /\ Ended(u, st).st = st /\ Ended(u, st).route = up[u].route /\ Ended(u, st).files = up[u].files
<1>1. /\ Fresh \in UpRecs /\ Fresh.size = 0
  BY DEF Fresh, UpRecs, UpStates
<1>2. up[u] \in UpRecs /\ Spooled(up[u]) /\ up[u].files \in Seq(UpDocs)
  BY UpOf
<1>3. SumOf(Sizes(up[u].files)) \in Nat /\ up[u].size \in Nat
  BY <1>2, SizesOf DEF UpRecs
<1>4. /\ Ended(u, st) \in UpRecs /\ Ended(u, st).size = 0
      /\ Ended(u, st).st = st /\ Ended(u, st).route = up[u].route /\ Ended(u, st).files = up[u].files
  <2>1. up[u].files \in Seq(UpDocs) /\ up[u].route \in Routes \cup {"none"} /\ st \in UpStates
    BY <1>2 DEF UpRecs, UpStates
  <2>. HIDE DEF Fresh
  <2>q. QED
    BY <1>1, <2>1 DEF Ended, UpRecs
<1>5. Spooled(Ended(u, st))
  <2>. DEFINE r == Ended(u, st)
              w == SumOf(Sizes(up[u].files))
  <2>1. r.route = up[u].route /\ r.files = up[u].files /\ r.size = 0 /\ r.st \notin {"new", "spooling", "accepted", "queued"}
    BY <1>4
  <2>. HIDE DEF r
  <2>2. up[u].size + w <= max_total_upload_bytes => r.size + w <= max_total_upload_bytes
    <3>1. max_total_upload_bytes \in Nat
      BY UploadAssumption
    <3>q. QED
      BY <1>3, <2>1, <3>1
  <2>. HIDE DEF w
  <2>3. w = SumOf(Sizes(r.files))
    BY <2>1 DEF w
  <2>4. up[u].route \in Http => /\ r.size + w <= max_total_upload_bytes
                                /\ Len(r.files) <= max_files_per_ingest
                                /\ \A i \in DOMAIN r.files :
                                     DocBytes(r.files[i]) <= source_limit_bytes(r.files[i])
    BY <1>2, <2>1, <2>2 DEF Spooled, w
  <2>5. r.route \in Http => /\ r.size + SumOf(Sizes(r.files)) <= max_total_upload_bytes
                             /\ Len(r.files) <= max_files_per_ingest
                             /\ \A i \in DOMAIN r.files :
                                  DocBytes(r.files[i]) <= source_limit_bytes(r.files[i])
    BY <2>1, <2>3, <2>4
  <2>q. QED
    <3>1. r.st # "new" /\ r.st # "spooling" /\ r.st \notin {"accepted", "queued"}
      BY <2>1
    <3>q. QED
      BY <2>5, <3>1 DEF Spooled, r
<1>q. QED
  BY <1>4, <1>5

\* A request that is refused, or that has ended well, leaves nothing staged.
LEMMA UploadEnds ==
    ASSUME UploadInv, NEW u \in Uploads, NEW st \in {"done", "refused"}, Go(u, st),
           up[u].st # "done", up[u].st = "writing" \/ wsLease' = wsLease,
           staging' \subseteq staging \cup {u},
           u \in staging' => up[u].route \notin {"add", "replace"},
           UNCHANGED <<sources, served, upHost>>, LegacyKeepsOut'
    PROVE  UploadInv'
<1>. DEFINE r == Ended(u, st)
<1>1. r \in UpRecs /\ Spooled(r) /\ r.st = st /\ r.route = up[u].route
  BY EndedOf
<1>2. up' = [up EXCEPT ![u] = r]
  BY DEF Go, UploadInv, UploadShape
<1>. HIDE DEF r
<1>3. r.st # "writing" /\ (u \in staging' /\ r.route \in {"add", "replace"} =>
               r.st \in {"spooling", "failed", "accepted", "queued", "writing"})
  BY <1>1
<1>q. QED
  BY <1>1, <1>2, <1>3, RequestStep

\* The same for a request that only moves on.
LEMMA MoveStep ==
    ASSUME UploadInv, NEW u \in Uploads, NEW st \in {"failed", "accepted", "queued"}, Go(u, st),
           up[u].st \notin {"done", "writing", "new"}, st = "failed" \/ up[u].files # <<>>,
           UNCHANGED staging, Restored
    PROVE  UploadInv'
<1>. DEFINE r == [up[u] EXCEPT !.st = st]
<1>1. up[u] \in UpRecs /\ Spooled(up[u])
  BY UpOf
<1>2. r \in UpRecs /\ r.st = st /\ r.route = up[u].route /\ r.size = up[u].size /\ r.files = up[u].files
  BY <1>1 DEF UpRecs, UpStates
<1>3. up' = [up EXCEPT ![u] = r]
  BY DEF Go, UploadInv, UploadShape
<1>. HIDE DEF r
<1>4. Spooled(r)
  BY <1>1, <1>2 DEF Spooled
<1>5. r.st # "writing" /\ r.st \in {"spooling", "failed", "accepted", "queued", "writing"}
  BY <1>2
<1>6. staging' \subseteq staging \cup {u} /\ wsLease' = wsLease /\ UNCHANGED <<sources, served, upHost>>
  BY DEF Restored
<1>7. LegacyKeepsOut'
  BY DEF Restored, UploadInv, LegacyKeepsOut
<1>q. QED
  BY <1>2, <1>3, <1>4, <1>5, <1>6, <1>7, RequestStep

\* A request that streams.
LEMMA StreamStep ==
    ASSUME UploadInv, NEW u \in Uploads, NEW r \in UpRecs, up' = [up EXCEPT ![u] = r], Spooled(r),
           up[u].st \in {"new", "spooling"}, r.st \in Spooling,
           staging' \subseteq staging \cup {u}, Restored
    PROVE  UploadInv'
<1>1. r.st # "writing" /\ r.st \in {"spooling", "failed", "accepted", "queued", "writing"}
  BY DEF Spooling
<1>2. wsLease' = wsLease /\ UNCHANGED <<sources, served, upHost>> /\ LegacyKeepsOut'
  BY DEF Restored, UploadInv, LegacyKeepsOut
<1>3. up[u].st # "done"
  OBVIOUS
<1>q. QED
  BY <1>1, <1>2, <1>3, RequestStep

LEMMA FreshOf ==
    ASSUME UploadInv, NEW u \in Uploads, up[u].st = "new"
    PROVE  /\ up[u] = Fresh /\ Fresh \in UpRecs /\ Fresh.files = <<>> /\ Fresh.size = 0 /\ Fresh.total = 0
           /\ Fresh.part = NoPart /\ Fresh.route = "none"
<1>1. up[u] = Fresh /\ up[u] \in UpRecs
  BY UpOf DEF Spooled
<1>q. QED
  BY <1>1 DEF Fresh

LEMMA NothingSpooled == SumOf(Sizes(<<>>)) = 0 /\ Sizes(<<>>) = <<>>
<1>1. Sizes(<<>>) = <<>>
  BY DEF Sizes
<1>2. <<>> \in Seq(Nat) /\ Len(<<>>) = 0
  OBVIOUS
<1>3. SumOf(<<>>) = 0
  BY <1>2, SumsOf
<1>q. QED
  BY <1>1, <1>3

LEMMA BeginSpools ==
    ASSUME UploadInv, NEW u \in Uploads, NEW r \in UpRecs, up[u].st = "new", r.st = "spooling",
           r.route \in Routes, r.files = <<>>, r.size = 0, r.total = 0, r.part = NoPart
    PROVE  Spooled(r)
<1>1. SumOf(Sizes(r.files)) = 0 /\ Len(r.files) = 0 /\ DOMAIN r.files = {}
  BY NothingSpooled
<1>2. NoPart.field # "files" /\ max_total_upload_bytes \in Nat /\ max_files_per_ingest \in Nat
  BY UploadAssumption DEF NoPart
<1>3. r.route # "none"
  BY DEF Routes
<1>q. QED
  BY <1>1, <1>2, <1>3 DEF Spooled

LEMMA BeginMultipartStep ==
    ASSUME UploadInv, NEW u \in Uploads, NEW x \in Http, BeginMultipart(u, x) PROVE UploadInv'
<1>. DEFINE r == [Fresh EXCEPT !.st = "spooling", !.route = x]
<1>1. up[u].st = "new"
  BY DEF BeginMultipart
<1>2. x \in Routes
  BY DEF Http, Routes
<1>3. /\ r \in UpRecs /\ r.st = "spooling" /\ r.route = x /\ r.files = <<>> /\ r.size = 0 /\ r.total = 0
      /\ r.part = NoPart
  <2>. HIDE DEF Fresh
  <2>q. QED
    BY <1>1, <1>2, FreshOf DEF UpRecs, UpStates
<1>4. up' = [up EXCEPT ![u] = r]
  BY <1>1, FreshOf DEF BeginMultipart, UploadInv, UploadShape
<1>. HIDE DEF r
<1>5. Spooled(r)
  BY <1>1, <1>2, <1>3, BeginSpools
<1>6. staging' \subseteq staging \cup {u} /\ Restored
  BY DEF BeginMultipart
<1>q. QED
  BY <1>1, <1>3, <1>4, <1>5, <1>6, StreamStep DEF Spooling

LEMMA BeginLocalStep ==
    ASSUME UploadInv, NEW u \in Uploads, NEW c \in CorpusNames, NEW n \in 0..MaxParts, BeginLocal(u, c, n)
    PROVE  UploadInv'
<1>1. up[u].st = "new" /\ Restored
  BY DEF BeginLocal
<1>2. CASE Go(u, "refused") /\ UNCHANGED staging
  <2>1. wsLease' = wsLease /\ UNCHANGED <<sources, served, upHost>> /\ LegacyKeepsOut'
    BY <1>1 DEF Restored, UploadInv, LegacyKeepsOut
  <2>2. up[u].route \notin {"add", "replace"}
    BY <1>1, FreshOf
  <2>q. QED
    BY <1>1, <1>2, <2>1, <2>2, UploadEnds
<1>3. CASE /\ up' = [up EXCEPT ![u].st = "spooling", ![u].route = "local", ![u].corpus = c, ![u].begun = MaxParts - n]
           /\ staging' = staging \cup {u}
  <2>. DEFINE r == [Fresh EXCEPT !.st = "spooling", !.route = "local", !.corpus = c, !.begun = MaxParts - n]
  <2>1. MaxParts - n \in Int
    BY UploadAssumption
  <2>2. /\ r \in UpRecs /\ r.st = "spooling" /\ r.route = "local" /\ r.files = <<>> /\ r.size = 0
        /\ r.total = 0 /\ r.part = NoPart
    <3>. HIDE DEF Fresh
    <3>q. QED
      BY <1>1, <2>1, FreshOf DEF UpRecs, UpStates, Routes
  <2>3. up' = [up EXCEPT ![u] = r]
    BY <1>1, <1>3, FreshOf DEF UploadInv, UploadShape
  <2>. HIDE DEF r
  <2>4. "local" \in Routes
    BY DEF Routes
  <2>5. Spooled(r)
    BY <1>1, <2>2, <2>4, BeginSpools
  <2>6. staging' \subseteq staging \cup {u}
    BY <1>3
  <2>q. QED
    BY <1>1, <2>2, <2>3, <2>5, <2>6, StreamStep DEF Spooling
<1>q. QED
  BY <1>2, <1>3 DEF BeginLocal

LEMMA OnHeadersStep ==
    ASSUME UploadInv, NEW u \in Uploads, NEW p \in UploadParts, OnHeaders(u, p) PROVE UploadInv'
<1>. DEFINE seen == up[u].seen + (IF p.field = "corpus" THEN 1 ELSE 0)
            st == IF HeadersRefuse(u, p) THEN "failed" ELSE up[u].st
            r == [up[u] EXCEPT !.begun = up[u].begun + 1, !.part = p, !.read = 0, !.size = 0,
                               !.seen = seen, !.st = st]
<1>1. up[u] \in UpRecs /\ Spooled(up[u]) /\ up[u].files \in Seq(UpDocs)
  BY UpOf
<1>2. up[u].st = "spooling" /\ up[u].part = NoPart /\ Restored /\ UNCHANGED staging
  BY DEF OnHeaders
<1>3. seen \in Nat /\ st \in {"spooling", "failed"} /\ up[u].begun + 1 \in Int
  BY <1>1, <1>2 DEF UpRecs
<1>4. /\ r \in UpRecs /\ r.st = st /\ r.part = p /\ r.read = 0 /\ r.size = 0 /\ r.route = up[u].route
      /\ r.files = up[u].files /\ r.total = up[u].total
  <2>. HIDE DEF seen, st
  <2>q. QED
    BY <1>1, <1>3 DEF UpRecs, UpStates
<1>5. up' = [up EXCEPT ![u] = r]
  BY DEF OnHeaders, UploadInv, UploadShape
<1>. HIDE DEF r
<1>6. up[u].size = 0 /\ up[u].route # "none"
       /\ (up[u].route \in Http => up[u].total = up[u].size + SumOf(Sizes(up[u].files)))
  BY <1>1, <1>2 DEF Spooled, NoPart
<1>7. Spooled(r)
  <2>1. r.st \notin {"new", "accepted", "queued"} /\ r.route # "none"
    BY <1>3, <1>4, <1>6
  <2>2. r.route \in Http =>
         /\ r.size + SumOf(Sizes(r.files)) <= max_total_upload_bytes
         /\ Len(r.files) <= max_files_per_ingest
         /\ \A i \in DOMAIN r.files : DocBytes(r.files[i]) <= source_limit_bytes(r.files[i])
         /\ r.total = r.size + SumOf(Sizes(r.files))
    BY <1>1, <1>4, <1>6 DEF Spooled
  <2>3. ASSUME r.st = "spooling", r.part.field = "files"
        PROVE  /\ r.read \in 0..Len(Chunks[r.part.value])
               /\ r.size = Sums(Chunks[r.part.value])[r.read]
               /\ r.size <= source_limit_bytes(r.part.value)
               /\ r.route \in Http => Len(r.files) < max_files_per_ingest
    <3>1. p.value \in UpDocs /\ p.field = "files"
      BY <1>4, <2>3 DEF UploadParts
    <3>2. Len(Chunks[p.value]) \in Nat /\ Sums(Chunks[p.value])[0] = 0
      BY <3>1, DocBytesOf, SumsOf
    <3>3. 0 <= source_limit_bytes(p.value)
      BY UploadAssumption DEF source_limit_bytes
    <3>4. ~HeadersRefuse(u, p)
      BY <1>4, <2>3
    <3>5. up[u].route \in Http => Len(up[u].files) < max_files_per_ingest
      <4>1. Len(up[u].files) \in Nat /\ max_files_per_ingest \in Nat
        BY <1>1, UploadAssumption
      <4>q. QED
        BY <3>1, <3>4, <4>1 DEF HeadersRefuse
    <3>q. QED
      BY <1>4, <3>2, <3>3, <3>5
  <2>q. QED
    BY <1>4, <2>1, <2>2, <2>3 DEF Spooled
<1>8. r.st \in Spooling /\ staging' \subseteq staging \cup {u}
  BY <1>2, <1>3, <1>4 DEF Spooling
<1>q. QED
  BY <1>2, <1>4, <1>5, <1>7, <1>8, StreamStep

LEMMA FailStep ==
    ASSUME UploadInv, NEW u \in Uploads, up[u].st = "spooling", up' = [up EXCEPT ![u].st = "failed"],
           UNCHANGED staging, Restored
    PROVE  UploadInv'
<1>1. Go(u, "failed")
  BY DEF Go, UploadInv, UploadShape
<1>q. QED
  BY <1>1, MoveStep

LEMMA OnPartDataStep == ASSUME UploadInv, NEW u \in Uploads, OnPartData(u) PROVE UploadInv'
<1>. DEFINE d == up[u].part.value
            n == Chunks[d][up[u].read + 1]
            more == IF up[u].route = "local" THEN 0 ELSE n
            r == [up[u] EXCEPT !.read = up[u].read + 1, !.size = up[u].size + n, !.total = up[u].total + more]
<1>1. up[u] \in UpRecs /\ Spooled(up[u]) /\ up[u].files \in Seq(UpDocs)
  BY UpOf
<1>2. /\ up[u].st = "spooling" /\ up[u].part.field = "files" /\ up[u].read < Len(Chunks[d])
      /\ Restored /\ UNCHANGED staging
  BY DEF OnPartData
<1>3. d \in UpDocs /\ up[u].part \in UploadParts
  BY <1>1, <1>2 DEF UpRecs, UploadParts, NoPart
<1>4. /\ Chunks[d] \in Seq(Nat) /\ up[u].read + 1 \in 1..Len(Chunks[d]) /\ up[u].read \in Nat /\ n \in Nat
      /\ Sums(Chunks[d])[up[u].read + 1] = Sums(Chunks[d])[up[u].read] + n
  <2>1. Chunks[d] \in Seq(Nat) /\ Len(Chunks[d]) \in Nat /\ up[u].read \in Nat
    BY <1>1, <1>3, DocBytesOf DEF UpRecs
  <2>. HIDE DEF d
  <2>2. up[u].read + 1 \in 1..Len(Chunks[d]) /\ (up[u].read + 1) - 1 = up[u].read
    BY <1>2, <2>1
  <2>3. ASSUME NEW k \in 1..Len(Chunks[d])
        PROVE  Chunks[d][k] \in Nat /\ Sums(Chunks[d])[k] = Sums(Chunks[d])[k - 1] + Chunks[d][k]
    BY <2>1, SumsOf
  <2>q. QED
    BY <2>1, <2>2, <2>3
<1>5. CASE ~WriteFits(u, n)
  BY <1>2, <1>5, FailStep DEF OnPartData
<1>6. CASE WriteFits(u, n)
  <2>1. up[u].size \in Nat /\ up[u].total \in Nat /\ SumOf(Sizes(up[u].files)) \in Nat
    BY <1>1, SizesOf DEF UpRecs
  <2>2. /\ up[u].size + n <= source_limit_bytes(d) /\ up[u].total + n <= max_total_upload_bytes
    BY <1>6 DEF WriteFits
  <2>3. up' = [up EXCEPT ![u] = r]
    BY <1>6 DEF OnPartData, UploadInv, UploadShape
  <2>. HIDE DEF d, n
  <2>4. more \in Nat /\ up[u].size + n \in Nat /\ up[u].total + more \in Nat /\ up[u].read + 1 \in Nat
    <3>1. n \in Nat /\ more \in {0, n} /\ up[u].read \in Nat
      BY <1>4
    <3>. HIDE DEF more
    <3>q. QED
      BY <2>1, <3>1
  <2>5. /\ r \in UpRecs /\ r.st = up[u].st /\ r.part = up[u].part /\ r.read = up[u].read + 1
        /\ r.size = up[u].size + n /\ r.route = up[u].route /\ r.files = up[u].files
        /\ r.total = up[u].total + more
    <3>. HIDE DEF more
    <3>q. QED
      BY <1>1, <2>4 DEF UpRecs
  <2>. HIDE DEF r
  <2>6. /\ up[u].route # "none" /\ up[u].size = Sums(Chunks[d])[up[u].read]
        /\ up[u].route \in Http => /\ up[u].total = up[u].size + SumOf(Sizes(up[u].files))
                                   /\ Len(up[u].files) < max_files_per_ingest
                                   /\ Len(up[u].files) <= max_files_per_ingest
                                   /\ \A i \in DOMAIN up[u].files :
                                        DocBytes(up[u].files[i]) <= source_limit_bytes(up[u].files[i])
    BY <1>1, <1>2 DEF Spooled, d
  <2>7. r.route \in Http =>
         /\ r.total = r.size + SumOf(Sizes(r.files))
         /\ r.size + SumOf(Sizes(r.files)) <= max_total_upload_bytes
    <3>1. ASSUME up[u].route \in Http PROVE more = n
      BY <3>1 DEF Http
    <3>2. max_total_upload_bytes \in Nat
      BY UploadAssumption
    <3>. HIDE DEF more
    <3>3. ASSUME up[u].route \in Http
          PROVE  /\ up[u].total = up[u].size + SumOf(Sizes(up[u].files)) /\ more = n
                 /\ r.size = up[u].size + n /\ r.total = up[u].total + n /\ r.files = up[u].files
                 /\ up[u].total + n <= max_total_upload_bytes
      BY <2>2, <2>5, <2>6, <3>1, <3>3
    <3>4. n \in Nat /\ up[u].size \in Nat /\ SumOf(Sizes(up[u].files)) \in Nat
      BY <1>4, <2>1
    <3>. HIDE DEF r
    <3>q. QED
      BY <2>5, <3>2, <3>3, <3>4
  <2>8. r.st = "spooling" /\ r.route # "none" /\ r.part.field = "files" /\ r.part.value = d
    BY <1>2, <2>5, <2>6 DEF d
  <2>9. /\ r.read \in 0..Len(Chunks[d]) /\ r.size = Sums(Chunks[d])[r.read] /\ r.size <= source_limit_bytes(d)
    BY <1>4, <2>2, <2>5, <2>6
  <2>10. r.route \in Http => /\ Len(r.files) < max_files_per_ingest
                             /\ Len(r.files) <= max_files_per_ingest
                             /\ \A i \in DOMAIN r.files :
                                  DocBytes(r.files[i]) <= source_limit_bytes(r.files[i])
    BY <2>5, <2>6
  <2>11. Spooled(r)
    BY <2>7, <2>8, <2>9, <2>10 DEF Spooled
  <2>q. QED
    BY <1>2, <2>3, <2>5, <2>8, <2>11, StreamStep DEF Spooling
<1>q. QED
  BY <1>5, <1>6

LEMMA OnPartEndStep == ASSUME UploadInv, NEW u \in Uploads, OnPartEnd(u) PROVE UploadInv'
<1>. DEFINE p == up[u].part
            done == IF p.field = "files" THEN Append(up[u].files, p.value) ELSE up[u].files
            total == up[u].total + (IF up[u].route = "local" THEN up[u].size ELSE 0)
            corpus == IF p.field = "corpus" THEN p.value ELSE up[u].corpus
            r == [up[u] EXCEPT !.part = NoPart, !.size = 0, !.files = done, !.total = total, !.corpus = corpus]
<1>1. up[u] \in UpRecs /\ Spooled(up[u]) /\ up[u].files \in Seq(UpDocs)
  BY UpOf
<1>2. /\ up[u].st = "spooling" /\ Restored /\ UNCHANGED staging
      /\ \/ p.field = "corpus"
         \/ p.field = "files" /\ up[u].read = Len(Chunks[p.value])
  BY DEF OnPartEnd
<1>3. p \in UploadParts
  BY <1>1, <1>2 DEF UpRecs, NoPart
<1>4. CASE EndRefuses(u)
  BY <1>2, <1>4, FailStep DEF OnPartEnd
<1>5. CASE ~EndRefuses(u)
  <2>1. up' = [up EXCEPT ![u] = r]
    BY <1>5 DEF OnPartEnd, UploadInv, UploadShape
  <2>2. /\ up[u].size \in Nat /\ up[u].total \in Nat /\ SumOf(Sizes(up[u].files)) \in Nat
        /\ up[u].corpus \in CorpusNames \cup {"none"} /\ Len(up[u].files) \in Nat
    BY <1>1, SizesOf DEF UpRecs
  <2>3. /\ p.field = "files" => p.value \in UpDocs
        /\ p.field = "corpus" => p.value \in CorpusNames
    BY <1>3 DEF UploadParts
  <2>4. done \in Seq(UpDocs) /\ total \in Nat /\ corpus \in CorpusNames \cup {"none"}
    <3>1. done \in Seq(UpDocs)
      BY <1>1, <2>3
    <3>2. total \in Nat
      BY <2>2
    <3>3. corpus \in CorpusNames \cup {"none"}
      BY <2>2, <2>3
    <3>q. QED
      BY <3>1, <3>2, <3>3
  <2>5. /\ r \in UpRecs /\ r.st = up[u].st /\ r.part = NoPart /\ r.size = 0 /\ r.route = up[u].route
        /\ r.files = done /\ r.total = total
    <3>. HIDE DEF done, total, corpus
    <3>q. QED
      BY <1>1, <2>4 DEF UpRecs
  <2>. HIDE DEF r
  <2>6. /\ up[u].route # "none"
        /\ up[u].route \in Http => /\ up[u].total = up[u].size + SumOf(Sizes(up[u].files))
                                   /\ up[u].size + SumOf(Sizes(up[u].files)) <= max_total_upload_bytes
                                   /\ Len(up[u].files) <= max_files_per_ingest
                                   /\ \A i \in DOMAIN up[u].files :
                                        DocBytes(up[u].files[i]) <= source_limit_bytes(up[u].files[i])
        /\ p.field # "files" => up[u].size = 0
        /\ p.field = "files" => /\ up[u].size = Sums(Chunks[p.value])[up[u].read]
                                /\ up[u].size <= source_limit_bytes(p.value)
                                /\ up[u].route \in Http => Len(up[u].files) < max_files_per_ingest
    BY <1>1, <1>2 DEF Spooled
  <2>7. ASSUME up[u].route \in Http
        PROVE  /\ total = up[u].total /\ up[u].size + SumOf(Sizes(up[u].files)) = SumOf(Sizes(done))
               /\ Len(done) <= max_files_per_ingest
               /\ \A i \in DOMAIN done : DocBytes(done[i]) <= source_limit_bytes(done[i])
    <3>1. total = up[u].total
      BY <2>2, <2>7 DEF Http
    <3>2. CASE p.field # "files"
      <4>1. done = up[u].files /\ up[u].size = 0
        BY <2>6, <3>2
      <4>. HIDE DEF done, total
      <4>q. QED
        BY <2>2, <2>6, <2>7, <3>1, <4>1
    <3>3. CASE p.field = "files"
      <4>. DEFINE d == p.value
                  fs == up[u].files
      <4>1. d \in UpDocs /\ fs \in Seq(UpDocs) /\ done = Append(fs, d) /\ up[u].size = DocBytes(d)
        BY <1>1, <1>2, <2>3, <2>6, <3>3, DocBytesOf
      <4>2. DocBytes(d) <= source_limit_bytes(d) /\ Len(fs) < max_files_per_ingest /\ max_files_per_ingest \in Nat
        BY <2>6, <2>7, <3>3, <4>1, UploadAssumption
      <4>3. \A i \in DOMAIN fs : DocBytes(fs[i]) <= source_limit_bytes(fs[i])
        BY <2>6, <2>7
      <4>. HIDE DEF d, fs, done, total
      <4>4. SumOf(Sizes(done)) = SumOf(Sizes(fs)) + DocBytes(d)
        BY <4>1, SizesOf
      <4>5. /\ Len(done) = Len(fs) + 1 /\ Len(fs) \in Nat /\ DOMAIN done = 1..(Len(fs) + 1)
            /\ done[Len(fs) + 1] = d /\ \A i \in 1..Len(fs) : done[i] = fs[i] /\ i \in DOMAIN fs
        BY <4>1
      <4>6. \A i \in DOMAIN done : DocBytes(done[i]) <= source_limit_bytes(done[i])
        <5>1. \A i \in 1..(Len(fs) + 1) : i \in 1..Len(fs) \/ i = Len(fs) + 1
          BY <4>5
        <5>q. QED
          BY <4>2, <4>3, <4>5, <5>1
      <4>7. Len(done) <= max_files_per_ingest
        BY <4>2, <4>5
      <4>8. up[u].size + SumOf(Sizes(up[u].files)) = SumOf(Sizes(done))
        <5>1. SumOf(Sizes(fs)) \in Nat /\ DocBytes(d) \in Nat
          BY <4>1, SizesOf, DocBytesOf
        <5>q. QED
          BY <4>1, <4>4, <5>1 DEF fs
      <4>q. QED
        BY <3>1, <4>6, <4>7, <4>8
    <3>q. QED
      BY <3>2, <3>3
  <2>. HIDE DEF done, total
  <2>8. ASSUME r.route \in Http
        PROVE  /\ r.size + SumOf(Sizes(r.files)) <= max_total_upload_bytes
               /\ Len(r.files) <= max_files_per_ingest
               /\ \A i \in DOMAIN r.files : DocBytes(r.files[i]) <= source_limit_bytes(r.files[i])
               /\ r.total = r.size + SumOf(Sizes(r.files))
    <3>1. 0 + SumOf(Sizes(done)) = SumOf(Sizes(done))
      BY <2>4, SizesOf
    <3>q. QED
      BY <2>5, <2>6, <2>7, <2>8, <3>1
  <2>9. r.st = "spooling" /\ r.route # "none" /\ r.part.field # "files" /\ r.size = 0
    BY <1>2, <2>5, <2>6 DEF NoPart
  <2>10. Spooled(r)
    BY <2>8, <2>9 DEF Spooled
  <2>q. QED
    BY <1>2, <2>1, <2>5, <2>9, <2>10, StreamStep DEF Spooling
<1>q. QED
  BY <1>4, <1>5

LEMMA EndOfBodyStep == ASSUME UploadInv, NEW u \in Uploads, EndOfBody(u) PROVE UploadInv'
<1>1. up[u].st = "spooling" /\ Restored
  BY DEF EndOfBody
<1>2. wsLease' = wsLease /\ UNCHANGED <<sources, served, upHost>> /\ LegacyKeepsOut'
  BY <1>1 DEF Restored, UploadInv, LegacyKeepsOut
<1>3. CASE Go(u, "refused") /\ staging' = staging \ {u}
  BY <1>1, <1>2, <1>3, UploadEnds
<1>4. CASE Go(u, "accepted") /\ UNCHANGED staging /\ ~Incomplete(u)
  BY <1>1, <1>4, MoveStep DEF Incomplete
<1>q. QED
  BY <1>3, <1>4 DEF EndOfBody

LEMMA AbandonStep == ASSUME UploadInv, NEW u \in Uploads, Abandon(u) PROVE UploadInv'
<1>1. up[u].st # "done" /\ Restored /\ Go(u, "refused") /\ staging' = staging \ {u}
  BY DEF Abandon, Spooling
<1>2. wsLease' = wsLease /\ UNCHANGED <<sources, served, upHost>> /\ LegacyKeepsOut'
  BY <1>1 DEF Restored, UploadInv, LegacyKeepsOut
<1>q. QED
  BY <1>1, <1>2, UploadEnds

LEMMA ProductIngestStep ==
    ASSUME UploadInv, NEW u \in Uploads, NEW b \in BOOLEAN, ProductIngest(u, b) PROVE UploadInv'
<1>1. /\ up[u].st = "accepted" /\ up[u].route \in {"product", "local"}
      /\ wsLease' = wsLease /\ UNCHANGED <<sources, served, upHost>>
  BY DEF ProductIngest
<1>2. /\ Go(u, "refused") \/ Go(u, "done")
      /\ staging' \subseteq staging \cup {u}
      /\ legacy' = legacy \/ (legacy' = legacy \cup {up[u].corpus} /\ up[u].corpus # "wsc")
  BY DEF ProductIngest, assert_legacy_ingest_allowed
<1>3. LegacyKeepsOut'
  BY <1>2 DEF UploadInv, LegacyKeepsOut
<1>q. QED
  BY <1>1, <1>2, <1>3, UploadEnds

LEMMA ReserveUploadStep ==
    ASSUME UploadInv, NEW u \in Uploads, NEW b \in BOOLEAN, ReserveUpload(u, b) PROVE UploadInv'
<1>1. up[u].st = "accepted" /\ Restored
  BY DEF ReserveUpload
<1>2. wsLease' = wsLease /\ UNCHANGED <<sources, served, upHost>> /\ LegacyKeepsOut'
  BY <1>1 DEF Restored, UploadInv, LegacyKeepsOut
<1>3. CASE Go(u, "refused") /\ staging' = staging \ {u}
  BY <1>1, <1>2, <1>3, UploadEnds
<1>4. CASE Go(u, "queued") /\ UNCHANGED staging
  BY <1>1, <1>4, UpOf, MoveStep DEF Spooled
<1>q. QED
  BY <1>3, <1>4 DEF ReserveUpload

LEMMA PutFailsStep == ASSUME UploadInv, NEW u \in Uploads, PutFails(u) PROVE UploadInv'
<1>1. /\ up[u].st = "writing" /\ Go(u, "refused") /\ staging' = staging \ {u}
      /\ UNCHANGED <<sources, served, upHost, legacy>>
  BY DEF PutFails
<1>2. LegacyKeepsOut'
  BY <1>1 DEF UploadInv, LegacyKeepsOut
<1>q. QED
  BY <1>1, <1>2, UploadEnds

(***************************************************************************)
(* The desired set.                                                        *)
(***************************************************************************)
\* Each source once, each with an object that the uploads agree on.
Functional(D) == D \in SUBSET (Places \X Objects) /\ \A e, f \in D : e[1] = f[1] => e = f

LEMMA FunctionalFinite ==
    ASSUME NEW D, Functional(D)
    PROVE  LET Q == {e[1] : e \in D}
           IN  /\ IsFiniteSet(D) /\ Q \subseteq Places /\ Cardinality(Q) = Cardinality(D)
               /\ Cardinality(D) \in Nat
               /\ \A s \in Places : s \in Q <=> ObjectOf(D, s) # None
               /\ D = {<<s, ObjectOf(D, s)>> : s \in Q}
<1>. DEFINE Q == {e[1] : e \in D}
            g == [s \in Q |-> <<s, ObjectOf(D, s)>>]
            h == [e \in D |-> e[1]]
<1>1. \A e \in D : e = <<e[1], e[2]>> /\ e[1] \in Places /\ e[2] \in Objects /\ e[2] # None
  BY DEF Functional, Objects, None
<1>2. /\ \A e \in D : ObjectOf(D, e[1]) = e[2]
      /\ \A s : ObjectOf(D, s) # None => <<s, ObjectOf(D, s)>> \in D
  BY ObjectOfSet DEF Functional
<1>3. Q \subseteq Places /\ IsFiniteSet(Q)
  <2>1. Q \subseteq Places
    BY <1>1
  <2>2. IsFiniteSet(Places)
    BY FS_Interval, UploadAssumption DEF Places
  <2>q. QED
    BY <2>1, <2>2, FS_Subset
<1>4. \A e \in D : <<e[1], ObjectOf(D, e[1])>> = e
  BY <1>1, <1>2
<1>5. g \in Surjection(Q, D)
  BY <1>4 DEF Surjection
<1>6. IsFiniteSet(D) /\ Cardinality(D) <= Cardinality(Q)
  BY <1>3, <1>5, FS_Surjection
<1>7. h \in Surjection(D, Q)
  BY DEF Surjection
<1>8. Cardinality(Q) <= Cardinality(D)
  BY <1>6, <1>7, FS_Surjection
<1>9. Cardinality(Q) \in Nat /\ Cardinality(D) \in Nat
  BY <1>3, <1>6, FS_CardinalityType
<1>10. \A s \in Places : s \in Q <=> ObjectOf(D, s) # None
  <2>1. ASSUME NEW s, ObjectOf(D, s) # None PROVE s \in Q
    <3>. DEFINE e == <<s, ObjectOf(D, s)>>
    <3>1. e \in D /\ e[1] = s
      BY <1>2, <2>1
    <3>q. QED
      BY <3>1
  <2>2. ASSUME NEW s \in Q PROVE ObjectOf(D, s) # None
    BY <1>1, <1>2
  <2>q. QED
    BY <2>1, <2>2
<1>11. D = {<<s, ObjectOf(D, s)>> : s \in Q}
  BY <1>4
<1>q. QED
  BY <1>3, <1>6, <1>8, <1>9, <1>10, <1>11

LEMMA KeptOf ==
    ASSUME UploadInv, NEW S \in SUBSET Active
    PROVE  /\ Functional(Kept(S)) /\ {e[1] : e \in Kept(S)} = S
           /\ \A e \in Kept(S) : Placed(e[2]) /\ e = <<e[1], sources[e[1]]>>
<1>1. \A s \in S : s \in Places /\ Placed(sources[s]) /\ sources[s] \in Objects
  BY DEF UploadInv, UploadShape, Active, Placed
<1>2. ASSUME NEW e \in Kept(S)
      PROVE  e[1] \in S /\ e = <<e[1], sources[e[1]]>> /\ Placed(e[2]) /\ e \in Places \X Objects
  BY <1>1 DEF Kept
<1>3. ASSUME NEW s \in S PROVE <<s, sources[s]>> \in Kept(S) /\ <<s, sources[s]>>[1] = s
  BY DEF Kept
<1>4. \A e, f \in Kept(S) : e[1] = f[1] => e = f
  BY <1>2
<1>5. {e[1] : e \in Kept(S)} = S
  BY <1>2, <1>3
<1>q. QED
  BY <1>2, <1>4, <1>5 DEF Functional

LEMMA SameBytes ==
    ASSUME NEW D, Functional(D), NEW ups, \A e \in D : ups[e[2][1]].files[e[2][2]] = Uploaded(e[2])
    PROVE  BytesIn(D, Places, ups) = BytesIn(D, Places, up)
<1>1. ASSUME NEW s, ObjectOf(D, s) # None
      PROVE  LET o == ObjectOf(D, s) IN ups[o[1]].files[o[2]] = up[o[1]].files[o[2]]
  <2>1. <<s, ObjectOf(D, s)>> \in D
    BY <1>1, ObjectOfSet DEF Functional
  <2>q. QED
    BY <2>1 DEF Uploaded
<1>q. QED
  BY <1>1 DEF BytesIn

\* A commit of an admitted set of verified objects.
LEMMA CommitStep ==
    ASSUME UploadInv, NEW D, Functional(D), Commit(D),
           \A e \in D : verify_object(e[2]) /\ Placed(e[2])' /\ Uploaded(e[2])' = Uploaded(e[2]),
           Cardinality(D) <= max_active_sources_per_workspace,
           BytesIn(D, Places, up) <= max_active_source_bytes_per_workspace
    PROVE  /\ sources' \in [Places -> Objects \cup {None}]
           /\ \A s \in Active' : Placed(sources[s])'
           /\ ServedIsUploaded' /\ WithinCeilings'
<1>. DEFINE Q == {e[1] : e \in D}
<1>1. /\ Q \subseteq Places /\ Cardinality(Q) = Cardinality(D)
      /\ \A s \in Places : s \in Q <=> ObjectOf(D, s) # None
      /\ D = {<<s, ObjectOf(D, s)>> : s \in Q}
  BY FunctionalFinite
<1>2. /\ \A e \in D : ObjectOf(D, e[1]) = e[2]
      /\ \A s : ObjectOf(D, s) # None => <<s, ObjectOf(D, s)>> \in D
      /\ \A s : ObjectOf(D, s) \in Objects \cup {None}
  BY ObjectOfSet DEF Functional
<1>3. sources' = [s \in Places |-> ObjectOf(D, s)] /\ served' = {DocOf(e[2]) : e \in D}
  BY DEF Commit, UploadInv, UploadShape
<1>4. Active' = Q
  BY <1>1, <1>3 DEF Active
<1>5. Kept(Active)' = D
  <2>1. Kept(Active)' = {<<s, sources'[s]>> : s \in Q}
    BY <1>4 DEF Kept
  <2>2. \A s \in Q : sources'[s] = ObjectOf(D, s)
    BY <1>1, <1>3
  <2>. HIDE DEF Q
  <2>q. QED
    BY <1>1, <2>1, <2>2
<1>6. ASSUME NEW s \in Q PROVE <<s, sources'[s]>> \in D
  BY <1>1, <1>2, <1>3
<1>7. \A s \in Active' : Placed(sources[s])'
  <2>. SUFFICES ASSUME NEW s \in Q PROVE Placed(sources[s])'
    BY <1>4
  <2>1. <<s, sources'[s]>> \in D
    BY <1>6
  <2>2. PICK o : o = sources'[s]
    OBVIOUS
  <2>3. Placed(o)'
    BY <2>1, <2>2
  <2>q. QED
    BY <2>2, <2>3 DEF Placed
<1>8. ServedIsUploaded'
  <2>1. served' = {Uploaded(e[2])' : e \in D}
    BY <1>3 DEF verify_object
  <2>2. \A s \in Q : Uploaded(sources[s])' = (up'[sources'[s][1]].files)[sources'[s][2]]
    BY DEF Uploaded
  <2>3. \A e \in D : Uploaded(e[2])' = (up'[e[2][1]].files)[e[2][2]]
    BY DEF Uploaded
  <2>4. \A e \in D : e[1] \in Q /\ sources'[e[1]] = e[2]
    BY <1>1, <1>2, <1>3
  <2>5. {Uploaded(e[2])' : e \in D} = {Uploaded(sources[s])' : s \in Q}
    BY <1>6, <2>2, <2>3, <2>4
  <2>q. QED
    BY <1>4, <2>1, <2>5 DEF ServedIsUploaded
<1>9. WithinCeilings'
  <2>1. Bytes(Kept(Active))' = BytesIn(D, Places, up')
    <3>1. DOMAIN sources' = Places
      BY <1>3
    <3>q. QED
      BY <1>5, <3>1 DEF Bytes, BytesIn, Uploaded
  <2>2. BytesIn(D, Places, up') = BytesIn(D, Places, up)
    BY SameBytes DEF Uploaded
  <2>q. QED
    BY <1>1, <1>4, <2>1, <2>2 DEF WithinCeilings
<1>q. QED
  BY <1>2, <1>3, <1>7, <1>8, <1>9

(* A desired set that an upload plans. *)
LEMMA PlannedSet ==
    ASSUME UploadInv, NEW u \in Uploads, NEW S \in SUBSET Active, NEW F,
           F \in SUBSET ((Places \ S) \X ({u} \X DOMAIN up[u].files)),
           \A e, f \in F : e[1] = f[1] => e = f
    PROVE  LET D == Kept(S) \cup F
           IN  /\ Functional(D)
               /\ \A e \in D : Placed(e[2]) \/ e[2] \in {u} \X DOMAIN up[u].files
<1>1. Functional(Kept(S)) /\ \A e \in Kept(S) : Placed(e[2]) /\ e[1] \in S
  BY KeptOf
<1>2. DOMAIN up[u].files \subseteq Nat \ {0}
  BY UpOf
<1>3. \A e \in F : e[1] \notin S /\ e[2] \in {u} \X DOMAIN up[u].files /\ e \in Places \X Objects
  BY <1>2 DEF Objects
<1>q. QED
  BY <1>1, <1>3 DEF Functional

LEMMA SeqOfSet ==
    ASSUME NEW S, IsFiniteSet(S)
    PROVE  SetToSeq(S) \in [1..Cardinality(S) -> S] /\ IsInjective(SetToSeq(S))
<1>1. PICK f : f \in Bijection(1..Cardinality(S), S)
  BY FS_CardinalityType DEF ExistsBijection
<1>2. f \in [1..Cardinality(S) -> S] /\ IsInjective(f)
  BY <1>1 DEF Bijection, Injection
<1>q. QED
  BY <1>2 DEF SetToSeq

LEMMA PlanAddOf ==
    ASSUME UploadInv, NEW u \in Uploads,
           Cardinality(Active) + Len(up[u].files) <= Cardinality(DOMAIN sources)
    PROVE  /\ Functional(_plan_add(u))
           /\ \A e \in _plan_add(u) : Placed(e[2]) \/ e[2] \in {u} \X DOMAIN up[u].files
<1>. DEFINE S == Places \ Active
            free == SetToSeq(S)
            K == DOMAIN up[u].files
            F == {<<free[k], <<u, k>>>> : k \in K}
<1>1. DOMAIN sources = Places /\ Active \subseteq Places
  BY DEF UploadInv, UploadShape, Active
<1>2. IsFiniteSet(Places) /\ IsFiniteSet(Active) /\ IsFiniteSet(S)
  <2>1. IsFiniteSet(Places)
    BY FS_Interval, UploadAssumption DEF Places
  <2>q. QED
    BY <1>1, <2>1, FS_Subset
<1>3. Cardinality(S) = Cardinality(Places) - Cardinality(Active)
  <2>1. Active \cup S = Places /\ Active \cap S = {}
    BY <1>1
  <2>2. Cardinality(Places) = Cardinality(Active) + Cardinality(S) - Cardinality({})
    BY <1>2, <2>1, FS_Union
  <2>3. Cardinality(Active) \in Nat /\ Cardinality(S) \in Nat
    BY <1>2, FS_CardinalityType
  <2>q. QED
    BY <2>2, <2>3, FS_EmptySet
<1>4. up[u].files \in Seq(UpDocs)
  BY UpOf
<1>5. Len(up[u].files) <= Cardinality(S) /\ K = 1..Len(up[u].files)
  <2>1. Cardinality(Active) \in Nat /\ Cardinality(S) \in Nat /\ Cardinality(Places) \in Nat
    BY <1>2, FS_CardinalityType
  <2>2. Len(up[u].files) \in Nat
    BY <1>4
  <2>q. QED
    BY <1>1, <1>3, <1>4, <2>1, <2>2
<1>6. free \in [1..Cardinality(S) -> S] /\ IsInjective(free)
  BY <1>2, SeqOfSet
<1>. HIDE DEF free
<1>7. /\ \A k \in K : k \in DOMAIN free /\ free[k] \in S
      /\ \A k, l \in K : free[k] = free[l] => k = l
  <2>1. Cardinality(S) \in Nat
    BY <1>2, FS_CardinalityType
  <2>2. \A k \in K : k \in 1..Cardinality(S)
    BY <1>4, <1>5, <2>1
  <2>3. DOMAIN free = 1..Cardinality(S)
    BY <1>6
  <2>4. \A k, l \in DOMAIN free : free[k] = free[l] => k = l
    BY <1>6 DEF IsInjective
  <2>5. \A k \in DOMAIN free : free[k] \in S
    BY <1>6, <2>3
  <2>q. QED
    BY <2>2, <2>3, <2>4, <2>5
<1>. HIDE DEF K
<1>8. F \in SUBSET ((Places \ Active) \X ({u} \X K)) /\ \A e, f \in F : e[1] = f[1] => e = f
  BY <1>7
<1>9. _plan_add(u) = Kept(Active) \cup F
  BY <1>1 DEF _plan_add, free, K
<1>. HIDE DEF F
<1>10. F \in SUBSET ((Places \ Active) \X ({u} \X DOMAIN up[u].files)) /\ \A e, f \in F : e[1] = f[1] => e = f
  BY <1>8 DEF K
<1>11. Active \in SUBSET Active
  OBVIOUS
<1>12. LET Z == Kept(Active) \cup F
       IN  Functional(Z) /\ \A e \in Z : Placed(e[2]) \/ e[2] \in {u} \X DOMAIN up[u].files
  BY <1>10, <1>11, PlannedSet
<1>q. QED
  BY <1>9, <1>12

LEMMA PlanReplaceOf ==
    ASSUME UploadInv, NEW u \in Uploads, NEW t \in Active, up[u].files # <<>>
    PROVE  /\ Functional(_plan_replace(u, t))
           /\ \A e \in _plan_replace(u, t) : Placed(e[2]) \/ e[2] \in {u} \X DOMAIN up[u].files
<1>. DEFINE S == Active \ {t}
            F == {<<t, <<u, 1>>>>}
<1>1. 1 \in DOMAIN up[u].files
  BY UpOf
<1>2. t \in Places \ S
  BY DEF UploadInv, UploadShape, Active
<1>3. F \in SUBSET ((Places \ S) \X ({u} \X DOMAIN up[u].files)) /\ \A e, f \in F : e[1] = f[1] => e = f
  BY <1>1, <1>2
<1>4. _plan_replace(u, t) = Kept(S) \cup F
  BY DEF _plan_replace
<1>5. S \in SUBSET Active
  OBVIOUS
<1>. HIDE DEF S, F
<1>6. LET Z == Kept(S) \cup F
      IN  Functional(Z) /\ \A e \in Z : Placed(e[2]) \/ e[2] \in {u} \X DOMAIN up[u].files
  BY <1>3, <1>5, PlannedSet
<1>q. QED
  BY <1>4, <1>6

LEMMA PlanUploadStep ==
    ASSUME UploadInv, NEW u \in Uploads, NEW t \in DOMAIN sources, NEW disk \in BOOLEAN, PlanUpload(u, t, disk)
    PROVE  UploadInv'
<1>. DEFINE add == up[u].route = "add"
            fits == Cardinality(Active) + Len(up[u].files) <= Cardinality(DOMAIN sources)
            bad == IF add THEN Duplicate(u) \/ ~fits ELSE t \notin Active
            D == IF add THEN _plan_add(u) ELSE _plan_replace(u, t)
            r == [up[u] EXCEPT !.st = "writing", !.desired = D]
<1>1. /\ up[u].st = "queued" /\ wsLease = "none" /\ UNCHANGED <<vault, sources, served, legacy, upHost>>
      /\ \/ Go(u, "refused") /\ staging' = staging \ {u} /\ UNCHANGED wsLease
         \/ /\ ~bad /\ Admits(D, up[u].route, disk)
            /\ up' = [up EXCEPT ![u].st = "writing", ![u].desired = D]
            /\ wsLease' = u /\ UNCHANGED staging
  BY DEF PlanUpload
<1>2. LegacyKeepsOut'
  BY <1>1 DEF UploadInv, LegacyKeepsOut
<1>3. CASE Go(u, "refused") /\ staging' = staging \ {u} /\ UNCHANGED wsLease
  BY <1>1, <1>2, <1>3, UploadEnds
<1>4. CASE /\ ~bad /\ Admits(D, up[u].route, disk)
           /\ up' = [up EXCEPT ![u].st = "writing", ![u].desired = D]
           /\ wsLease' = u /\ UNCHANGED staging
  <2>1. up[u] \in UpRecs /\ Spooled(up[u]) /\ up[u].files # <<>>
    BY <1>1, UpOf DEF Spooled
  <2>2. Functional(D) /\ \A e \in D : Placed(e[2]) \/ e[2] \in {u} \X DOMAIN up[u].files
    BY <1>4, <2>1, PlanAddOf, PlanReplaceOf
  <2>3. Cardinality(D) <= max_active_sources_per_workspace /\ Bytes(D) <= max_active_source_bytes_per_workspace
    <3>1. up[u].route # "remove"
      BY <2>1 DEF UpRecs, Routes
    <3>q. QED
      BY <1>4, <3>1 DEF Admits, enforce_workspace_active_source_capacity, enforce_workspace_active_source_bytes
  <2>4. up' = [up EXCEPT ![u] = r]
    BY <1>4 DEF UploadInv, UploadShape
  <2>. HIDE DEF D
  <2>5. /\ r \in UpRecs /\ r.st = "writing" /\ r.route = up[u].route /\ r.size = up[u].size
        /\ r.files = up[u].files /\ r.desired = D
    BY <2>1, <2>2 DEF UpRecs, UpStates, Functional
  <2>. HIDE DEF r
  <2>6. Spooled(r)
    BY <2>1, <2>5 DEF Spooled
  <2>7. up' \in [Uploads -> UpRecs] /\ up'[u] = r /\ \A v \in Uploads : v # u => up'[v] = up[v]
    BY <2>4, <2>5 DEF UploadInv, UploadShape
  <2>8. Wanted(u)'
    <3>1. up'[u].desired = D /\ up'[u].files = up[u].files
      BY <2>5, <2>7
    <3>2. \A e \in D : Placed(e[2])' \/ e[2] \in {u} \X DOMAIN up[u].files
      <4>1. \A o : Placed(o) => Placed(o)'
        BY <1>1, <2>7 DEF Placed, Objects
      <4>q. QED
        BY <2>2, <4>1
    <3>3. Bytes(up[u].desired)' = Bytes(D)
      <4>1. \A e \in D : up'[e[2][1]].files[e[2][2]] = Uploaded(e[2])
        <5>1. \A e \in D : e[2] \in Objects
          BY <2>2 DEF Functional
        <5>2. \A v \in Uploads : up'[v].files = up[v].files
          BY <2>5, <2>7
        <5>q. QED
          BY <5>1, <5>2 DEF Uploaded, Objects
      <4>2. BytesIn(D, Places, up') = BytesIn(D, Places, up)
        BY <2>2, <4>1, SameBytes
      <4>3. DOMAIN sources = Places /\ DOMAIN sources' = Places
        BY <1>1 DEF UploadInv, UploadShape
      <4>q. QED
        BY <3>1, <4>2, <4>3 DEF Bytes, BytesIn, Uploaded
    <3>q. QED
      BY <2>2, <2>3, <3>1, <3>2, <3>3 DEF Wanted, Functional
  <2>9. staging' \subseteq staging \cup {u} /\ up[u].st # "done"
    BY <1>1, <1>4
  <2>q. QED
    BY <1>1, <1>2, <1>4, <2>4, <2>5, <2>6, <2>8, <2>9, RequestStep
<1>q. QED
  BY <1>1, <1>3, <1>4

LEMMA SameRecords ==
    ASSUME UploadInv, UNCHANGED <<up, staging, sources, served, wsLease, legacy, upHost>>
    PROVE  UploadInv'
<1>1. \A u \in Uploads : Wanted(u) => Wanted(u)'
  BY DEF Wanted, Placed, Bytes, Uploaded
<1>2. \A s \in Active' : Placed(sources[s])'
  BY DEF UploadInv, Active, Placed
<1>3. StagingIsOwned' /\ ServedIsUploaded' /\ WithinCeilings' /\ LegacyKeepsOut'
  BY DEF UploadInv, StagingIsOwned, ServedIsUploaded, WithinCeilings, LegacyKeepsOut, Active, Uploaded, Bytes, Kept
<1>4. UploadShape'
  BY DEF UploadInv, UploadShape
<1>q. QED
  BY <1>1, <1>2, <1>3, <1>4 DEF UploadInv

LEMMA PublishUploadStep ==
    ASSUME UploadInv, NEW u \in Uploads, NEW ok \in BOOLEAN, PublishUpload(u, ok) PROVE UploadInv'
<1>. DEFINE D == up[u].desired
            r == Ended(u, "done")
<1>1. /\ up[u].st = "writing" /\ wsLease' = "none" /\ staging' = staging \ {u}
      /\ UNCHANGED <<vault, legacy, upHost>>
      /\ \/ Go(u, "refused") /\ UNCHANGED <<sources, served>>
         \/ materialize_desired_sources(D) /\ Commit(D) /\ Go(u, "done")
  BY DEF PublishUpload
<1>2. LegacyKeepsOut'
  BY <1>1 DEF UploadInv, LegacyKeepsOut
<1>3. CASE Go(u, "refused") /\ UNCHANGED <<sources, served>>
  BY <1>1, <1>2, <1>3, UploadEnds
<1>4. CASE materialize_desired_sources(D) /\ Commit(D) /\ Go(u, "done")
  <2>1. up[u] \in UpRecs /\ wsLease = u /\ Wanted(u)
    BY <1>1, UpOf DEF UploadInv
  <2>2. /\ Functional(D)
        /\ \A e \in D : Placed(e[2]) \/ e[2] \in {u} \X DOMAIN up[u].files
        /\ Cardinality(D) <= max_active_sources_per_workspace
        /\ Bytes(D) <= max_active_source_bytes_per_workspace
    BY <2>1 DEF Wanted, Functional, UpRecs
  <2>3. r \in UpRecs /\ Spooled(r) /\ r.st = "done" /\ r.route = up[u].route /\ r.files = up[u].files
    BY EndedOf
  <2>4. up' = [up EXCEPT ![u] = r]
    BY <1>4 DEF Go, UploadInv, UploadShape
  <2>. HIDE DEF r, D
  <2>5. up' \in [Uploads -> UpRecs] /\ up'[u] = r /\ \A v \in Uploads : v # u => up'[v] = up[v]
    BY <2>3, <2>4 DEF UploadInv, UploadShape
  <2>6. \A v \in Uploads : up'[v].files = up[v].files
    BY <2>3, <2>5
  <2>7. \A e \in D : verify_object(e[2]) /\ Placed(e[2])' /\ Uploaded(e[2])' = Uploaded(e[2])
    <3>1. \A e \in D : e[2] \in Objects
      BY <2>2 DEF Functional
    <3>2. \A e \in D : verify_object(e[2])
      BY <1>4 DEF materialize_desired_sources
    <3>3. \A e \in D : Uploaded(e[2])' = Uploaded(e[2])
      BY <2>6, <3>1 DEF Uploaded, Objects
    <3>4. ASSUME NEW o \in Objects, Placed(o) \/ o \in {u} \X DOMAIN up[u].files PROVE Placed(o)'
      <4>1. o[1] \in Uploads /\ o[2] \in DOMAIN up[o[1]].files /\ (o[1] = u \/ up[o[1]].st = "done")
        BY <3>4 DEF Placed, Objects
      <4>q. QED
        BY <2>3, <2>5, <2>6, <4>1 DEF Placed
    <3>q. QED
      BY <2>2, <3>1, <3>2, <3>3, <3>4
  <2>8. BytesIn(D, Places, up) <= max_active_source_bytes_per_workspace
    BY <2>2, BytesAre DEF UploadInv, UploadShape
  <2>9. /\ sources' \in [Places -> Objects \cup {None}]
        /\ \A s \in Active' : Placed(sources[s])'
        /\ ServedIsUploaded' /\ WithinCeilings'
    BY <1>4, <2>2, <2>7, <2>8, CommitStep
  <2>10. \A v \in Uploads : up'[v].st = "writing" => FALSE
    BY <2>1, <2>3, <2>5 DEF UploadInv
  <2>11. \A v \in Uploads : Spooled(up'[v])
    BY <2>3, <2>5, UpOf
  <2>12. StagingIsOwned'
    BY <1>1, <2>5 DEF UploadInv, UploadShape, StagingIsOwned
  <2>13. UploadShape'
    BY <1>1, <2>5, <2>9 DEF UploadInv, UploadShape
  <2>q. QED
    BY <1>2, <2>9, <2>10, <2>11, <2>12, <2>13 DEF UploadInv
<1>q. QED
  BY <1>1, <1>3, <1>4

LEMMA RemoveSourceStep ==
    ASSUME UploadInv, NEW s \in DOMAIN sources, NEW disk \in BOOLEAN, RemoveSource(s, disk) PROVE UploadInv'
<1>. DEFINE D == _plan_remove(s)
            S == Active \ {s}
<1>1. /\ wsLease = "none" /\ Commit(D) /\ UNCHANGED <<up, staging, vault, wsLease, legacy, upHost>>
      /\ D # {} => materialize_desired_sources(D)
  BY DEF RemoveSource
<1>2. D = Kept(S) /\ S \in SUBSET Active
  BY DEF _plan_remove
<1>3. Functional(D) /\ {e[1] : e \in D} = S /\ \A e \in D : Placed(e[2]) /\ e = <<e[1], sources[e[1]]>>
  BY <1>2, KeptOf
<1>4. Functional(Kept(Active)) /\ {e[1] : e \in Kept(Active)} = Active
  <2>1. Active \in SUBSET Active
    OBVIOUS
  <2>q. QED
    BY <2>1, KeptOf
<1>5. D \subseteq Kept(Active)
  BY <1>2 DEF Kept
<1>. HIDE DEF D, S
<1>6. Cardinality(D) <= max_active_sources_per_workspace
  <2>1. IsFiniteSet(Kept(Active)) /\ Cardinality(Kept(Active)) = Cardinality(Active)
    BY <1>4, FunctionalFinite
  <2>2. /\ Cardinality(D) <= Cardinality(Kept(Active))
        /\ Cardinality(D) \in Nat /\ Cardinality(Kept(Active)) \in Nat
    BY <1>5, <2>1, FS_Subset, FS_CardinalityType
  <2>3. Cardinality(Active) <= max_active_sources_per_workspace
    BY DEF UploadInv, WithinCeilings
  <2>4. max_active_sources_per_workspace \in Nat
    BY UploadAssumption
  <2>q. QED
    BY <2>1, <2>2, <2>3, <2>4
<1>7. BytesIn(D, Places, up) <= max_active_source_bytes_per_workspace
  <2>. DEFINE K == Kept(Active)
              W(X) == [p \in Places |-> LET o == ObjectOf(X, p)
                                        IN  IF o = None THEN 0 ELSE DocBytes(up[o[1]].files[o[2]])]
  <2>1. BytesIn(K, Places, up) <= max_active_source_bytes_per_workspace
    BY BytesAre DEF UploadInv, UploadShape, WithinCeilings
  <2>2. ASSUME NEW X, Functional(X), X \subseteq K PROVE W(X) \in Seq(Nat) /\ Len(W(X)) = max_active_sources_per_workspace + 1
    <3>1. ASSUME NEW p \in Places, ObjectOf(X, p) # None
          PROVE  DocBytes(up[ObjectOf(X, p)[1]].files[ObjectOf(X, p)[2]]) \in Nat
      <4>1. <<p, ObjectOf(X, p)>> \in K
        BY <2>2, <3>1, ObjectOfSet DEF Functional
      <4>2. Placed(ObjectOf(X, p))
        <5>1. Active \in SUBSET Active
          OBVIOUS
        <5>2. \A e \in K : Placed(e[2])
          BY <5>1, KeptOf
        <5>q. QED
          BY <4>1, <5>2
      <4>q. QED
        BY <4>2, UpOf, DocBytesOf DEF Placed, Objects
    <3>2. W(X) \in [Places -> Nat]
      BY <3>1
    <3>3. max_active_sources_per_workspace + 1 \in Nat
      BY UploadAssumption
    <3>. HIDE DEF W
    <3>q. QED
      BY <3>2, <3>3 DEF Places
  <2>3. ASSUME NEW p \in Places, ObjectOf(D, p) # None PROVE ObjectOf(K, p) = ObjectOf(D, p)
    <3>1. <<p, ObjectOf(D, p)>> \in K
      BY <1>3, <1>5, <2>3, ObjectOfSet DEF Functional
    <3>2. \A e \in K : ObjectOf(K, e[1]) = e[2]
      BY <1>4, ObjectOfSet DEF Functional
    <3>. HIDE DEF K
    <3>q. QED
      BY <3>1, <3>2
  <2>4. W(D) \in Seq(Nat) /\ W(K) \in Seq(Nat) /\ Len(W(D)) = Len(W(K)) /\ DOMAIN W(D) = Places
        /\ Places = 1..Len(W(D))
    <3>1. K \subseteq K
      OBVIOUS
    <3>2. /\ W(D) \in Seq(Nat) /\ Len(W(D)) = max_active_sources_per_workspace + 1
          /\ W(K) \in Seq(Nat) /\ Len(W(K)) = max_active_sources_per_workspace + 1
      BY <1>3, <1>4, <1>5, <2>2, <3>1
    <3>q. QED
      BY <3>2 DEF Places
  <2>5. \A p \in Places : W(D)[p] <= W(K)[p]
    <3>1. ASSUME NEW p \in Places PROVE W(D)[p] <= W(K)[p]
      <4>1. W(K)[p] \in Nat
        <5>. HIDE DEF W, K
        <5>q. QED
          BY <2>4
      <4>2. CASE ObjectOf(D, p) = None
        <5>1. W(D)[p] = 0
          BY <4>2
        <5>. HIDE DEF W, K
        <5>q. QED
          BY <4>1, <5>1
      <4>3. CASE ObjectOf(D, p) # None
        <5>1. W(D)[p] = W(K)[p]
          BY <2>3, <4>3
        <5>. HIDE DEF W, K
        <5>q. QED
          BY <4>1, <5>1
      <4>q. QED
        BY <4>2, <4>3
    <3>q. QED
      BY <3>1
  <2>6. SumOf(W(D)) <= SumOf(W(K)) /\ SumOf(W(D)) \in Nat /\ SumOf(W(K)) \in Nat
    <3>. HIDE DEF W, K
    <3>q. QED
      BY <2>4, <2>5, SumBelow, SumsOf
  <2>7. BytesIn(D, Places, up) = SumOf(W(D)) /\ BytesIn(K, Places, up) = SumOf(W(K))
    BY DEF BytesIn
  <2>8. max_active_source_bytes_per_workspace \in Nat
    BY UploadAssumption
  <2>. HIDE DEF W, K
  <2>q. QED
    BY <2>1, <2>6, <2>7, <2>8
<1>8. \A e \in D : verify_object(e[2]) /\ Placed(e[2])' /\ Uploaded(e[2])' = Uploaded(e[2])
  BY <1>1, <1>3 DEF materialize_desired_sources, Placed, Uploaded
<1>9. /\ sources' \in [Places -> Objects \cup {None}]
      /\ \A p \in Active' : Placed(sources[p])'
      /\ ServedIsUploaded' /\ WithinCeilings'
  BY <1>1, <1>3, <1>6, <1>7, <1>8, CommitStep
<1>10. \A v \in Uploads : up'[v].st # "writing"
  BY <1>1, UploadAssumption DEF UploadInv
<1>11. UploadShape' /\ StagingIsOwned' /\ LegacyKeepsOut' /\ \A v \in Uploads : Spooled(up'[v])
  BY <1>1, <1>9 DEF UploadInv, UploadShape, StagingIsOwned, LegacyKeepsOut
<1>q. QED
  BY <1>9, <1>10, <1>11 DEF UploadInv


LEMMA CrashUploadsStep == ASSUME UploadInv, CrashUploads PROVE UploadInv'
<1>1. /\ up' = [u \in Uploads |->
             IF up[u].st \in {"new", "done", "refused"} THEN up[u] ELSE Ended(u, "lost")]
      /\ upHost' = [upHost EXCEPT !.up = FALSE] /\ UNCHANGED <<staging, vault, sources, served, legacy>>
  BY DEF CrashUploads
<1>2. \A u \in Uploads : /\ up'[u] \in UpRecs /\ Spooled(up'[u]) /\ up'[u].files = up[u].files
                         /\ up'[u].st # "writing" /\ (up[u].st = "done" => up'[u].st = "done")
  BY <1>1, UpOf, EndedOf
<1>3. up' \in [Uploads -> UpRecs] /\ upHost' \in [up : BOOLEAN, qualified : BOOLEAN] /\ upHost'.up = FALSE
  BY <1>1, <1>2 DEF UploadInv, UploadShape
<1>4. \A o \in Objects : /\ Placed(o) => Placed(o)'
                         /\ up'[o[1]].files[o[2]] = up[o[1]].files[o[2]]
  BY <1>2 DEF Placed, Objects
<1>5. /\ Active' = Active /\ \A s \in Active : sources[s] \in Objects /\ Placed(sources[s])
      /\ sources' = sources /\ DOMAIN sources = Places
  BY <1>1 DEF Active, UploadInv, UploadShape, Placed
<1>6. \A s \in Active' : Placed(sources[s])'
  BY <1>4, <1>5 DEF Placed
<1>7. ServedIsUploaded'
  <2>1. \A s \in Active : Uploaded(sources[s])' = Uploaded(sources[s])
    BY <1>4, <1>5 DEF Uploaded
  <2>q. QED
    BY <1>1, <1>5, <2>1 DEF UploadInv, ServedIsUploaded
<1>8. WithinCeilings'
  <2>. DEFINE D == Kept(Active)
  <2>1. D' = D /\ Functional(D) /\ \A e \in D : Placed(e[2])
    <3>1. Active \in SUBSET Active
      OBVIOUS
    <3>q. QED
      BY <1>5, <3>1, KeptOf DEF Kept
  <2>2. \A e \in D : up'[e[2][1]].files[e[2][2]] = Uploaded(e[2])
    BY <1>4, <2>1 DEF Uploaded, Placed
  <2>3. BytesIn(D, Places, up') = BytesIn(D, Places, up)
    <3>. HIDE DEF D
    <3>q. QED
      BY <2>1, <2>2, SameBytes
  <2>4. Bytes(D)' = BytesIn(D, Places, up') /\ Bytes(D) = BytesIn(D, Places, up)
    BY <1>5, <2>1 DEF Bytes, BytesIn, Uploaded
  <2>q. QED
    BY <1>5, <2>3, <2>4 DEF UploadInv, WithinCeilings
<1>9. StagingIsOwned' /\ LegacyKeepsOut'
  BY <1>1, <1>3 DEF UploadInv, StagingIsOwned, LegacyKeepsOut
<1>10. UploadShape'
  BY <1>1, <1>3 DEF UploadInv, UploadShape
<1>q. QED
  BY <1>2, <1>6, <1>7, <1>8, <1>9, <1>10 DEF UploadInv

LEMMA RestartUploadsStep == ASSUME UploadInv, RestartUploads PROVE UploadInv'
<1>1. /\ \E q \in BOOLEAN : upHost' = [up |-> TRUE, qualified |-> q]
      /\ staging' = {u \in staging : up[u].route \in {"product", "local"}}
      /\ UNCHANGED <<up, vault, sources, served, wsLease, legacy>>
  BY DEF RestartUploads, LargePdfEligibility, quarantine_orphan_workspace_spools
<1>2. \A u \in Uploads : Wanted(u) => Wanted(u)'
  BY <1>1 DEF Wanted, Placed, Bytes, Uploaded
<1>3. \A s \in Active' : Placed(sources[s])'
  BY <1>1 DEF UploadInv, Active, Placed
<1>4. ServedIsUploaded' /\ WithinCeilings' /\ LegacyKeepsOut'
  BY <1>1 DEF UploadInv, ServedIsUploaded, WithinCeilings, LegacyKeepsOut, Active, Uploaded, Bytes, Kept
<1>5. StagingIsOwned'
  BY <1>1 DEF StagingIsOwned
<1>6. UploadShape'
  BY <1>1 DEF UploadInv, UploadShape
<1>q. QED
  BY <1>1, <1>2, <1>3, <1>4, <1>5, <1>6 DEF UploadInv

LEMMA UploadInitially == UploadInit => UploadInv
<1>. SUFFICES ASSUME UploadInit PROVE UploadInv
  OBVIOUS
<1>1. Fresh \in UpRecs /\ Fresh.st = "new" /\ Fresh.route = "none"
  BY DEF Fresh, UpRecs, UpStates
<1>2. up \in [Uploads -> UpRecs] /\ \A u \in Uploads : up[u] = Fresh
  BY <1>1 DEF UploadInit
<1>3. sources = [s \in Places |-> None] /\ Active = {} /\ DOMAIN sources = Places
  BY DEF UploadInit, Places, Active
<1>4. \A u \in Uploads : Spooled(up[u])
  BY <1>1, <1>2 DEF Spooled, Http
<1>5. UploadShape
  BY <1>2, <1>3 DEF UploadInit, UploadShape, LargePdfEligibility
<1>6. ServedIsUploaded /\ StagingIsOwned /\ LegacyKeepsOut
  BY <1>3 DEF UploadInit, ServedIsUploaded, StagingIsOwned, LegacyKeepsOut
<1>7. WithinCeilings
  <2>. DEFINE w == [s \in Places |-> LET o == ObjectOf({}, s)
                                    IN  IF o = None THEN 0 ELSE DocBytes(Uploaded(o))]
              z == max_active_sources_per_workspace + 1
  <2>1. w = [s \in Places |-> 0]
    BY DEF ObjectOf
  <2>2. Kept(Active) = {} /\ Cardinality(Active) = 0
    BY <1>3, FS_EmptySet DEF Kept
  <2>3. Bytes(Kept(Active)) = SumOf(w)
    BY <1>3, <2>2 DEF Bytes
  <2>. HIDE DEF w
  <2>4. z \in Nat /\ Places = 1..z
    BY UploadAssumption DEF Places
  <2>. HIDE DEF z
  <2>5. w \in Seq(Nat) /\ Len(w) = z /\ \A n \in 1..z : w[n] = 0
    BY <2>1, <2>4
  <2>6. SumOf(w) = 0
    <3>. DEFINE P == {n \in 0..z : Sums(w)[n] = 0}
    <3>1. 0 \in P
      BY <2>4, <2>5, SumsOf
    <3>2. \A n \in 1..z : n - 1 \in P => n \in P
      <4>1. \A n \in 1..z : Sums(w)[n] = Sums(w)[n - 1] + w[n]
        BY <2>5, SumsOf
      <4>q. QED
        BY <2>4, <2>5, <4>1
    <3>. HIDE DEF P
    <3>3. 0..z \subseteq P
      BY <2>4, <3>1, <3>2, InductionUpTo
    <3>4. Sums(w)[z] = 0
      BY <2>4, <3>3 DEF P
    <3>q. QED
      BY <2>5, <3>4, SumsOf
  <2>7. max_active_sources_per_workspace \in Nat /\ max_active_source_bytes_per_workspace \in Nat
    BY UploadAssumption
  <2>q. QED
    BY <2>2, <2>3, <2>6, <2>7 DEF WithinCeilings
<1>q. QED
  BY <1>1, <1>2, <1>3, <1>4, <1>5, <1>6, <1>7 DEF UploadInv

\* The invariant of uploads.
THEOREM UploadInvariant == UploadSpec => []UploadInv
<1>1. UploadInv /\ UploadNext => UploadInv'
  <2>. SUFFICES ASSUME UploadInv, UploadNext PROVE UploadInv'
    OBVIOUS
  <2>1. ASSUME NEW u \in Uploads,
               \/ \E x \in Http : BeginMultipart(u, x)
               \/ \E c \in CorpusNames, n \in 0..MaxParts : BeginLocal(u, c, n)
               \/ \E p \in UploadParts : OnHeaders(u, p)
               \/ OnPartData(u) \/ OnPartEnd(u) \/ EndOfBody(u) \/ Abandon(u)
        PROVE  UploadInv'
    BY <2>1, BeginMultipartStep, BeginLocalStep, OnHeadersStep, OnPartDataStep, OnPartEndStep,
       EndOfBodyStep, AbandonStep
  <2>2. ASSUME NEW u \in Uploads,
               \/ \E b \in BOOLEAN : ProductIngest(u, b) \/ ReserveUpload(u, b) \/ PublishUpload(u, b)
               \/ \E t \in DOMAIN sources, disk \in BOOLEAN : PlanUpload(u, t, disk)
               \/ PutFails(u)
        PROVE  UploadInv'
    BY <2>2, ProductIngestStep, ReserveUploadStep, PublishUploadStep, PlanUploadStep, PutFailsStep
  <2>3. ASSUME NEW u \in Uploads, PutObject(u) \/ PutMeta(u) PROVE UploadInv'
    BY <2>3, SameRecords DEF PutObject, PutMeta
  <2>4. ASSUME NEW o \in DOMAIN vault, DamageObject(o) PROVE UploadInv'
    BY <2>4, SameRecords DEF DamageObject
  <2>5. ASSUME NEW s \in DOMAIN sources, NEW disk \in BOOLEAN, RemoveSource(s, disk) PROVE UploadInv'
    BY <2>5, RemoveSourceStep
  <2>6. CASE CrashUploads \/ RestartUploads
    BY <2>6, CrashUploadsStep, RestartUploadsStep
  <2>q. QED
    BY <2>1, <2>2, <2>3, <2>4, <2>5, <2>6 DEF UploadNext
<1>2. UploadInv /\ UNCHANGED uploadVars => UploadInv'
  BY SameRecords DEF uploadVars
<1>q. QED
  BY <1>1, <1>2, UploadInitially, PTL DEF UploadSpec

\* From the first chunk to the snapshot that serves it: whatever a client sends,
\* wherever the process dies and whatever rots in the vault, the limits hold on
\* disk and over the whole workspace, every spool has an owner, what is served is
\* what was uploaded, and the legacy route keeps out of a workspace's corpus.
THEOREM UploadHolds == UploadSpec => []UploadIsSound
<1>1. UploadInv => StagedWithinLimits
  <2>. SUFFICES ASSUME UploadInv, NEW u \in staging, up[u].route \in Http
                PROVE  /\ SpooledBytes(u) <= max_total_upload_bytes
                       /\ Len(up[u].files) <= max_files_per_ingest
                       /\ \A i \in DOMAIN up[u].files :
                            DocBytes(up[u].files[i]) <= source_limit_bytes(up[u].files[i])
    BY DEF StagedWithinLimits
  <2>1. u \in Uploads
    BY DEF UploadInv, UploadShape
  <2>2. Spooled(up[u])
    BY <2>1, UpOf
  <2>q. QED
    BY <2>2 DEF Spooled, SpooledBytes, Sizes
<1>2. UploadInv => UploadIsSound
  BY <1>1 DEF UploadInv, UploadIsSound
<1>q. QED
  BY <1>2, UploadInvariant, PTL

(***************************************************************************)
(* Chunking: concatenation.                                                *)
(***************************************************************************)

\* FlattenSeq is the last of the running concatenations, which start from <<>>.
Joins(ss) == LET flatten[i \in 1..Len(ss)] == IF i = 1 THEN ss[i] ELSE flatten[i - 1] \o ss[i]
             IN  flatten

LEMMA JoinsOf ==
    ASSUME NEW W, NEW ss \in Seq(Seq(W)), ss # <<>>
    PROVE  /\ Joins(ss) \in [1..Len(ss) -> Seq(W)] /\ Joins(ss)[1] = ss[1]
           /\ \A n \in 2..Len(ss) : Joins(ss)[n] = Joins(ss)[n - 1] \o ss[n]
           /\ FlattenSeq(ss) = Joins(ss)[Len(ss)]
<1>. DEFINE L == Len(ss)
            Z == Seq(W)
            X == [n \in 1..L |-> ss[n]]
            F == [n \in 1..(L - 1) |-> [x \in Z |-> x \o X[n + 1]]]
            Joined(f) == [n \in 1..L |-> IF n = 1 THEN ss[n] ELSE f[n - 1] \o ss[n]]
            g == Joins(ss)
<1>1. L \in Nat /\ L >= 1 /\ X \in [1..L -> Z] /\ ss[1] \in Z
  BY LenProperties, EmptySeq
<1>2. \A x \in Z, y \in Z : x \o y \in Z
  BY ConcatProperties
<1>3. \A f : Joined(f) = [n \in 1..L |-> IF n = 1 THEN X[n] ELSE f[n - 1] \o X[n]]
  OBVIOUS
<1>4. g = CHOOSE h : h = Joined(h)
  BY DEF Joins
<1>5. FlattenSeq(ss) = g[L]
  BY <1>1 DEF FlattenSeq, Joins
<1>6. X[1] = ss[1] /\ \A n \in 1..L : X[n] = ss[n]
  BY <1>1
<1>. HIDE DEF L, X, g, Joined
<1>7. F \in [1..(L - 1) -> [Z -> Z]]
  <2>1. ASSUME NEW n \in 1..(L - 1), NEW x \in Z PROVE x \o X[n + 1] \in Z
    <3>1. n + 1 \in 1..L
      BY <1>1
    <3>2. X[n + 1] \in Z
      BY <1>1, <3>1
    <3>q. QED
      BY <1>2, <3>2
  <2>. HIDE DEF Z
  <2>q. QED
    BY <2>1
<1>8. \A n \in 1..(L - 1) : \A x \in Z : F[n][x] = x \o X[n + 1]
  OBVIOUS
<1>. HIDE DEF F, Z
<1>9. PICK f : f \in Run(F, Z, ss[1], L - 1)
  <2>. DEFINE M == L - 1
  <2>1. M \in Nat /\ ss[1] \in Z /\ F \in [1..M -> [Z -> Z]]
    BY <1>1, <1>7
  <2>. HIDE DEF M
  <2>2. Run(F, Z, ss[1], M) # {}
    BY <2>1, Iteration
  <2>q. QED
    BY <2>2 DEF M
<1>10. f \in [0..(L - 1) -> Z] /\ f[0] = ss[1] /\ \A n \in 1..(L - 1) : f[n] = F[n][f[n - 1]]
  BY <1>9 DEF Run
<1>. DEFINE h == [n \in 1..L |-> f[n - 1]]
<1>11. \A n \in 1..L : n - 1 \in 0..(L - 1) /\ h[n] = f[n - 1] /\ (n # 1 => n - 1 \in 1..(L - 1) /\ n - 1 \in 1..L)
  BY <1>1
<1>12. h = Joined(h)
  <2>1. ASSUME NEW n \in 1..L, n # 1 PROVE h[n] = h[n - 1] \o X[n]
    <3>1. n - 1 \in 1..(L - 1) /\ (n - 1) + 1 = n /\ n - 1 \in 1..L
      BY <1>1, <2>1
    <3>2. f[(n - 1) - 1] \in Z /\ h[n - 1] = f[(n - 1) - 1] /\ h[n] = f[n - 1]
      BY <1>10, <1>11, <3>1
    <3>3. f[n - 1] = F[n - 1][f[(n - 1) - 1]]
      BY <1>10, <3>1
    <3>4. F[n - 1][f[(n - 1) - 1]] = f[(n - 1) - 1] \o X[(n - 1) + 1]
      BY <1>8, <3>1, <3>2
    <3>q. QED
      BY <3>1, <3>2, <3>3, <3>4
  <2>2. 1 \in 1..L /\ h[1] = X[1]
    BY <1>1, <1>6, <1>10, <1>11
  <2>3. h = [n \in 1..L |-> h[n]]
    OBVIOUS
  <2>. HIDE DEF h
  <2>4. \A n \in 1..L : h[n] = IF n = 1 THEN X[n] ELSE h[n - 1] \o X[n]
    BY <2>1, <2>2
  <2>q. QED
    BY <1>3, <2>3, <2>4
<1>. HIDE DEF h
<1>13. g = [n \in 1..L |-> IF n = 1 THEN X[n] ELSE g[n - 1] \o X[n]]
  <2>1. g = Joined(g)
    BY <1>4, <1>12
  <2>q. QED
    BY <1>3, <2>1
<1>14. g = [n \in 1..L |-> g[n]] /\ g[1] = X[1] /\ \A n \in 2..L : g[n] = g[n - 1] \o X[n]
  <2>1. 1 \in 1..L /\ \A n \in 2..L : n \in 1..L /\ n # 1
    BY <1>1
  <2>q. QED
    BY <1>13, <2>1
<1>15. \A n \in 1..L : g[n] \in Z
  <2>. DEFINE P == {n \in 0..(L - 1) : g[n + 1] \in Z}
  <2>1. 0 \in P
    BY <1>1, <1>6, <1>14
  <2>2. ASSUME NEW n \in 1..(L - 1), n - 1 \in P PROVE n \in P
    <3>1. n + 1 \in 2..L /\ n + 1 \in 1..L /\ (n - 1) + 1 = n /\ (n + 1) - 1 = n
      BY <1>1
    <3>2. g[n] \in Z /\ X[n + 1] \in Z
      BY <1>1, <2>2, <3>1
    <3>3. g[n + 1] \in Z
      BY <1>2, <1>14, <3>1, <3>2
    <3>q. QED
      BY <3>3
  <2>. HIDE DEF P
  <2>3. 0..(L - 1) \subseteq P
    <3>1. L - 1 \in Nat
      BY <1>1
    <3>q. QED
      BY <2>1, <2>2, <3>1, InductionUpTo
  <2>q. QED
    <3>1. ASSUME NEW n \in 1..L PROVE n - 1 \in 0..(L - 1) /\ (n - 1) + 1 = n
      BY <1>1
    <3>q. QED
      BY <2>3, <3>1 DEF P
<1>16. g \in [1..L -> Z] /\ g[1] = ss[1] /\ \A n \in 2..L : g[n] = g[n - 1] \o ss[n]
  <2>1. \A n \in 2..L : n \in 1..L
    BY <1>1
  <2>q. QED
    BY <1>6, <1>14, <1>15, <2>1
<1>q. QED
  BY <1>5, <1>16 DEF g, L, Z

\* Any running concatenation ends in FlattenSeq, and there is one.
LEMMA FlatIs ==
    ASSUME NEW W, NEW ss \in Seq(Seq(W)), NEW g, g[0] = <<>>,
           \A n \in 1..Len(ss) : g[n] = g[n - 1] \o ss[n]
    PROVE  FlattenSeq(ss) = g[Len(ss)]
<1>1. CASE ss = <<>>
  BY <1>1 DEF FlattenSeq
<1>2. CASE ss # <<>>
  <2>. DEFINE L == Len(ss)
              j == Joins(ss)
              P == {n \in 0..(L - 1) : g[n + 1] = j[n + 1]}
  <2>1. /\ j \in [1..L -> Seq(W)] /\ j[1] = ss[1] /\ \A n \in 2..L : j[n] = j[n - 1] \o ss[n]
        /\ FlattenSeq(ss) = j[L]
    BY <1>2, JoinsOf
  <2>2. L \in Nat /\ L >= 1 /\ ss[1] \in Seq(W)
    BY <1>2, LenProperties, EmptySeq
  <2>. HIDE DEF j
  <2>3. 0 \in P
    <3>1. <<>> \o ss[1] = ss[1]
      BY <2>2, ConcatEmptySeq
    <3>2. 1 \in 1..L /\ 1 - 1 = 0
      BY <2>2
    <3>3. g[1] = <<>> \o ss[1]
      BY <3>2
    <3>4. g[0 + 1] = j[0 + 1] /\ 0 \in 0..(L - 1)
      BY <2>1, <2>2, <3>1, <3>3
    <3>q. QED
      BY <3>4
  <2>4. ASSUME NEW n \in 1..(L - 1), n - 1 \in P PROVE n \in P
    <3>1. n + 1 \in 1..L /\ n + 1 \in 2..L /\ (n + 1) - 1 = n /\ (n - 1) + 1 = n
      BY <2>2
    <3>2. g[n + 1] = g[n] \o ss[n + 1] /\ j[n + 1] = j[n] \o ss[n + 1] /\ g[n] = j[n]
      BY <2>1, <2>4, <3>1
    <3>3. n \in 0..(L - 1)
      BY <2>2
    <3>q. QED
      BY <3>2, <3>3
  <2>. HIDE DEF P
  <2>5. 0..(L - 1) \subseteq P
    <3>1. L - 1 \in Nat
      BY <2>2
    <3>q. QED
      BY <2>3, <2>4, <3>1, InductionUpTo
  <2>6. L - 1 \in 0..(L - 1) /\ (L - 1) + 1 = L
    BY <2>2
  <2>q. QED
    BY <2>1, <2>5, <2>6 DEF P
<1>q. QED
  BY <1>1, <1>2

LEMMA FlatHas ==
    ASSUME NEW W, NEW ss \in Seq(Seq(W))
    PROVE  \E g \in [0..Len(ss) -> Seq(W)] :
              /\ g[0] = <<>> /\ \A n \in 1..Len(ss) : g[n] = g[n - 1] \o ss[n]
              /\ FlattenSeq(ss) = g[Len(ss)]
<1>. DEFINE L == Len(ss)
            j == Joins(ss)
            g == [n \in 0..L |-> IF n = 0 THEN <<>> ELSE j[n]]
<1>1. L \in Nat /\ (ss # <<>> => L >= 1) /\ (ss = <<>> => L = 0) /\ <<>> \in Seq(W)
  BY LenProperties, EmptySeq
<1>2. CASE ss = <<>>
  <2>. DEFINE e == [n \in 0..0 |-> <<>>]
  <2>1. L = 0 /\ FlattenSeq(ss) = <<>>
    BY <1>1, <1>2 DEF FlattenSeq
  <2>2. e \in [0..0 -> Seq(W)] /\ e[0] = <<>> /\ \A n \in 1..0 : e[n] = e[n - 1] \o ss[n]
    BY <1>1
  <2>. HIDE DEF e
  <2>q. QED
    BY <2>1, <2>2
<1>3. CASE ss # <<>>
  <2>1. /\ j \in [1..L -> Seq(W)] /\ j[1] = ss[1] /\ \A n \in 2..L : j[n] = j[n - 1] \o ss[n]
        /\ FlattenSeq(ss) = j[L]
    BY <1>3, JoinsOf
  <2>2. ss[1] \in Seq(W) /\ <<>> \o ss[1] = ss[1]
    BY <1>1, <1>3, ConcatEmptySeq, LenProperties
  <2>. HIDE DEF j
  <2>3. g \in [0..L -> Seq(W)] /\ g[0] = <<>> /\ g[L] = j[L]
    <3>1. \A n \in 0..L : n # 0 => n \in 1..L
      BY <1>1
    <3>2. 0 \in 0..L /\ L \in 0..L /\ L # 0
      BY <1>1, <1>3
    <3>. HIDE DEF L
    <3>q. QED
      BY <1>1, <2>1, <3>1, <3>2
  <2>4. ASSUME NEW n \in 1..L PROVE g[n] = g[n - 1] \o ss[n]
    <3>1. n \in 0..L /\ n # 0 /\ n - 1 \in 0..L /\ (n = 1 \/ n \in 2..L) /\ (n \in 2..L => n - 1 # 0)
      BY <1>1
    <3>2. CASE n = 1
      BY <2>1, <2>2, <3>1, <3>2
    <3>3. CASE n \in 2..L
      BY <2>1, <3>1, <3>3
    <3>q. QED
      BY <3>1, <3>2, <3>3
  <2>. HIDE DEF g
  <2>q. QED
    BY <2>1, <2>3, <2>4
<1>q. QED
  BY <1>2, <1>3

LEMMA FlatType ==
    ASSUME NEW W, NEW ss \in Seq(Seq(W))
    PROVE  FlattenSeq(ss) \in Seq(W)
<1>1. PICK g \in [0..Len(ss) -> Seq(W)] : FlattenSeq(ss) = g[Len(ss)]
  BY FlatHas
<1>2. Len(ss) \in 0..Len(ss)
  BY LenProperties
<1>q. QED
  BY <1>1, <1>2

LEMMA FlatOne ==
    ASSUME NEW W, NEW s \in Seq(W)
    PROVE  FlattenSeq(<<s>>) = s
  BY DEF FlattenSeq

LEMMA FlatConcat ==
    ASSUME NEW W, NEW a \in Seq(Seq(W)), NEW b \in Seq(Seq(W))
    PROVE  FlattenSeq(a \o b) = FlattenSeq(a) \o FlattenSeq(b)
<1>. DEFINE M == Len(a)
            N == Len(b)
            c == a \o b
<1>1. /\ M \in Nat /\ N \in Nat /\ c \in Seq(Seq(W)) /\ Len(c) = M + N
      /\ \A i \in 1..(M + N) : c[i] = IF i <= M THEN a[i] ELSE b[i - M]
  BY ConcatProperties, LenProperties
<1>2. PICK f \in [0..M -> Seq(W)] :
        /\ f[0] = <<>> /\ \A n \in 1..M : f[n] = f[n - 1] \o a[n]
        /\ FlattenSeq(a) = f[M]
  BY FlatHas
<1>3. PICK h \in [0..N -> Seq(W)] :
        /\ h[0] = <<>> /\ \A n \in 1..N : h[n] = h[n - 1] \o b[n]
        /\ FlattenSeq(b) = h[N]
  BY FlatHas
<1>4. \A i \in 1..N : b[i] \in Seq(W)
  BY ElementOfSeq
<1>4a. \A x \in Seq(W), y \in Seq(W), z \in Seq(W) : (x \o y) \o z = x \o (y \o z)
  BY ConcatAssociative
<1>4b. \A x \in Seq(W) : x \o <<>> = x
  BY ConcatEmptySeq
<1>. DEFINE Z == Seq(W)
<1>4c. /\ f \in [0..M -> Z] /\ h \in [0..N -> Z] /\ \A i \in 1..N : b[i] \in Z
       /\ \A x \in Z, y \in Z, z \in Z : (x \o y) \o z = x \o (y \o z)
       /\ \A x \in Z : x \o <<>> = x
  BY <1>2, <1>3, <1>4, <1>4a, <1>4b
<1>. HIDE DEF M, N, c, Z
<1>. DEFINE g == [n \in 0..(M + N) |-> IF n <= M THEN f[n] ELSE f[M] \o h[n - M]]
<1>5. g[0] = <<>> /\ g[M] = f[M] /\ \A n \in 0..N : g[M + n] = f[M] \o h[n]
  <2>1. f[M] \in Z /\ f[M] \o <<>> = f[M]
    BY <1>1, <1>4c
  <2>2. 0 \in 0..(M + N) /\ 0 <= M /\ M \in 0..(M + N) /\ M <= M
    BY <1>1
  <2>3. ASSUME NEW n \in 0..N PROVE g[M + n] = f[M] \o h[n]
    <3>1. M + n \in 0..(M + N) /\ (M + n <= M <=> n = 0) /\ (M + n) - M = n /\ (n = 0 => M + n = M)
      BY <1>1
    <3>2. CASE n = 0
      BY <1>3, <2>1, <3>1, <3>2
    <3>3. CASE n # 0
      BY <3>1, <3>3
    <3>q. QED
      BY <3>2, <3>3
  <2>q. QED
    BY <1>2, <2>2, <2>3
<1>6. ASSUME NEW n \in 1..(M + N) PROVE g[n] = g[n - 1] \o c[n]
  <2>1. CASE n <= M
    <3>1. n \in 1..M /\ n \in 0..(M + N) /\ n - 1 \in 0..(M + N) /\ n - 1 <= M
      BY <1>1, <2>1
    <3>q. QED
      BY <1>1, <1>2, <2>1, <3>1
  <2>2. CASE ~(n <= M)
    <3>. DEFINE k == n - M
    <3>1. k \in 1..N /\ k \in 0..N /\ k - 1 \in 0..N /\ n = M + k /\ n - 1 = M + (k - 1) /\ k = n - M
      BY <1>1, <2>2
    <3>. HIDE DEF k
    <3>2. g[n] = f[M] \o h[k] /\ g[n - 1] = f[M] \o h[k - 1] /\ h[k] = h[k - 1] \o b[k]
      BY <1>3, <1>5, <3>1
    <3>3. c[n] = b[k]
      <4>1. c[n] = IF n <= M THEN a[n] ELSE b[n - M]
        BY <1>1
      <4>2. c[n] = b[n - M]
        BY <2>2, <4>1
      <4>q. QED
        BY <3>1, <4>2
    <3>4. f[M] \in Z /\ h[k - 1] \in Z /\ b[k] \in Z
      BY <1>1, <1>4c, <3>1
    <3>5. (f[M] \o h[k - 1]) \o b[k] = f[M] \o (h[k - 1] \o b[k])
      BY <1>4c, <3>4
    <3>q. QED
      BY <3>2, <3>3, <3>5
  <2>q. QED
    BY <2>1, <2>2
<1>. HIDE DEF g
<1>7. FlattenSeq(c) = g[Len(c)]
  <2>1. \A n \in 1..Len(c) : g[n] = g[n - 1] \o c[n]
    BY <1>1, <1>6
  <2>q. QED
    BY <1>1, <1>5, <2>1, FlatIs
<1>8. g[M + N] = f[M] \o h[N]
  <2>1. N \in 0..N
    BY <1>1
  <2>q. QED
    BY <1>5, <2>1
<1>q. QED
  BY <1>1, <1>2, <1>3, <1>7, <1>8 DEF c

\* What is read from the units of a concatenation is what is read from its parts.
Readings(U, W) == [U -> Seq(W)]
Reads(t, y) == FlattenSeq([i \in DOMAIN y |-> t[y[i]]])

LEMMA ReadsOf ==
    ASSUME NEW U, NEW W, NEW t \in Readings(U, W), NEW y \in Seq(U)
    PROVE  /\ [i \in DOMAIN y |-> t[y[i]]] \in Seq(Seq(W))
           /\ Len([i \in DOMAIN y |-> t[y[i]]]) = Len(y)
           /\ Reads(t, y) \in Seq(W)
<1>. DEFINE Z == Seq(W)
            q == [i \in 1..Len(y) |-> t[y[i]]]
<1>. USE DEF Readings
<1>1. Len(y) \in Nat /\ DOMAIN y = 1..Len(y) /\ \A i \in 1..Len(y) : y[i] \in U
  BY LenProperties
<1>2. q \in [1..Len(y) -> Z]
  BY <1>1
<1>. HIDE DEF Z
<1>3. q \in Seq(Z) /\ Len(q) = Len(y)
  <2>. DEFINE n == Len(y)
  <2>1. n \in Nat /\ q \in [1..n -> Z]
    BY <1>1, <1>2
  <2>. HIDE DEF q, n
  <2>2. q \in Seq(Z) /\ Len(q) = n
    BY <2>1
  <2>q. QED
    BY <2>2 DEF n
<1>4. [i \in DOMAIN y |-> t[y[i]]] = q
  BY <1>1
<1>5. FlattenSeq(q) \in Seq(W)
  BY <1>3, FlatType DEF Z
<1>q. QED
  BY <1>3, <1>4, <1>5 DEF Reads, Z

LEMMA ReadsConcat ==
    ASSUME NEW U, NEW W, NEW t \in Readings(U, W), NEW a \in Seq(U), NEW b \in Seq(U)
    PROVE  Reads(t, a \o b) = Reads(t, a) \o Reads(t, b)
<1>. DEFINE Map(y) == [i \in DOMAIN y |-> t[y[i]]]
<1>1. a \o b \in Seq(U) /\ Len(a \o b) = Len(a) + Len(b) /\ Len(a) \in Nat /\ Len(b) \in Nat
      /\ \A i \in 1..(Len(a) + Len(b)) : (a \o b)[i] = IF i <= Len(a) THEN a[i] ELSE b[i - Len(a)]
  BY ConcatProperties, LenProperties
<1>2. \A y \in Seq(U) : Map(y) \in Seq(Seq(W)) /\ Len(Map(y)) = Len(y) /\ \A i \in 1..Len(y) : Map(y)[i] = t[y[i]]
  <2>1. ASSUME NEW y \in Seq(U) PROVE Map(y) \in Seq(Seq(W)) /\ Len(Map(y)) = Len(y)
    <3>1. /\ [i \in DOMAIN y |-> t[y[i]]] \in Seq(Seq(W))
          /\ Len([i \in DOMAIN y |-> t[y[i]]]) = Len(y)
      BY ReadsOf
    <3>q. QED
      BY <3>1
  <2>2. ASSUME NEW y \in Seq(U) PROVE \A i \in 1..Len(y) : Map(y)[i] = t[y[i]]
    BY LenProperties
  <2>q. QED
    BY <2>1, <2>2
<1>. DEFINE A == Map(a)
            B == Map(b)
            C == Map(a \o b)
<1>3. /\ A \in Seq(Seq(W)) /\ Len(A) = Len(a) /\ \A i \in 1..Len(a) : A[i] = t[a[i]]
      /\ B \in Seq(Seq(W)) /\ Len(B) = Len(b) /\ \A i \in 1..Len(b) : B[i] = t[b[i]]
      /\ C \in Seq(Seq(W)) /\ Len(C) = Len(a) + Len(b) /\ \A i \in 1..(Len(a) + Len(b)) : C[i] = t[(a \o b)[i]]
  BY <1>1, <1>2
<1>4. Reads(t, a) = FlattenSeq(A) /\ Reads(t, b) = FlattenSeq(B) /\ Reads(t, a \o b) = FlattenSeq(C)
  BY DEF Reads
<1>. HIDE DEF A, B, C, Map
<1>5. C = A \o B
  <2>. DEFINE Z == Seq(W)
  <2>0. A \in Seq(Z) /\ B \in Seq(Z)
    BY <1>3
  <2>. HIDE DEF Z
  <2>a. /\ A \o B \in Seq(Z) /\ Len(A \o B) = Len(A) + Len(B)
        /\ \A i \in 1..(Len(A) + Len(B)) : (A \o B)[i] = IF i <= Len(A) THEN A[i] ELSE B[i - Len(A)]
    BY <2>0, ConcatProperties
  <2>1. /\ A \o B \in Seq(Seq(W)) /\ Len(A \o B) = Len(a) + Len(b)
        /\ \A i \in 1..(Len(a) + Len(b)) : (A \o B)[i] = IF i <= Len(a) THEN A[i] ELSE B[i - Len(a)]
    BY <1>3, <2>a DEF Z
  <2>2. ASSUME NEW i \in 1..(Len(a) + Len(b)) PROVE C[i] = (A \o B)[i]
    <3>1. CASE i <= Len(a)
      <4>1. i \in 1..Len(a)
        BY <1>1, <3>1
      <4>2. C[i] = t[(a \o b)[i]] /\ (a \o b)[i] = a[i] /\ (A \o B)[i] = A[i]
        BY <1>1, <1>3, <2>1, <3>1
      <4>q. QED
        BY <1>3, <4>1, <4>2
    <3>2. CASE ~(i <= Len(a))
      <4>. DEFINE k == i - Len(a)
      <4>1. k \in 1..Len(b)
        BY <1>1, <3>2
      <4>2. C[i] = t[(a \o b)[i]] /\ (a \o b)[i] = b[k] /\ (A \o B)[i] = B[k]
        BY <1>1, <1>3, <2>1, <3>2
      <4>. HIDE DEF k
      <4>q. QED
        BY <1>3, <4>1, <4>2
    <3>q. QED
      BY <3>1, <3>2
  <2>. DEFINE D == A \o B
  <2>3. D \in Seq(Seq(W)) /\ Len(D) = Len(C) /\ \A i \in 1..Len(C) : C[i] = D[i]
    BY <1>3, <2>1, <2>2
  <2>. HIDE DEF D
  <2>4. C = D
    BY <1>3, <2>3, SeqEqual
  <2>q. QED
    BY <2>4 DEF D
<1>q. QED
  BY <1>3, <1>4, <1>5, FlatConcat

LEMMA ReadsNested ==
    ASSUME NEW U, NEW W, NEW t \in Readings(U, W), NEW x \in Seq(Seq(U))
    PROVE  Reads(t, FlattenSeq(x)) = FlattenSeq([j \in DOMAIN x |-> Reads(t, x[j])])
<1>. DEFINE L == Len(x)
            Z == Seq(U)
            r == [y \in Z |-> Reads(t, y)]
            m == [j \in DOMAIN x |-> r[x[j]]]
<1>0. ASSUME NEW y \in Seq(U), NEW z \in Seq(U) PROVE Reads(t, y \o z) = Reads(t, y) \o Reads(t, z)
  BY ReadsConcat
<1>1. L \in Nat /\ DOMAIN x = 1..L /\ \A n \in 1..L : x[n] \in Z
  BY LenProperties
<1>2. PICK g \in [0..L -> Z] : /\ g[0] = <<>> /\ \A n \in 1..L : g[n] = g[n - 1] \o x[n]
                               /\ FlattenSeq(x) = g[L]
  BY FlatHas
<1>3. r \in Readings(Z, W) /\ \A y \in Z : r[y] = Reads(t, y)
  BY ReadsOf DEF Readings
<1>4. m \in Seq(Seq(W)) /\ Len(m) = L /\ \A n \in 1..L : m[n] = Reads(t, x[n])
  <2>1. x \in Seq(Z)
    OBVIOUS
  <2>. HIDE DEF r, Z
  <2>2. /\ [i \in DOMAIN x |-> r[x[i]]] \in Seq(Seq(W))
        /\ Len([i \in DOMAIN x |-> r[x[i]]]) = Len(x)
    BY <1>3, <2>1, ReadsOf
  <2>q. QED
    BY <1>1, <1>3, <2>2
<1>5. m = [j \in DOMAIN x |-> Reads(t, x[j])]
  BY <1>1, <1>3
<1>. HIDE DEF m, r
<1>. DEFINE G == [n \in 0..L |-> Reads(t, g[n])]
<1>6. G[0] = <<>>
  <2>1. G[0] = Reads(t, <<>>)
    BY <1>1, <1>2
  <2>. DEFINE e == [i \in DOMAIN <<>> |-> t[(<<>>)[i]]]
  <2>2. e = <<>>
    OBVIOUS
  <2>3. Reads(t, <<>>) = FlattenSeq(e)
    BY DEF Reads
  <2>4. FlattenSeq(<<>>) = <<>>
    BY DEF FlattenSeq
  <2>q. QED
    BY <2>1, <2>2, <2>3, <2>4
<1>7. ASSUME NEW n \in 1..L PROVE G[n] = G[n - 1] \o m[n]
  <2>0. n \in 0..L /\ n - 1 \in 0..L
    BY <1>1
  <2>a. g \in [0..L -> Z] /\ g[n] = g[n - 1] \o x[n] /\ x[n] \in Z
    BY <1>1, <1>2
  <2>1. n \in 0..L /\ n - 1 \in 0..L /\ g[n] = g[n - 1] \o x[n] /\ g[n - 1] \in Z /\ x[n] \in Z
    <3>. HIDE DEF Z, L
    <3>q. QED
      BY <2>0, <2>a
  <2>2. Reads(t, g[n - 1] \o x[n]) = Reads(t, g[n - 1]) \o Reads(t, x[n])
    <3>. DEFINE y == g[n - 1]
                z == x[n]
    <3>1. y \in Seq(U) /\ z \in Seq(U)
      BY <2>1
    <3>. HIDE DEF y, z
    <3>2. Reads(t, y \o z) = Reads(t, y) \o Reads(t, z)
      BY <1>0, <3>1
    <3>q. QED
      BY <3>2 DEF y, z
  <2>3. G[n] = Reads(t, g[n]) /\ G[n - 1] = Reads(t, g[n - 1])
    BY <2>1
  <2>q. QED
    BY <1>4, <2>1, <2>2, <2>3
<1>8. G[L] = Reads(t, FlattenSeq(x))
  BY <1>1, <1>2
<1>. HIDE DEF G, L, Z
<1>9. FlattenSeq(m) = G[Len(m)]
  <2>1. \A n \in 1..Len(m) : G[n] = G[n - 1] \o m[n]
    BY <1>4, <1>7
  <2>q. QED
    BY <1>4, <1>6, <2>1, FlatIs
<1>q. QED
  BY <1>4, <1>5, <1>8, <1>9

(***************************************************************************)
(* Chunking: pieces that tile a range.                                     *)
(***************************************************************************)
Pieces == [lo : Int, hi : Int, alone : BOOLEAN]

LEMMA TilesWithin ==
    ASSUME NEW lo \in Int, NEW hi \in Int, NEW ps \in Seq(Pieces), Tiles(ps, lo, hi)
    PROVE  /\ \A i \in 1..Len(ps) : /\ ps[i] \in Pieces /\ lo <= ps[i].lo /\ ps[i].lo <= ps[i].hi /\ ps[i].hi <= hi
                                    /\ ps[i].lo = IF i = 1 THEN lo ELSE ps[i - 1].hi + 1
           /\ (ps = <<>> <=> Len(ps) = 0) /\ (ps = <<>> <=> hi = lo - 1)
           /\ ps # <<>> => ps[Len(ps)].hi = hi /\ lo <= hi
<1>. DEFINE L == Len(ps)
<1>1. L \in Nat /\ DOMAIN ps = 1..L /\ (ps = <<>> <=> L = 0)
  BY LenProperties, EmptySeq
<1>2. \A i \in 1..L : ps[i] \in Pieces
  BY ElementOfSeq
<1>3. \A i \in 1..L : ps[i].lo \in Int /\ ps[i].hi \in Int /\ ps[i].lo <= ps[i].hi
  BY <1>1, <1>2 DEF Tiles, Pieces
<1>4. /\ \A i \in 1..L : ps[i].lo = IF i = 1 THEN lo ELSE ps[i - 1].hi + 1
      /\ ps = <<>> => hi = lo - 1
      /\ ps # <<>> => hi = ps[L].hi
  BY <1>1 DEF Tiles
<1>. HIDE DEF L
<1>5. \A i \in 1..L : lo <= ps[i].lo
  <2>. DEFINE P == {n \in 0..L : n = 0 \/ lo <= ps[n].lo}
  <2>1. 0 \in P
    BY <1>1
  <2>2. ASSUME NEW n \in 1..L, n - 1 \in P PROVE n \in P
    <3>1. CASE n = 1
      BY <1>4, <3>1
    <3>2. CASE n # 1
      <4>. DEFINE m == n - 1
      <4>1. m \in 1..L /\ m # 0 /\ m \in P
        BY <1>1, <2>2, <3>2
      <4>2. ps[n].lo = ps[m].hi + 1
        BY <1>4, <3>2
      <4>. HIDE DEF m
      <4>3. lo <= ps[m].lo /\ ps[m].lo <= ps[m].hi /\ ps[m].lo \in Int /\ ps[m].hi \in Int
        BY <1>3, <4>1
      <4>4. lo <= ps[n].lo
        BY <4>2, <4>3
      <4>q. QED
        BY <4>4, <1>1
    <3>q. QED
      BY <3>1, <3>2
  <2>. HIDE DEF P
  <2>3. 0..L \subseteq P
    BY <1>1, <2>1, <2>2, InductionUpTo
  <2>4. \A i \in 1..L : i \in 0..L /\ i # 0
    BY <1>1
  <2>q. QED
    BY <2>3, <2>4 DEF P
<1>6. \A i \in 1..L : ps[i].hi <= hi
  <2>. DEFINE P == {n \in 0..L : n = L \/ ps[L - n].hi <= hi}
  <2>1. 0 \in P
    <3>1. L - 0 = L
      BY <1>1
    <3>2. CASE L = 0
      BY <3>2
    <3>3. CASE L # 0
      <4>1. L \in 1..L /\ ps[L].hi = hi
        BY <1>1, <1>4, <3>3
      <4>2. ps[L].hi \in Int
        BY <1>3, <4>1
      <4>q. QED
        BY <1>1, <3>1, <4>1, <4>2
    <3>q. QED
      BY <3>2, <3>3
  <2>2. ASSUME NEW n \in 1..L, n - 1 \in P PROVE n \in P
    <3>1. CASE n = L
      BY <3>1, <1>1
    <3>2. CASE n # L
      <4>. DEFINE m == L - n
      <4>1. m \in 1..L /\ m + 1 \in 1..L /\ m + 1 # 1 /\ (m + 1) - 1 = m /\ L - (n - 1) = m + 1 /\ n - 1 # L
        BY <1>1, <3>2
      <4>2. ps[m + 1].hi <= hi
        BY <2>2, <4>1
      <4>. HIDE DEF m
      <4>3. ps[m + 1].lo = ps[m].hi + 1
        BY <1>4, <4>1
      <4>4. ps[m].hi \in Int /\ ps[m + 1].lo \in Int /\ ps[m + 1].hi \in Int /\ ps[m + 1].lo <= ps[m + 1].hi
        BY <1>3, <4>1
      <4>5. ps[m].hi <= hi
        BY <4>2, <4>3, <4>4
      <4>q. QED
        BY <1>1, <4>5 DEF m
    <3>q. QED
      BY <3>1, <3>2
  <2>. HIDE DEF P
  <2>3. 0..L \subseteq P
    BY <1>1, <2>1, <2>2, InductionUpTo
  <2>4. \A i \in 1..L : L - i \in 0..L /\ L - i # L /\ L - (L - i) = i
    BY <1>1
  <2>q. QED
    BY <2>3, <2>4 DEF P
<1>7. ps # <<>> => lo <= hi /\ hi # lo - 1
  <2>. SUFFICES ASSUME ps # <<>> PROVE lo <= hi /\ hi # lo - 1
    OBVIOUS
  <2>1. L \in 1..L
    BY <1>1
  <2>2. lo <= ps[L].lo /\ ps[L].lo <= ps[L].hi /\ ps[L].lo \in Int /\ ps[L].hi \in Int /\ ps[L].hi <= hi
    BY <1>3, <1>5, <1>6, <2>1
  <2>q. QED
    BY <2>2
<1>q. QED
  BY <1>1, <1>2, <1>3, <1>4, <1>5, <1>6, <1>7 DEF L

LEMMA TilesAppend ==
    ASSUME NEW lo \in Int, NEW m \in Int, NEW ps \in Seq(Pieces), Tiles(ps, lo, m - 1),
           NEW p \in Pieces, p.lo = m, p.lo <= p.hi
    PROVE  /\ Append(ps, p) \in Seq(Pieces) /\ Tiles(Append(ps, p), lo, p.hi)
           /\ \A i \in DOMAIN Append(ps, p) : Append(ps, p)[i] = p \/ \E j \in DOMAIN ps : Append(ps, p)[i] = ps[j]
<1>. DEFINE L == Len(ps)
            q == Append(ps, p)
<1>1. L \in Nat /\ DOMAIN ps = 1..L /\ (ps = <<>> <=> L = 0)
  BY LenProperties, EmptySeq
<1>2. /\ q \in Seq(Pieces) /\ q # <<>> /\ Len(q) = L + 1 /\ \A i \in 1..L : q[i] = ps[i]
      /\ q[L + 1] = p
  BY AppendProperties
<1>3. DOMAIN q = 1..(L + 1)
  BY <1>2, LenProperties
<1>4. /\ \A i \in 1..L : ps[i].lo <= ps[i].hi
      /\ \A i \in 1..L : ps[i].lo = IF i = 1 THEN lo ELSE ps[i - 1].hi + 1
      /\ L = 0 => m - 1 = lo - 1
      /\ L # 0 => m - 1 = ps[L].hi
  BY <1>1 DEF Tiles
<1>5. \A i \in 1..L : ps[i].hi \in Int
  <2>1. \A i \in 1..L : ps[i] \in Pieces
    BY ElementOfSeq
  <2>q. QED
    BY <2>1 DEF Pieces
<1>. HIDE DEF L, q
<1>6. ASSUME NEW i \in 1..(L + 1)
      PROVE  /\ q[i].lo <= q[i].hi /\ q[i].lo = IF i = 1 THEN lo ELSE q[i - 1].hi + 1
             /\ q[i] = p \/ \E j \in 1..L : q[i] = ps[j]
  <2>1. CASE i \in 1..L
    <3>1. i # 1 => i - 1 \in 1..L
      BY <1>1, <2>1
    <3>q. QED
      BY <1>2, <1>4, <2>1, <3>1
  <2>2. CASE i = L + 1
    <3>1. CASE L = 0
      BY <1>2, <1>4, <2>2, <3>1
    <3>2. CASE L # 0
      <4>1. L \in 1..L /\ i # 1 /\ i - 1 = L
        BY <1>1, <2>2, <3>2
      <4>2. q[i] = p /\ q[i - 1] = ps[L] /\ ps[L].hi = m - 1 /\ ps[L].hi \in Int
        BY <1>2, <1>4, <1>5, <2>2, <3>2, <4>1
      <4>3. ps[L].hi + 1 = m
        BY <4>2
      <4>q. QED
        BY <4>1, <4>2, <4>3
    <3>q. QED
      BY <3>1, <3>2
  <2>q. QED
    BY <1>1, <2>1, <2>2
<1>7. Tiles(q, lo, p.hi)
  <2>1. p.hi = IF q = <<>> THEN lo - 1 ELSE q[Len(q)].hi
    BY <1>2
  <2>q. QED
    BY <1>3, <1>6, <2>1 DEF Tiles
<1>q. QED
  BY <1>1, <1>2, <1>3, <1>6, <1>7 DEF q

\* What is read of adjacent ranges one after the other is read of their union.
Additive(h, lo, hi) == \A m \in lo..hi, k \in lo..hi : m < k => h[lo][m] \o h[m + 1][k] = h[lo][k]

\* y reads the pieces of ps one by one.
Follows(y, ps, h) == Len(y) = Len(ps) /\ \A i \in 1..Len(ps) : y[i] = h[ps[i].lo][ps[i].hi]

LEMMA TilesFlat ==
    ASSUME NEW W, NEW lo \in Int, NEW hi \in Int, lo <= hi, NEW ps \in Seq(Pieces), Tiles(ps, lo, hi),
           NEW h, Additive(h, lo, hi), NEW y \in Seq(Seq(W)), Follows(y, ps, h)
    PROVE  FlattenSeq(y) = h[lo][hi]
<1>. DEFINE L == Len(ps)
            g == [n \in 0..L |-> IF n = 0 THEN <<>> ELSE h[lo][ps[n].hi]]
<1>0. Len(y) = Len(ps) /\ \A i \in 1..Len(ps) : y[i] = h[ps[i].lo][ps[i].hi]
  BY DEF Follows
<1>1. L \in Nat /\ L # 0
  <2>1. Len(ps) \in Nat
    BY LenProperties
  <2>2. Len(ps) = 0 => hi = lo - 1
    BY TilesWithin
  <2>q. QED
    BY <2>1, <2>2
<1>2. /\ \A i \in 1..L : /\ ps[i] \in Pieces /\ lo <= ps[i].lo /\ ps[i].lo <= ps[i].hi /\ ps[i].hi <= hi
                         /\ ps[i].lo = IF i = 1 THEN lo ELSE ps[i - 1].hi + 1
      /\ ps[L].hi = hi
  <2>1. (ps = <<>> <=> Len(ps) = 0) /\ (ps # <<>> => ps[Len(ps)].hi = hi)
    BY TilesWithin
  <2>2. \A i \in 1..Len(ps) : /\ ps[i] \in Pieces /\ lo <= ps[i].lo /\ ps[i].lo <= ps[i].hi /\ ps[i].hi <= hi
                              /\ ps[i].lo = IF i = 1 THEN lo ELSE ps[i - 1].hi + 1
    BY TilesWithin
  <2>q. QED
    BY <1>1, <2>1, <2>2
<1>3. \A i \in 1..L : ps[i].lo \in Int /\ ps[i].hi \in Int
  BY <1>2 DEF Pieces
<1>. HIDE DEF L
<1>4. g[0] = <<>> /\ g[L] = h[lo][hi]
  <2>1. 0 \in 0..L /\ L \in 0..L
    BY <1>1
  <2>q. QED
    BY <1>1, <1>2, <2>1
<1>5. ASSUME NEW n \in 1..L PROVE g[n] = g[n - 1] \o y[n]
  <2>1. g[n] = h[lo][ps[n].hi] /\ y[n] = h[ps[n].lo][ps[n].hi]
    <3>1. n \in 0..L /\ n # 0
      BY <1>1
    <3>2. g[n] = h[lo][ps[n].hi]
      BY <3>1
    <3>3. n \in 1..Len(ps)
      BY DEF L
    <3>. HIDE DEF g
    <3>4. y[n] = h[ps[n].lo][ps[n].hi]
      BY ONLY <1>0, <3>3
    <3>q. QED
      BY <3>2, <3>4
  <2>2. CASE n = 1
    <3>1. n - 1 = 0 /\ ps[n].lo = lo
      <4>1. ps[n].lo = IF n = 1 THEN lo ELSE ps[n - 1].hi + 1
        BY <1>2
      <4>. HIDE DEF g
      <4>q. QED
        BY ONLY <2>2, <4>1
    <3>2. y[n] \in Seq(W)
      <4>. DEFINE Z == Seq(W)
      <4>1. n \in 1..Len(y)
        BY <1>0 DEF L
      <4>2. y \in Seq(Z)
        OBVIOUS
      <4>. HIDE DEF Z
      <4>3. y[n] \in Z
        BY <4>1, <4>2, ElementOfSeq
      <4>q. QED
        BY <4>3 DEF Z
    <3>3. <<>> \o y[n] = y[n]
      BY <3>2, ConcatEmptySeq
    <3>q. QED
      BY <1>4, <2>1, <3>1, <3>3
  <2>3. CASE n # 1
    <3>. DEFINE m == ps[n - 1].hi
                k == ps[n].hi
    <3>1. n - 1 \in 1..L /\ n - 1 \in 0..L /\ n - 1 # 0
      BY <1>1, <2>3
    <3>2. g[n - 1] = h[lo][m] /\ ps[n].lo = m + 1
      BY <1>2, <2>3, <3>1
    <3>3. m \in Int /\ k \in Int /\ lo <= m /\ m <= hi /\ m < k /\ k <= hi
      <4>1. lo <= ps[n - 1].lo /\ ps[n - 1].lo <= m /\ m <= hi /\ ps[n].lo <= k /\ k <= hi
        BY <1>2, <3>1
      <4>2. ps[n - 1].lo \in Int /\ m \in Int /\ k \in Int /\ ps[n].lo \in Int
        BY <1>3, <3>1
      <4>. HIDE DEF m, k
      <4>q. QED
        BY <3>2, <4>1, <4>2
    <3>. HIDE DEF m, k
    <3>4. m \in lo..hi /\ k \in lo..hi
      BY <3>3
    <3>5. h[lo][m] \o h[m + 1][k] = h[lo][k]
      BY <3>3, <3>4 DEF Additive
    <3>q. QED
      BY <2>1, <3>2, <3>5 DEF k
  <2>q. QED
    BY <2>2, <2>3
<1>. HIDE DEF g
<1>6. FlattenSeq(y) = g[Len(y)]
  <2>1. Len(y) = L /\ \A n \in 1..Len(y) : g[n] = g[n - 1] \o y[n]
    BY <1>0, <1>5 DEF L
  <2>q. QED
    BY <1>4, <2>1, FlatIs
<1>q. QED
  BY <1>0, <1>4, <1>6 DEF L

(***************************************************************************)
(* Chunking: what the greedy loop cuts.                                    *)
(***************************************************************************)
Cuts == [out : Seq(Pieces), from : Int]
Flush(s, k) == IF s.from = k THEN s.out ELSE Append(s.out, Piece(s.from, k - 1, FALSE))
Take(s, k, alone, before, after) ==
    IF <<s.from, k>> \in alone
    THEN [out |-> Append(Flush(s, k), Piece(k, k, TRUE)), from |-> k + 1]
    ELSE IF <<s.from, k>> \in before
    THEN [out |-> Flush(s, k), from |-> k]
    ELSE IF <<s.from, k>> \in after
    THEN [out |-> Append(s.out, Piece(s.from, k, FALSE)), from |-> k + 1]
    ELSE s

\* What a piece owes to the conditions of the loop, and so does the buffer.
Joined(lo, hi, start, alone, before) ==
    /\ \E f \in lo..start : <<f, start>> \notin alone
    /\ \A k \in (start + 1)..hi : <<start, k>> \notin alone /\ <<start, k>> \notin before
Earned(p, lo, alone, before) ==
    /\ p.alone => p.lo = p.hi /\ \E f \in lo..p.lo : <<f, p.lo>> \in alone
    /\ ~p.alone => Joined(lo, p.hi, p.lo, alone, before)

CutSound(out, lo, k, alone, before) ==
    /\ out \in Seq(Pieces) /\ Tiles(out, lo, k)
    /\ \A i \in DOMAIN out : Earned(out[i], lo, alone, before)
ScanSound(s, lo, k, alone, before) ==
    /\ s \in Cuts /\ s.from \in lo..(k + 1)
    /\ CutSound(s.out, lo, s.from - 1, alone, before)
    /\ s.from <= k => Joined(lo, k, s.from, alone, before)

LEMMA CutAppend ==
    ASSUME NEW lo \in Int, NEW k \in Int, NEW alone, NEW before, NEW out,
           CutSound(out, lo, k - 1, alone, before),
           NEW p \in Pieces, p.lo = k, p.lo <= p.hi, Earned(p, lo, alone, before)
    PROVE  CutSound(Append(out, p), lo, p.hi, alone, before)
<1>1. out \in Seq(Pieces) /\ Tiles(out, lo, k - 1) /\ \A i \in DOMAIN out : Earned(out[i], lo, alone, before)
  BY DEF CutSound
<1>2. /\ Append(out, p) \in Seq(Pieces) /\ Tiles(Append(out, p), lo, p.hi)
      /\ \A i \in DOMAIN Append(out, p) : Append(out, p)[i] = p \/ \E j \in DOMAIN out : Append(out, p)[i] = out[j]
  BY <1>1, TilesAppend
<1>3. \A i \in DOMAIN Append(out, p) : Earned(Append(out, p)[i], lo, alone, before)
  BY <1>1, <1>2
<1>q. QED
  BY <1>2, <1>3 DEF CutSound

LEMMA FlushSound ==
    ASSUME NEW lo \in Int, NEW k \in Int, NEW alone, NEW before, NEW s,
           ScanSound(s, lo, k - 1, alone, before)
    PROVE  CutSound(Flush(s, k), lo, k - 1, alone, before)
<1>1. s.from \in Int /\ lo <= s.from /\ s.from <= k /\ CutSound(s.out, lo, s.from - 1, alone, before)
  BY DEF ScanSound, Cuts
<1>2. CASE s.from = k
  BY <1>1, <1>2 DEF Flush
<1>3. CASE s.from # k
  <2>. DEFINE p == Piece(s.from, k - 1, FALSE)
  <2>1. p \in Pieces /\ p.lo = s.from /\ p.hi = k - 1 /\ ~p.alone /\ p.lo <= p.hi
    BY <1>1, <1>3 DEF Piece, Pieces
  <2>2. Joined(lo, k - 1, s.from, alone, before)
    BY <1>1, <1>3 DEF ScanSound
  <2>3. Flush(s, k) = Append(s.out, p)
    BY <1>3 DEF Flush
  <2>. HIDE DEF p
  <2>4. Earned(p, lo, alone, before)
    BY <2>1, <2>2 DEF Earned
  <2>q. QED
    BY <1>1, <2>1, <2>3, <2>4, CutAppend
<1>q. QED
  BY <1>2, <1>3

LEMMA TakeSound ==
    ASSUME NEW lo \in Int, NEW k \in Int, lo <= k, NEW alone, NEW before, NEW after, NEW s,
           ScanSound(s, lo, k - 1, alone, before)
    PROVE  ScanSound(Take(s, k, alone, before, after), lo, k, alone, before)
<1>. DEFINE r == Take(s, k, alone, before, after)
<1>1. /\ s \in Cuts /\ s.from \in Int /\ lo <= s.from /\ s.from <= k
      /\ CutSound(s.out, lo, s.from - 1, alone, before) /\ s.out \in Seq(Pieces)
      /\ s.from < k => Joined(lo, k - 1, s.from, alone, before)
  BY DEF ScanSound, Cuts
<1>2. CutSound(Flush(s, k), lo, k - 1, alone, before) /\ Flush(s, k) \in Seq(Pieces)
  BY FlushSound DEF CutSound
<1>3. CASE <<s.from, k>> \in alone
  <2>. DEFINE p == Piece(k, k, TRUE)
              out == Append(Flush(s, k), p)
  <2>1. p \in Pieces /\ p.lo = k /\ p.hi = k /\ p.alone
    BY DEF Piece, Pieces
  <2>2. r = [out |-> out, from |-> k + 1]
    BY <1>3 DEF Take
  <2>. HIDE DEF p
  <2>3. Earned(p, lo, alone, before)
    <3>1. s.from \in lo..k
      BY <1>1
    <3>q. QED
      BY <1>3, <2>1, <3>1 DEF Earned
  <2>4. CutSound(out, lo, k, alone, before)
    <3>1. p.lo <= p.hi
      BY <2>1
    <3>2. CutSound(Append(Flush(s, k), p), lo, p.hi, alone, before)
      BY <1>2, <2>1, <2>3, <3>1, CutAppend
    <3>q. QED
      BY <2>1, <3>2
  <2>. HIDE DEF out, r
  <2>5. r \in Cuts /\ r.out = out /\ r.from = k + 1
    BY <2>2, <2>4 DEF Cuts, CutSound
  <2>6. r.from \in lo..(k + 1) /\ r.from - 1 = k /\ ~(r.from <= k)
    BY <2>5
  <2>q. QED
    BY <2>4, <2>5, <2>6 DEF ScanSound, r
<1>4. CASE <<s.from, k>> \notin alone /\ <<s.from, k>> \in before
  <2>. DEFINE out == Flush(s, k)
  <2>1. r = [out |-> out, from |-> k]
    BY <1>4 DEF Take
  <2>2. CutSound(out, lo, k - 1, alone, before)
    BY <1>2
  <2>. HIDE DEF out, r
  <2>3. r \in Cuts /\ r.out = out /\ r.from = k
    BY <2>1, <2>2 DEF Cuts, CutSound
  <2>4. Joined(lo, k, k, alone, before)
    <3>1. s.from \in lo..k
      BY <1>1
    <3>2. (k + 1)..k = {}
      OBVIOUS
    <3>q. QED
      BY <1>4, <3>1, <3>2 DEF Joined
  <2>5. r.from \in lo..(k + 1)
    BY <2>3
  <2>q. QED
    BY <2>2, <2>3, <2>4, <2>5 DEF ScanSound, r
<1>5. ASSUME <<s.from, k>> \notin alone, <<s.from, k>> \notin before PROVE Joined(lo, k, s.from, alone, before)
  <2>1. CASE s.from = k
    <3>1. s.from \in lo..k /\ (k + 1)..k = {}
      BY <1>1
    <3>q. QED
      BY <1>5, <2>1, <3>1 DEF Joined
  <2>2. CASE s.from # k
    <3>1. Joined(lo, k - 1, s.from, alone, before)
      BY <1>1, <2>2
    <3>2. \A j \in (s.from + 1)..k : j = k \/ j \in (s.from + 1)..(k - 1)
      BY <1>1
    <3>q. QED
      BY <1>5, <3>1, <3>2 DEF Joined
  <2>q. QED
    BY <2>1, <2>2
<1>6. CASE <<s.from, k>> \notin alone /\ <<s.from, k>> \notin before /\ <<s.from, k>> \in after
  <2>. DEFINE p == Piece(s.from, k, FALSE)
              out == Append(s.out, p)
  <2>1. p \in Pieces /\ p.lo = s.from /\ p.hi = k /\ ~p.alone /\ p.lo <= p.hi
    BY <1>1 DEF Piece, Pieces
  <2>2. r = [out |-> out, from |-> k + 1]
    BY <1>6 DEF Take
  <2>. HIDE DEF p
  <2>3. Earned(p, lo, alone, before)
    BY <1>5, <1>6, <2>1 DEF Earned
  <2>4. CutSound(out, lo, k, alone, before)
    <3>1. CutSound(Append(s.out, p), lo, p.hi, alone, before)
      BY <1>1, <2>1, <2>3, CutAppend
    <3>q. QED
      BY <2>1, <3>1
  <2>. HIDE DEF out, r
  <2>5. r \in Cuts /\ r.out = out /\ r.from = k + 1
    BY <2>2, <2>4 DEF Cuts, CutSound
  <2>6. r.from \in lo..(k + 1) /\ r.from - 1 = k /\ ~(r.from <= k)
    BY <2>5
  <2>q. QED
    BY <2>4, <2>5, <2>6 DEF ScanSound, r
<1>7. CASE <<s.from, k>> \notin alone /\ <<s.from, k>> \notin before /\ <<s.from, k>> \notin after
  <2>1. r = s
    BY <1>7 DEF Take
  <2>2. s.from \in lo..(k + 1)
    BY <1>1
  <2>q. QED
    BY <1>1, <1>5, <1>7, <2>1, <2>2 DEF ScanSound
<1>q. QED
  BY <1>3, <1>4, <1>6, <1>7

Scan(lo, hi, alone, before, after) ==
    LET scan[n \in 0..(hi - lo + 1)] ==
          IF n = 0 THEN [out |-> <<>>, from |-> lo] ELSE Take(scan[n - 1], lo + n - 1, alone, before, after)
    IN  scan

LEMMA ScanOf ==
    ASSUME NEW lo \in Int, NEW hi \in Int, lo <= hi + 1, NEW alone, NEW before, NEW after
    PROVE  LET g == Scan(lo, hi, alone, before, after)
           IN  /\ g[0] = [out |-> <<>>, from |-> lo]
               /\ \A n \in 1..(hi - lo + 1) : g[n] = Take(g[n - 1], lo + n - 1, alone, before, after)
               /\ Cut(lo, hi, alone, before, after) = Flush(g[hi - lo + 1], hi + 1)
<1>. DEFINE L == hi - lo + 1
            T(s, n) == Take(s, lo + n - 1, alone, before, after)
            b == [out |-> <<>>, from |-> lo]
            F == [n \in 1..L |-> [s \in Cuts |-> T(s, n)]]
            Scanned(f) == [n \in 0..L |-> IF n = 0 THEN b ELSE T(f[n - 1], n)]
            g == Scan(lo, hi, alone, before, after)
<1>1. L \in Nat /\ b \in Cuts
  BY EmptySeq DEF Cuts
<1>2. g = CHOOSE f : f = Scanned(f)
  BY DEF Scan
<1>3. Cut(lo, hi, alone, before, after) = Flush(g[L], hi + 1)
  BY DEF Cut, Scan, Flush, Take
<1>4. ASSUME NEW s \in Cuts, NEW n \in 1..L PROVE T(s, n) \in Cuts
  <2>. DEFINE k == lo + n - 1
  <2>1. k \in Int /\ s.out \in Seq(Pieces) /\ s.from \in Int
    BY <1>1 DEF Cuts
  <2>2. \A x \in Int, y \in Int, z \in BOOLEAN : Piece(x, y, z) \in Pieces
    BY DEF Piece, Pieces
  <2>. HIDE DEF k
  <2>3. \A q \in Seq(Pieces), p \in Pieces : Append(q, p) \in Seq(Pieces)
    BY AppendProperties
  <2>4. Flush(s, k) \in Seq(Pieces)
    <3>1. Piece(s.from, k - 1, FALSE) \in Pieces
      <4>1. k - 1 \in Int /\ s.from \in Int /\ FALSE \in BOOLEAN
        BY <2>1
      <4>q. QED
        BY <2>2, <4>1
    <3>q. QED
      BY <2>1, <2>3, <3>1 DEF Flush
  <2>5. Append(Flush(s, k), Piece(k, k, TRUE)) \in Seq(Pieces) /\ Append(s.out, Piece(s.from, k, FALSE)) \in Seq(Pieces)
    BY <2>1, <2>2, <2>3, <2>4
  <2>6. Take(s, k, alone, before, after) \in Cuts
    <3>1. \A q \in Seq(Pieces), j \in Int : [out |-> q, from |-> j] \in Cuts
      BY DEF Cuts
    <3>2. k + 1 \in Int
      BY <2>1
    <3>q. QED
      BY <2>1, <2>4, <2>5, <3>1, <3>2 DEF Take
  <2>q. QED
    BY <2>6 DEF k
<1>. HIDE DEF L, T, b, g
<1>5. F \in [1..L -> [Cuts -> Cuts]] /\ \A n \in 1..L : \A s \in Cuts : F[n][s] = T(s, n)
  <2>. DEFINE Z == Cuts
  <2>1. \A s \in Z, n \in 1..L : T(s, n) \in Z
    BY <1>4
  <2>2. F = [n \in 1..L |-> [s \in Z |-> T(s, n)]]
    OBVIOUS
  <2>. HIDE DEF Z, F
  <2>3. F \in [1..L -> [Z -> Z]] /\ \A n \in 1..L : \A s \in Z : F[n][s] = T(s, n)
    BY <2>1, <2>2
  <2>q. QED
    BY <2>3 DEF Z
<1>. HIDE DEF F
<1>6. PICK f : f \in Run(F, Cuts, b, L)
  <2>1. Run(F, Cuts, b, L) # {}
    BY <1>1, <1>5, Iteration
  <2>q. QED
    BY <2>1
<1>7. f \in [0..L -> Cuts] /\ f[0] = b /\ \A n \in 1..L : f[n] = F[n][f[n - 1]]
  BY <1>6 DEF Run
<1>8. f = Scanned(f)
  <2>1. ASSUME NEW n \in 0..L, n # 0 PROVE f[n] = T(f[n - 1], n)
    <3>1. n \in 1..L /\ n - 1 \in 0..L
      BY <1>1, <2>1
    <3>2. f[n - 1] \in Cuts
      BY <1>7, <3>1
    <3>q. QED
      BY <1>5, <1>7, <3>1, <3>2
  <2>2. f = [n \in 0..L |-> f[n]] /\ f[0] = b
    BY <1>7
  <2>3. \A n \in 0..L : f[n] = IF n = 0 THEN b ELSE T(f[n - 1], n)
    BY <2>1, <2>2
  <2>q. QED
    BY <2>2, <2>3
<1>9. g = Scanned(g)
  BY <1>2, <1>8
<1>10. g[0] = b /\ \A n \in 1..L : g[n] = T(g[n - 1], n)
  <2>1. 0 \in 0..L /\ \A n \in 1..L : n \in 0..L /\ n # 0
    BY <1>1
  <2>q. QED
    BY <1>9, <2>1
<1>q. QED
  BY <1>3, <1>10 DEF L, T, b, g

LEMMA CutOf ==
    ASSUME NEW lo \in Int, NEW hi \in Int, lo <= hi + 1, NEW alone, NEW before, NEW after
    PROVE  CutSound(Cut(lo, hi, alone, before, after), lo, hi, alone, before)
<1>. DEFINE L == hi - lo + 1
            g == Scan(lo, hi, alone, before, after)
            P == {n \in 0..L : ScanSound(g[n], lo, lo + n - 1, alone, before)}
<1>1. L \in Nat
  OBVIOUS
<1>2. /\ g[0] = [out |-> <<>>, from |-> lo]
      /\ \A n \in 1..L : g[n] = Take(g[n - 1], lo + n - 1, alone, before, after)
      /\ Cut(lo, hi, alone, before, after) = Flush(g[L], hi + 1)
  BY ScanOf
<1>. HIDE DEF g
<1>3. 0 \in P
  <2>1. g[0] \in Cuts /\ g[0].out = <<>> /\ g[0].from = lo
    BY <1>2, EmptySeq DEF Cuts
  <2>2. <<>> \in Seq(Pieces) /\ DOMAIN <<>> = {}
    BY EmptySeq
  <2>3. Tiles(<<>>, lo, lo - 1)
    BY <2>2 DEF Tiles
  <2>4. CutSound(<<>>, lo, lo - 1, alone, before)
    BY <2>2, <2>3 DEF CutSound
  <2>5. ScanSound(g[0], lo, lo - 1, alone, before)
    BY <2>1, <2>4 DEF ScanSound
  <2>6. lo + 0 - 1 = lo - 1
    OBVIOUS
  <2>q. QED
    BY <1>1, <2>5, <2>6
<1>4. ASSUME NEW n \in 1..L, n - 1 \in P PROVE n \in P
  <2>. DEFINE k == lo + n - 1
              s == g[n - 1]
  <2>1. k \in Int /\ lo <= k /\ lo + (n - 1) - 1 = k - 1
    BY <1>1
  <2>2. ScanSound(s, lo, k - 1, alone, before)
    BY <1>4, <2>1
  <2>3. g[n] = Take(s, k, alone, before, after)
    BY <1>2
  <2>. HIDE DEF s, k
  <2>4. ScanSound(g[n], lo, k, alone, before)
    BY <2>1, <2>2, <2>3, TakeSound
  <2>q. QED
    BY <1>1, <2>4 DEF k
<1>. HIDE DEF P, L
<1>5. 0..L \subseteq P
  BY <1>1, <1>3, <1>4, InductionUpTo
<1>6. ScanSound(g[L], lo, (hi + 1) - 1, alone, before)
  <2>1. lo + L - 1 = (hi + 1) - 1
    BY DEF L
  <2>2. L \in P
    BY <1>1, <1>5
  <2>3. ScanSound(g[L], lo, lo + L - 1, alone, before)
    BY <2>2 DEF P
  <2>q. QED
    BY <2>1, <2>3
<1>7. CutSound(Flush(g[L], hi + 1), lo, (hi + 1) - 1, alone, before)
  <2>1. hi + 1 \in Int
    OBVIOUS
  <2>. DEFINE m == hi + 1
              s == g[L]
  <2>2. m \in Int /\ ScanSound(s, lo, m - 1, alone, before)
    BY <1>6, <2>1
  <2>. HIDE DEF m, s
  <2>3. CutSound(Flush(s, m), lo, m - 1, alone, before)
    BY <2>2, FlushSound
  <2>q. QED
    BY <2>3 DEF m, s
<1>8. (hi + 1) - 1 = hi
  OBVIOUS
<1>q. QED
  BY <1>2, <1>7, <1>8

(***************************************************************************)
(* Chunking: what a block is split into.                                   *)
(***************************************************************************)
Texts == Seq(Seq(Nat))

LEMMA SeqFrom ==
    ASSUME NEW Z, NEW n \in Nat, NEW q, q = [i \in 1..n |-> q[i]], \A i \in 1..n : q[i] \in Z
    PROVE  q \in Seq(Z) /\ Len(q) = n /\ DOMAIN q = 1..n
<1>1. q \in [1..n -> Z]
  OBVIOUS
<1>2. q \in Seq(Z) /\ Len(q) = n
  BY <1>1
<1>q. QED
  BY <1>1, <1>2

LEMMA SumOne == \A n \in Nat : SumOf(<<n>>) = n
<1>1. ASSUME NEW n \in Nat PROVE SumOf(<<n>>) = n
  <2>. DEFINE w == <<n>>
  <2>1. w \in Seq(Nat) /\ Len(w) = 1 /\ w[1] = n
    OBVIOUS
  <2>. HIDE DEF w
  <2>2. /\ Sums(w)[0] = 0 /\ \A k \in 1..Len(w) : Sums(w)[k] = Sums(w)[k - 1] + w[k]
        /\ SumOf(w) = Sums(w)[Len(w)]
    BY <2>1, SumsOf
  <2>3. Sums(w)[1] = Sums(w)[1 - 1] + w[1]
    BY <2>1, <2>2
  <2>q. QED
    BY <2>1, <2>2, <2>3 DEF w
<1>q. QED
  BY <1>1

LEMMA SumNone == SumOf(<<>>) = 0
<1>1. <<>> \in Seq(Nat) /\ Len(<<>>) = 0
  OBVIOUS
<1>2. Sums(<<>>)[0] = 0 /\ SumOf(<<>>) = Sums(<<>>)[Len(<<>>)]
  BY <1>1, SumsOf
<1>q. QED
  BY <1>1, <1>2

LEMMA TokensOf ==
    /\ \A line \in Seq(Nat) : LineTokens(line) \in Nat /\ Tokens(<<line>>) = LineTokens(line)
    /\ \A text \in Texts : Tokens(text) \in Nat
    /\ LineTokens(<<>>) = 0
<1>1. \A line \in Seq(Nat) : LineTokens(line) \in Nat
  BY SumsOf DEF LineTokens
<1>2. ASSUME NEW text \in Texts PROVE Tokens(text) \in Nat
  <2>. DEFINE q == [k \in DOMAIN text |-> LineTokens(text[k])]
              n == Len(text)
  <2>1. n \in Nat /\ DOMAIN text = 1..n /\ \A k \in 1..n : text[k] \in Seq(Nat)
    BY LenProperties, ElementOfSeq DEF Texts
  <2>2. q = [i \in 1..n |-> q[i]] /\ \A i \in 1..n : q[i] \in Nat
    BY <1>1, <2>1
  <2>. HIDE DEF q, n
  <2>3. q \in Seq(Nat)
    BY <2>1, <2>2, SeqFrom
  <2>q. QED
    BY <2>3, SumsOf DEF Tokens, q
<1>3. ASSUME NEW line \in Seq(Nat) PROVE Tokens(<<line>>) = LineTokens(line)
  <2>. DEFINE n == LineTokens(line)
  <2>1. n \in Nat
    BY <1>1
  <2>2. [k \in DOMAIN <<line>> |-> LineTokens(<<line>>[k])] = <<n>>
    OBVIOUS
  <2>3. Tokens(<<line>>) = SumOf(<<n>>)
    BY <2>2 DEF Tokens
  <2>. HIDE DEF n
  <2>q. QED
    BY <2>1, <2>3, SumOne DEF n
<1>4. LineTokens(<<>>) = 0
  BY SumNone DEF LineTokens
<1>q. QED
  BY <1>1, <1>2, <1>3, <1>4

LEMMA SubSeqAdds ==
    ASSUME NEW W, NEW s \in Seq(W), NEW lo \in 1..Len(s), NEW hi \in 1..Len(s)
    PROVE  Additive([a \in lo..hi |-> [b \in lo..hi |-> SubSeq(s, a, b)]], lo, hi)
<1>. DEFINE h == [a \in lo..hi |-> [b \in lo..hi |-> SubSeq(s, a, b)]]
<1>1. ASSUME NEW m \in lo..hi, NEW k \in lo..hi, m < k PROVE h[lo][m] \o h[m + 1][k] = h[lo][k]
  <2>1. Len(s) \in Nat
    BY LenProperties
  <2>2. /\ lo \in 1..(Len(s) + 1) /\ m \in (lo - 1)..Len(s) /\ k \in m..Len(s)
        /\ lo \in lo..hi /\ m + 1 \in lo..hi
    BY <1>1, <2>1
  <2>3. SubSeq(s, lo, m) \o SubSeq(s, m + 1, k) = SubSeq(s, lo, k)
    BY <2>2, ConcatAdjacentSubSeq
  <2>4. h[lo][m] = SubSeq(s, lo, m) /\ h[m + 1][k] = SubSeq(s, m + 1, k) /\ h[lo][k] = SubSeq(s, lo, k)
    BY <2>2
  <2>q. QED
    BY <2>3, <2>4
<1>q. QED
  BY <1>1 DEF Additive

LEMMA FlatAdds ==
    ASSUME NEW W, NEW s \in Seq(Seq(W)), NEW lo \in 1..Len(s), NEW hi \in 1..Len(s)
    PROVE  Additive([a \in lo..hi |-> [b \in lo..hi |-> FlattenSeq(SubSeq(s, a, b))]], lo, hi)
<1>. DEFINE h == [a \in lo..hi |-> [b \in lo..hi |-> FlattenSeq(SubSeq(s, a, b))]]
            Z == Seq(W)
<1>1. ASSUME NEW m \in lo..hi, NEW k \in lo..hi, m < k PROVE h[lo][m] \o h[m + 1][k] = h[lo][k]
  <2>1. Len(s) \in Nat /\ s \in Seq(Z)
    BY LenProperties
  <2>. HIDE DEF Z
  <2>2. /\ lo \in 1..(Len(s) + 1) /\ m \in (lo - 1)..Len(s) /\ k \in m..Len(s)
        /\ lo \in lo..hi /\ m + 1 \in lo..hi
    BY <1>1, <2>1
  <2>. DEFINE x == SubSeq(s, lo, m)
              y == SubSeq(s, m + 1, k)
  <2>3. x \o y = SubSeq(s, lo, k)
    BY <2>1, <2>2, ConcatAdjacentSubSeq
  <2>4. x \in Seq(Z) /\ y \in Seq(Z)
    <3>1. \A i \in lo..m : s[i] \in Z
      BY <2>1, <2>2, ElementOfSeq
    <3>2. \A i \in (m + 1)..k : s[i] \in Z
      BY <2>1, <2>2, ElementOfSeq
    <3>3. lo \in Int /\ m \in Int /\ m + 1 \in Int /\ k \in Int
      BY <2>1, <2>2
    <3>q. QED
      BY <3>1, <3>2, <3>3, SubSeqProperties
  <2>5. h[lo][m] = FlattenSeq(x) /\ h[m + 1][k] = FlattenSeq(y) /\ h[lo][k] = FlattenSeq(SubSeq(s, lo, k))
    BY <2>2
  <2>. HIDE DEF x, y
  <2>6. FlattenSeq(x \o y) = FlattenSeq(x) \o FlattenSeq(y)
    BY <2>4, FlatConcat DEF Z
  <2>q. QED
    BY <2>3, <2>5, <2>6
<1>q. QED
  BY <1>1 DEF Additive

\* The pieces of a cut in which nothing is alone.
LEMMA CutPieces ==
    ASSUME NEW lo \in Int, NEW hi \in Int, lo <= hi + 1, NEW over, NEW after
    PROVE  LET cut == Cut(lo, hi, {}, over, after)
           IN  /\ cut \in Seq(Pieces) /\ Tiles(cut, lo, hi) /\ Len(cut) \in Nat /\ DOMAIN cut = 1..Len(cut)
               /\ \A i \in 1..Len(cut) :
                    /\ cut[i].lo \in lo..hi /\ cut[i].hi \in lo..hi /\ cut[i].lo <= cut[i].hi /\ ~cut[i].alone
                    /\ \A k \in (cut[i].lo + 1)..cut[i].hi : <<cut[i].lo, k>> \notin over
<1>. DEFINE cut == Cut(lo, hi, {}, over, after)
<1>1. CutSound(cut, lo, hi, {}, over)
  BY CutOf
<1>. HIDE DEF cut
<1>2. cut \in Seq(Pieces) /\ Tiles(cut, lo, hi) /\ \A i \in DOMAIN cut : Earned(cut[i], lo, {}, over)
  BY <1>1 DEF CutSound
<1>3. Len(cut) \in Nat /\ DOMAIN cut = 1..Len(cut)
  BY <1>2, LenProperties
<1>4. ASSUME NEW i \in 1..Len(cut)
      PROVE  /\ cut[i].lo \in lo..hi /\ cut[i].hi \in lo..hi /\ cut[i].lo <= cut[i].hi /\ ~cut[i].alone
             /\ \A k \in (cut[i].lo + 1)..cut[i].hi : <<cut[i].lo, k>> \notin over
  <2>1. cut[i] \in Pieces /\ lo <= cut[i].lo /\ cut[i].lo <= cut[i].hi /\ cut[i].hi <= hi
    BY <1>2, TilesWithin
  <2>2. cut[i].lo \in Int /\ cut[i].hi \in Int
    BY <2>1 DEF Pieces
  <2>3. Earned(cut[i], lo, {}, over)
    BY <1>2, <1>3
  <2>4. ~cut[i].alone
    BY <2>3 DEF Earned
  <2>5. \A k \in (cut[i].lo + 1)..cut[i].hi : <<cut[i].lo, k>> \notin over
    BY <2>3, <2>4 DEF Earned, Joined
  <2>6. cut[i].lo \in lo..hi /\ cut[i].hi \in lo..hi
    BY <2>1, <2>2
  <2>q. QED
    BY <2>1, <2>4, <2>5, <2>6
<1>q. QED
  BY <1>2, <1>3, <1>4 DEF cut

LEMMA SubSeqOf ==
    ASSUME NEW W, NEW s \in Seq(W), NEW a \in 1..Len(s), NEW b \in 1..Len(s), a <= b
    PROVE  SubSeq(s, a, b) \in Seq(W) /\ Len(SubSeq(s, a, b)) = b - a + 1
<1>1. Len(s) \in Nat /\ a \in Int /\ b \in Int
  BY LenProperties
<1>2. \A i \in a..b : s[i] \in W
  <2>1. \A i \in a..b : i \in 1..Len(s)
    BY <1>1
  <2>q. QED
    BY <2>1, ElementOfSeq
<1>q. QED
  BY <1>1, <1>2, SubSeqProperties

\* A sentence becomes one-line pieces with its words in order; a piece over the
\* limit is one word.
LEMMA SentencePiecesOf ==
    ASSUME NEW line \in Seq(Nat)
    PROVE  LET parts == SentencePieces(line)
           IN  /\ parts \in Seq(Texts)
               /\ \A i \in 1..Len(parts) : Len(parts[i]) = 1 /\ (Tokens(parts[i]) > ChildMax => Len(parts[i][1]) = 1)
               /\ FlattenSeq([i \in DOMAIN parts |-> FlattenSeq(parts[i])]) = line
<1>. DEFINE parts == SentencePieces(line)
<1>1. ChildMax \in Nat /\ LineTokens(line) \in Nat /\ <<line>> \in Texts /\ Tokens(<<line>>) = LineTokens(line)
  BY ChunkerAssumption, TokensOf DEF Texts
<1>2. FlattenSeq(<<line>>) = line
  BY FlatOne
<1>3. CASE LineTokens(line) <= ChildMax
  <2>1. parts = <<<<line>>>>
    BY <1>3 DEF SentencePieces
  <2>2. <<<<line>>>> \in Seq(Texts) /\ Len(<<<<line>>>>) = 1
    BY <1>1
  <2>3. [i \in DOMAIN <<<<line>>>> |-> FlattenSeq(<<<<line>>>>[i])] = <<FlattenSeq(<<line>>)>>
    OBVIOUS
  <2>4. Len(<<line>>) = 1 /\ ~(Tokens(<<line>>) > ChildMax)
    BY <1>1, <1>3
  <2>q. QED
    BY <1>2, <2>1, <2>2, <2>3, <2>4
<1>4. CASE ~(LineTokens(line) <= ChildMax)
  <2>. DEFINE n == Len(line)
              over == {p \in Pairs(1, n) : p[1] < p[2] /\ LineTokens(SubSeq(line, p[1], p[2])) > ChildMax}
              cut == Cut(1, n, {}, over, {})
              q(i) == SubSeq(line, cut[i].lo, cut[i].hi)
  <2>1. n \in Nat /\ 1 <= n
    <3>1. line # <<>>
      BY <1>1, <1>4, TokensOf
    <3>q. QED
      BY <3>1, EmptySeq, LenProperties
  <2>2. parts = [i \in DOMAIN cut |-> <<q(i)>>]
    BY <1>4 DEF SentencePieces
  <2>3. /\ cut \in Seq(Pieces) /\ Tiles(cut, 1, n) /\ Len(cut) \in Nat /\ DOMAIN cut = 1..Len(cut)
        /\ \A i \in 1..Len(cut) : /\ cut[i].lo \in 1..n /\ cut[i].hi \in 1..n /\ cut[i].lo <= cut[i].hi
                                  /\ \A k \in (cut[i].lo + 1)..cut[i].hi : <<cut[i].lo, k>> \notin over
    <3>1. 1 \in Int /\ n \in Int /\ 1 <= n + 1
      BY <2>1
    <3>. HIDE DEF over, n
    <3>q. QED
      BY <2>1, <3>1, CutPieces
  <2>. HIDE DEF cut, parts
  <2>4. ASSUME NEW i \in 1..Len(cut)
        PROVE  q(i) \in Seq(Nat) /\ (LineTokens(q(i)) > ChildMax => Len(q(i)) = 1)
    <3>. DEFINE a == cut[i].lo
                b == cut[i].hi
    <3>1. a \in 1..n /\ b \in 1..n /\ a <= b /\ \A k \in (a + 1)..b : <<a, k>> \notin over
      BY <2>3
    <3>. HIDE DEF a, b
    <3>2. SubSeq(line, a, b) \in Seq(Nat) /\ Len(SubSeq(line, a, b)) = b - a + 1
      BY <3>1, SubSeqOf
    <3>3. CASE a = b
      BY <2>1, <3>1, <3>2, <3>3 DEF a, b
    <3>4. CASE a # b
      <4>1. b \in (a + 1)..b /\ <<a, b>> \in Pairs(1, n) /\ a < b
        BY <2>1, <3>1, <3>4 DEF Pairs
      <4>2. ~(LineTokens(SubSeq(line, a, b)) > ChildMax)
        BY <3>1, <4>1
      <4>q. QED
        BY <3>2, <4>2 DEF a, b
    <3>q. QED
      BY <3>3, <3>4
  <2>5. ASSUME NEW x \in Seq(Nat)
        PROVE  /\ <<x>> \in Texts /\ Len(<<x>>) = 1 /\ <<x>>[1] = x /\ FlattenSeq(<<x>>) = x
               /\ Tokens(<<x>>) = LineTokens(x)
    BY FlatOne, TokensOf DEF Texts
  <2>. HIDE DEF over, n
  <2>6. /\ DOMAIN parts = 1..Len(cut) /\ parts = [i \in 1..Len(cut) |-> parts[i]]
        /\ \A i \in 1..Len(cut) : parts[i] = <<q(i)>>
    BY <2>2, <2>3
  <2>. HIDE DEF q
  <2>7. \A i \in 1..Len(cut) : /\ parts[i] \in Texts /\ Len(parts[i]) = 1 /\ parts[i][1] = q(i)
                               /\ FlattenSeq(parts[i]) = q(i) /\ Tokens(parts[i]) = LineTokens(q(i))
    BY <2>4, <2>5, <2>6
  <2>8. parts \in Seq(Texts) /\ Len(parts) = Len(cut)
    <3>. DEFINE Z == Texts
                m == Len(cut)
    <3>1. m \in Nat /\ parts = [i \in 1..m |-> parts[i]] /\ \A i \in 1..m : parts[i] \in Z
      BY <2>3, <2>6, <2>7
    <3>. HIDE DEF Z, m
    <3>2. parts \in Seq(Z) /\ Len(parts) = m
      BY <3>1, SeqFrom
    <3>q. QED
      BY <3>2 DEF Z, m
  <2>9. FlattenSeq([i \in DOMAIN parts |-> FlattenSeq(parts[i])]) = line
    <3>. DEFINE y == [i \in 1..Len(cut) |-> q(i)]
                h == [a \in 1..n |-> [b \in 1..n |-> SubSeq(line, a, b)]]
    <3>1. [i \in DOMAIN parts |-> FlattenSeq(parts[i])] = y
      BY <2>6, <2>7
    <3>2. y \in Seq(Seq(Nat)) /\ Len(y) = Len(cut)
      <4>. DEFINE Z == Seq(Nat)
                  m == Len(cut)
      <4>1. m \in Nat /\ y = [i \in 1..m |-> y[i]] /\ \A i \in 1..m : y[i] \in Z
        BY <2>3, <2>4
      <4>. HIDE DEF Z, m, y
      <4>2. y \in Seq(Z) /\ Len(y) = m
        BY <4>1, SeqFrom
      <4>q. QED
        BY <4>2 DEF Z, m
    <3>3. Additive(h, 1, n)
      <4>1. 1 \in 1..Len(line) /\ n \in 1..Len(line)
        BY <2>1 DEF n
      <4>q. QED
        BY <4>1, SubSeqAdds
    <3>4. \A i \in 1..Len(cut) : y[i] = h[cut[i].lo][cut[i].hi]
      BY <2>3 DEF q
    <3>5. h[1][n] = line
      <4>1. 1 \in 1..n /\ n \in 1..n
        BY <2>1
      <4>2. h[1][n] = SubSeq(line, 1, n)
        BY <4>1
      <4>q. QED
        BY <4>2, SubSeqFull DEF n
    <3>. HIDE DEF y, h
    <3>6. 1 \in Int /\ n \in Int
      BY <2>1
    <3>7. FlattenSeq(y) = h[1][n]
      <4>. DEFINE W == Nat
      <4>1. y \in Seq(Seq(W))
        BY <3>2
      <4>2. cut \in Seq(Pieces) /\ Tiles(cut, 1, n)
        BY <2>3
      <4>3. Follows(y, cut, h) /\ 1 <= n
        BY <2>1, <3>2, <3>4 DEF Follows
      <4>. HIDE DEF W
      <4>q. QED
        BY <3>3, <3>6, <4>1, <4>2, <4>3, TilesFlat
    <3>q. QED
      BY <3>1, <3>5, <3>7
  <2>q. QED
    BY <2>4, <2>7, <2>8, <2>9 DEF parts
<1>q. QED
  BY <1>3, <1>4

\* The words of a block without its header row, which every piece repeats; what
\* cannot be split further.
Bare(b, text) == FlattenSeq(IF b.type = "table" THEN Tail(text) ELSE text)
Least(b, x) ==
    \/ b.type = "table" /\ Len(x) <= 2
    \/ b.type = "code" /\ Len(x) = 1
    \/ Len(x) = 1 /\ Len(x[1]) = 1
SplitSound(b, parts) ==
    /\ parts \in Seq(Texts)
    /\ \A i \in 1..Len(parts) : Tokens(parts[i]) > ChildMax => Least(b, parts[i])
    /\ FlattenSeq([i \in DOMAIN parts |-> Bare(b, parts[i])]) = Bare(b, b.text)

\* Pieces x[i] of a text whose words are those of the lines of a cut of lo..n.
LEMMA LinesOfCut ==
    ASSUME NEW text \in Texts, NEW lo \in 1..Len(text), NEW ps \in Seq(Pieces), Tiles(ps, lo, Len(text)),
           NEW y \in Seq(Seq(Nat)), Len(y) = Len(ps),
           \A i \in 1..Len(ps) : y[i] = FlattenSeq(SubSeq(text, ps[i].lo, ps[i].hi))
    PROVE  FlattenSeq(y) = FlattenSeq(SubSeq(text, lo, Len(text)))
<1>. DEFINE n == Len(text)
            W == Nat
            h == [a \in lo..n |-> [b \in lo..n |-> FlattenSeq(SubSeq(text, a, b))]]
<1>1. n \in Nat /\ lo \in Int /\ n \in Int /\ lo <= n /\ lo \in 1..n /\ n \in 1..n /\ text \in Seq(Seq(W)) /\ y \in Seq(Seq(W))
  BY LenProperties DEF Texts
<1>. HIDE DEF W
<1>2. Additive(h, lo, n)
  BY <1>1, FlatAdds
<1>3. Tiles(ps, lo, n)
  OBVIOUS
<1>4. Follows(y, ps, h)
  <2>1. ASSUME NEW i \in 1..Len(ps) PROVE y[i] = h[ps[i].lo][ps[i].hi]
    <3>1. ps[i] \in Pieces /\ lo <= ps[i].lo /\ ps[i].lo <= ps[i].hi /\ ps[i].hi <= n
      BY <1>1, <1>3, TilesWithin
    <3>2. ps[i].lo \in Int /\ ps[i].hi \in Int
      BY <3>1 DEF Pieces
    <3>3. ps[i].lo \in lo..n /\ ps[i].hi \in lo..n
      BY <1>1, <3>1, <3>2
    <3>q. QED
      BY <3>3
  <2>q. QED
    BY <2>1 DEF Follows
<1>5. h[lo][n] = FlattenSeq(SubSeq(text, lo, n))
  <2>1. lo \in lo..n /\ n \in lo..n
    BY <1>1
  <2>q. QED
    BY <2>1
<1>. HIDE DEF n, h
<1>6. FlattenSeq(y) = h[lo][n]
  BY <1>1, <1>2, <1>3, <1>4, TilesFlat
<1>q. QED
  BY <1>5, <1>6 DEF n

\* A sequence given by its elements, with what a definition reads of them.
LEMMA LinesSeq ==
    ASSUME NEW m \in Nat, NEW q, q = [i \in 1..m |-> q[i]], \A i \in 1..m : q[i] \in Seq(Nat)
    PROVE  q \in Seq(Seq(Nat)) /\ Len(q) = m
<1>. DEFINE Z == Seq(Nat)
<1>1. \A i \in 1..m : q[i] \in Z
  OBVIOUS
<1>. HIDE DEF Z
<1>2. q \in Seq(Z) /\ Len(q) = m
  BY <1>1, SeqFrom
<1>q. QED
  BY <1>2 DEF Z

LEMMA CodeSplit ==
    ASSUME NEW b \in Blocks, b.type = "code"
    PROVE  SplitSound(b, _split_code_or_list(b.text))
<1>. DEFINE text == b.text
            n == Len(text)
            over == {p \in Pairs(1, n) : p[1] < p[2] /\ Tokens(SubSeq(text, p[1], p[2])) > ChildMax}
            cut == Cut(1, n, {}, over, {})
            q(i) == SubSeq(text, cut[i].lo, cut[i].hi)
            parts == _split_code_or_list(text)
<1>1. text \in Texts /\ n \in Nat /\ 1 <= n
  <2>1. text \in Texts /\ text # <<>>
    BY ChunkerAssumption DEF Texts
  <2>. HIDE DEF text
  <2>q. QED
    BY <2>1, EmptySeq, LenProperties DEF Texts
<1>2. parts = [i \in DOMAIN cut |-> q(i)]
  BY DEF _split_code_or_list
<1>3. /\ cut \in Seq(Pieces) /\ Tiles(cut, 1, n) /\ Len(cut) \in Nat /\ DOMAIN cut = 1..Len(cut)
      /\ \A i \in 1..Len(cut) : /\ cut[i].lo \in 1..n /\ cut[i].hi \in 1..n /\ cut[i].lo <= cut[i].hi
                                /\ \A k \in (cut[i].lo + 1)..cut[i].hi : <<cut[i].lo, k>> \notin over
  <2>1. 1 \in Int /\ n \in Int
    BY <1>1
  <2>. HIDE DEF over, n
  <2>q. QED
    BY <1>1, <2>1, CutPieces
<1>. HIDE DEF cut, parts, text
<1>4. ASSUME NEW i \in 1..Len(cut)
      PROVE  q(i) \in Texts /\ (Tokens(q(i)) > ChildMax => Len(q(i)) = 1)
  <2>. DEFINE a == cut[i].lo
              c == cut[i].hi
  <2>1. a \in 1..n /\ c \in 1..n /\ a <= c /\ \A k \in (a + 1)..c : <<a, k>> \notin over
    BY <1>3
  <2>. HIDE DEF a, c
  <2>2. SubSeq(text, a, c) \in Texts /\ Len(SubSeq(text, a, c)) = c - a + 1
    BY <1>1, <2>1, SubSeqOf DEF Texts
  <2>3. CASE a = c
    BY <1>1, <2>1, <2>2, <2>3 DEF a, c
  <2>4. CASE a # c
    <3>1. c \in (a + 1)..c /\ <<a, c>> \in Pairs(1, n) /\ a < c
      BY <1>1, <2>1, <2>4 DEF Pairs
    <3>2. ~(Tokens(SubSeq(text, a, c)) > ChildMax)
      BY <2>1, <3>1
    <3>q. QED
      BY <2>2, <3>2 DEF a, c
  <2>q. QED
    BY <2>3, <2>4
<1>. HIDE DEF over, n
<1>5. /\ DOMAIN parts = 1..Len(cut) /\ parts = [i \in 1..Len(cut) |-> parts[i]]
      /\ \A i \in 1..Len(cut) : parts[i] = q(i)
  BY <1>2, <1>3
<1>6. parts \in Seq(Texts) /\ Len(parts) = Len(cut)
  <2>. DEFINE Z == Texts
              m == Len(cut)
  <2>1. m \in Nat /\ parts = [i \in 1..m |-> parts[i]] /\ \A i \in 1..m : parts[i] \in Z
    BY <1>3, <1>4, <1>5
  <2>. HIDE DEF Z, m, q
  <2>2. parts \in Seq(Z) /\ Len(parts) = m
    BY <2>1, SeqFrom
  <2>q. QED
    BY <2>2 DEF Z, m
<1>. DEFINE y == [i \in 1..Len(cut) |-> FlattenSeq(q(i))]
<1>7. [i \in DOMAIN parts |-> Bare(b, parts[i])] = y
  BY <1>5 DEF Bare
<1>8. FlattenSeq(y) = FlattenSeq(SubSeq(text, 1, n))
  <2>1. \A i \in 1..Len(cut) : FlattenSeq(q(i)) \in Seq(Nat)
    BY <1>4, FlatType DEF Texts
  <2>. DEFINE m == Len(cut)
  <2>2. m \in Nat /\ y = [i \in 1..m |-> y[i]] /\ \A i \in 1..m : y[i] \in Seq(Nat)
    BY <1>3, <2>1
  <2>3. \A i \in 1..Len(cut) : y[i] = FlattenSeq(SubSeq(text, cut[i].lo, cut[i].hi))
    OBVIOUS
  <2>. HIDE DEF y, m, q
  <2>4. y \in Seq(Seq(Nat)) /\ Len(y) = m
    BY <2>2, LinesSeq
  <2>5. 1 \in 1..Len(text) /\ Tiles(cut, 1, Len(text))
    BY <1>1, <1>3 DEF n
  <2>6. Len(y) = Len(cut)
    BY <2>4 DEF m
  <2>7. FlattenSeq(y) = FlattenSeq(SubSeq(text, 1, Len(text)))
    BY <1>1, <1>3, <2>3, <2>4, <2>5, <2>6, LinesOfCut
  <2>q. QED
    BY <2>7 DEF n
<1>9. SubSeq(text, 1, n) = text
  BY <1>1, SubSeqFull DEF n, Texts
<1>10. Bare(b, text) = FlattenSeq(text)
  BY DEF Bare
<1>11. \A i \in 1..Len(parts) : Tokens(parts[i]) > ChildMax => Least(b, parts[i])
  BY <1>4, <1>5, <1>6 DEF Least
<1>. HIDE DEF y
<1>q. QED
  BY <1>6, <1>7, <1>8, <1>9, <1>10, <1>11 DEF SplitSound, parts, text

LEMMA TailOfRow ==
    ASSUME NEW row \in Seq(Nat), NEW x \in Texts
    PROVE  <<row>> \o x \in Texts /\ Tail(<<row>> \o x) = x /\ Len(<<row>> \o x) = Len(x) + 1
<1>. DEFINE Z == Seq(Nat)
            s == <<row>> \o x
<1>0. x \in Seq(Z) /\ row \in Z
  BY DEF Texts
<1>. HIDE DEF Z
<1>1. <<row>> \in Seq(Z) /\ Len(<<row>>) = 1 /\ Len(x) \in Nat
  BY <1>0, LenProperties
<1>2. /\ s \in Seq(Z) /\ Len(s) = 1 + Len(x)
      /\ \A i \in 1..(1 + Len(x)) : s[i] = IF i <= 1 THEN <<row>>[i] ELSE x[i - 1]
  BY <1>0, <1>1, ConcatProperties
<1>. HIDE DEF s
<1>3. s # <<>>
  BY <1>1, <1>2, EmptySeq
<1>4. /\ Tail(s) \in Seq(Z) /\ Len(Tail(s)) = Len(s) - 1
      /\ \A i \in 1..Len(Tail(s)) : Tail(s)[i] = s[i + 1]
  BY <1>2, <1>3, HeadTailProperties
<1>. DEFINE t == Tail(s)
<1>5. t \in Seq(Z) /\ Len(t) = Len(x) /\ \A i \in 1..Len(t) : t[i] = s[i + 1]
  BY <1>1, <1>2, <1>4
<1>. HIDE DEF t
<1>6. \A i \in 1..Len(x) : t[i] = x[i]
  <2>1. ASSUME NEW i \in 1..Len(x) PROVE t[i] = x[i]
    <3>1. i + 1 \in 1..(1 + Len(x)) /\ ~(i + 1 <= 1) /\ (i + 1) - 1 = i
      BY <1>1
    <3>q. QED
      BY <1>2, <1>5, <3>1
  <2>q. QED
    BY <2>1
<1>7. t = x
  BY <1>0, <1>5, <1>6, SeqEqual
<1>q. QED
  BY <1>1, <1>2, <1>7 DEF s, t, Z, Texts

\* What is read of the pieces: the lines of the cut, under the header row.
LEMMA TableSplit ==
    ASSUME NEW b \in Blocks, b.type = "table"
    PROVE  SplitSound(b, _split_table_text(b.text))
<1>. DEFINE text == b.text
            n == Len(text)
            rows(f, k) == <<text[1]>> \o SubSeq(text, f, k)
            over == {p \in Pairs(2, n) : p[1] < p[2] /\ Tokens(rows(p[1], p[2])) > ChildMax}
            cut == Cut(2, n, {}, over, {})
            q(i) == rows(cut[i].lo, cut[i].hi)
            parts == _split_table_text(text)
<1>1. text \in Texts /\ text # <<>> /\ n \in Nat /\ 1 <= n /\ text[1] \in Seq(Nat)
  <2>1. text \in Texts /\ text # <<>>
    BY ChunkerAssumption DEF Texts
  <2>. HIDE DEF text
  <2>2. n \in Nat /\ 1 <= n
    BY <2>1, EmptySeq, LenProperties DEF Texts
  <2>3. 1 \in 1..Len(text)
    BY <2>2
  <2>4. text[1] \in Seq(Nat)
    BY <2>1, <2>3, ElementOfSeq DEF Texts
  <2>q. QED
    BY <2>1, <2>2, <2>4
<1>2. /\ n = 1 => parts = <<text>>
      /\ n # 1 => parts = [i \in DOMAIN cut |-> q(i)]
  BY DEF _split_table_text
<1>3. \A x \in Texts : Bare(b, x) = FlattenSeq(Tail(x))
  BY DEF Bare
<1>. HIDE DEF text
<1>4. CASE n = 1
  <2>1. parts = <<text>> /\ <<text>> \in Seq(Texts) /\ Len(<<text>>) = 1 /\ <<text>>[1] = text
    BY <1>1, <1>2, <1>4
  <2>2. Bare(b, text) \in Seq(Nat)
    <3>1. Tail(text) \in Texts
      BY <1>1, HeadTailProperties DEF Texts
    <3>q. QED
      BY <1>1, <1>3, <3>1, FlatType DEF Texts
  <2>3. [i \in DOMAIN <<text>> |-> Bare(b, <<text>>[i])] = <<Bare(b, text)>>
    OBVIOUS
  <2>4. FlattenSeq(<<Bare(b, text)>>) = Bare(b, text)
    BY <2>2, FlatOne
  <2>5. Least(b, text)
    BY <1>4 DEF Least
  <2>. HIDE DEF parts
  <2>q. QED
    BY <2>1, <2>3, <2>4, <2>5 DEF SplitSound, parts, text
<1>5. CASE n # 1
  <2>1. 2 <= n /\ 2 \in Int /\ n \in Int
    <3>. HIDE DEF n
    <3>q. QED
      BY <1>1, <1>5
  <2>2. parts = [i \in DOMAIN cut |-> q(i)]
    BY <1>2, <1>5
  <2>3. /\ cut \in Seq(Pieces) /\ Tiles(cut, 2, n) /\ Len(cut) \in Nat /\ DOMAIN cut = 1..Len(cut)
        /\ \A i \in 1..Len(cut) : /\ cut[i].lo \in 2..n /\ cut[i].hi \in 2..n /\ cut[i].lo <= cut[i].hi
                                  /\ \A k \in (cut[i].lo + 1)..cut[i].hi : <<cut[i].lo, k>> \notin over
    <3>. HIDE DEF over, n
    <3>q. QED
      BY <2>1, CutPieces
  <2>. HIDE DEF cut, parts
  <2>4. ASSUME NEW i \in 1..Len(cut)
        PROVE  /\ q(i) \in Texts /\ (Tokens(q(i)) > ChildMax => Len(q(i)) <= 2)
               /\ Bare(b, q(i)) = FlattenSeq(SubSeq(text, cut[i].lo, cut[i].hi))
               /\ FlattenSeq(SubSeq(text, cut[i].lo, cut[i].hi)) \in Seq(Nat)
    <3>. DEFINE a == cut[i].lo
                c == cut[i].hi
                x == SubSeq(text, a, c)
    <3>1. a \in 2..n /\ c \in 2..n /\ a <= c /\ \A k \in (a + 1)..c : <<a, k>> \notin over
      BY <2>3
    <3>. HIDE DEF a, c
    <3>2. x \in Texts /\ Len(x) = c - a + 1
      <4>1. a \in 1..Len(text) /\ c \in 1..Len(text)
        BY <1>1, <3>1
      <4>q. QED
        BY <1>1, <3>1, <4>1, SubSeqOf DEF Texts
    <3>. HIDE DEF x
    <3>3. <<text[1]>> \o x \in Texts /\ Tail(<<text[1]>> \o x) = x /\ Len(<<text[1]>> \o x) = Len(x) + 1
      BY <1>1, <3>2, TailOfRow
    <3>4. q(i) = <<text[1]>> \o x
      BY DEF x, a, c
    <3>5. Tokens(q(i)) > ChildMax => a = c
      <4>1. SUFFICES ASSUME a # c PROVE ~(Tokens(q(i)) > ChildMax)
        OBVIOUS
      <4>2. c \in (a + 1)..c /\ <<a, c>> \in Pairs(2, n) /\ a < c
        BY <1>1, <3>1, <4>1 DEF Pairs
      <4>3. ~(Tokens(rows(a, c)) > ChildMax)
        BY <3>1, <4>2
      <4>q. QED
        BY <4>3 DEF a, c
    <3>6. Tokens(q(i)) > ChildMax => Len(q(i)) <= 2
      <4>1. a = c => Len(x) = 1
        <5>1. a = c => c - a + 1 = 1
          BY <3>1
        <5>q. QED
          BY <3>2, <5>1
      <4>2. a = c => Len(<<text[1]>> \o x) <= 2
        BY <3>3, <4>1
      <4>. HIDE DEF q
      <4>q. QED
        BY <3>4, <3>5, <4>2
    <3>7. FlattenSeq(x) \in Seq(Nat)
      BY <3>2, FlatType DEF Texts
    <3>. HIDE DEF q
    <3>q. QED
      BY <1>3, <3>3, <3>4, <3>6, <3>7 DEF x, a, c
  <2>. HIDE DEF over, rows
  <2>5. /\ DOMAIN parts = 1..Len(cut) /\ parts = [i \in 1..Len(cut) |-> parts[i]]
        /\ \A i \in 1..Len(cut) : parts[i] = q(i)
    BY <2>2, <2>3
  <2>. HIDE DEF q
  <2>6. parts \in Seq(Texts) /\ Len(parts) = Len(cut)
    <3>. DEFINE Z == Texts
                m == Len(cut)
    <3>1. m \in Nat /\ parts = [i \in 1..m |-> parts[i]] /\ \A i \in 1..m : parts[i] \in Z
      BY <2>3, <2>4, <2>5
    <3>. HIDE DEF Z, m
    <3>2. parts \in Seq(Z) /\ Len(parts) = m
      BY <3>1, SeqFrom
    <3>q. QED
      BY <3>2 DEF Z, m
  <2>. DEFINE y == [i \in 1..Len(cut) |-> FlattenSeq(SubSeq(text, cut[i].lo, cut[i].hi))]
  <2>7. [i \in DOMAIN parts |-> Bare(b, parts[i])] = y
    BY <2>4, <2>5
  <2>8. FlattenSeq(y) = FlattenSeq(SubSeq(text, 2, n))
    <3>. DEFINE m == Len(cut)
    <3>2. m \in Nat /\ y = [i \in 1..m |-> y[i]] /\ \A i \in 1..m : y[i] \in Seq(Nat)
      BY <2>3, <2>4
    <3>3. \A i \in 1..Len(cut) : y[i] = FlattenSeq(SubSeq(text, cut[i].lo, cut[i].hi))
      OBVIOUS
    <3>. HIDE DEF y, m
    <3>4. y \in Seq(Seq(Nat)) /\ Len(y) = m
      BY <3>2, LinesSeq
    <3>5. 2 \in 1..Len(text) /\ Tiles(cut, 2, Len(text))
      BY <2>1, <2>3
    <3>6. Len(y) = Len(cut)
      BY <3>4 DEF m
    <3>7. FlattenSeq(y) = FlattenSeq(SubSeq(text, 2, Len(text)))
      BY <1>1, <2>3, <3>3, <3>4, <3>5, <3>6, LinesOfCut
    <3>q. QED
      BY <3>7
  <2>9. Tail(text) = SubSeq(text, 2, n)
    BY <1>1, TailIsSubSeq DEF Texts
  <2>10. Bare(b, text) = FlattenSeq(SubSeq(text, 2, n))
    BY <1>1, <1>3, <2>9
  <2>11. \A i \in 1..Len(parts) : Tokens(parts[i]) > ChildMax => Least(b, parts[i])
    BY <2>4, <2>5, <2>6 DEF Least
  <2>. HIDE DEF y, n
  <2>q. QED
    BY <2>6, <2>7, <2>8, <2>10, <2>11 DEF SplitSound, parts, text
<1>q. QED
  BY <1>4, <1>5

LEMMA TextSplit ==
    ASSUME NEW b \in Blocks, b.type \notin {"table", "code"}
    PROVE  SplitSound(b, _split_text_units(b.text))
<1>. DEFINE text == b.text
            n == Len(text)
            parts == _split_text_units(text)
            G == {p \in Texts : Len(p) = 1 /\ (Tokens(p) > ChildMax => Len(p[1]) = 1)}
            t == [p \in G |-> FlattenSeq(p)]
            x == [k \in DOMAIN text |-> SentencePieces(text[k])]
<1>1. text \in Texts /\ n \in Nat /\ DOMAIN text = 1..n
  <2>1. text \in Texts
    BY ChunkerAssumption DEF Texts
  <2>. HIDE DEF text
  <2>q. QED
    BY <2>1, LenProperties DEF Texts
<1>2. /\ Tokens(text) <= ChildMax => parts = <<text>>
      /\ ~(Tokens(text) <= ChildMax) => parts = FlattenSeq(x)
  BY DEF _split_text_units
<1>3. \A p \in Texts : Bare(b, p) = FlattenSeq(p) /\ FlattenSeq(p) \in Seq(Nat)
  <2>1. \A p \in Texts : Bare(b, p) = FlattenSeq(p)
    BY DEF Bare
  <2>2. \A p \in Texts : FlattenSeq(p) \in Seq(Nat)
    BY FlatType DEF Texts
  <2>q. QED
    BY <2>1, <2>2
<1>. HIDE DEF text
<1>4. CASE Tokens(text) <= ChildMax
  <2>1. parts = <<text>> /\ <<text>> \in Seq(Texts) /\ Len(<<text>>) = 1 /\ <<text>>[1] = text
    BY <1>1, <1>2, <1>4
  <2>2. [i \in DOMAIN <<text>> |-> Bare(b, <<text>>[i])] = <<Bare(b, text)>>
    OBVIOUS
  <2>3. FlattenSeq(<<Bare(b, text)>>) = Bare(b, text)
    BY <1>1, <1>3, FlatOne
  <2>4. ~(Tokens(text) > ChildMax)
    BY <1>1, <1>4, TokensOf, ChunkerAssumption
  <2>. HIDE DEF parts
  <2>q. QED
    BY <2>1, <2>2, <2>3, <2>4 DEF SplitSound, parts, text
<1>5. CASE ~(Tokens(text) <= ChildMax)
  <2>1. parts = FlattenSeq(x)
    BY <1>2, <1>5
  <2>2. ASSUME NEW line \in Seq(Nat)
        PROVE  SentencePieces(line) \in Seq(G) /\ Reads(t, SentencePieces(line)) = line
    <3>. DEFINE s == SentencePieces(line)
    <3>1. /\ s \in Seq(Texts) /\ \A i \in 1..Len(s) : Len(s[i]) = 1 /\ (Tokens(s[i]) > ChildMax => Len(s[i][1]) = 1)
          /\ FlattenSeq([i \in DOMAIN s |-> FlattenSeq(s[i])]) = line
      BY SentencePiecesOf
    <3>. HIDE DEF s
    <3>2. Len(s) \in Nat /\ DOMAIN s = 1..Len(s) /\ s = [i \in 1..Len(s) |-> s[i]] /\ \A i \in 1..Len(s) : s[i] \in Texts
      <4>. DEFINE Z == Texts
      <4>1. s \in Seq(Z)
        BY <3>1
      <4>. HIDE DEF Z
      <4>2. Len(s) \in Nat /\ DOMAIN s = 1..Len(s) /\ s = [i \in 1..Len(s) |-> s[i]] /\ \A i \in 1..Len(s) : s[i] \in Z
        BY <4>1, LenProperties, ElementOfSeq
      <4>q. QED
        BY <4>2 DEF Z
    <3>3. \A i \in 1..Len(s) : s[i] \in G
      BY <3>1, <3>2
    <3>4. s \in Seq(G)
      <4>. HIDE DEF G
      <4>q. QED
        BY <3>2, <3>3, SeqFrom
    <3>5. [i \in DOMAIN s |-> t[s[i]]] = [i \in DOMAIN s |-> FlattenSeq(s[i])]
      BY <3>2, <3>3
    <3>. HIDE DEF G, t
    <3>q. QED
      BY <3>1, <3>4, <3>5 DEF Reads, s
  <2>3. t \in Readings(G, Nat)
    BY <1>3 DEF Readings
  <2>4. \A k \in 1..n : text[k] \in Seq(Nat)
    BY <1>1, ElementOfSeq DEF Texts
  <2>5. \A p \in G : p \in Texts /\ Len(p) = 1 /\ (Tokens(p) > ChildMax => Len(p[1]) = 1) /\ t[p] = FlattenSeq(p)
    OBVIOUS
  <2>. HIDE DEF G, t, n
  <2>6. /\ x = [i \in 1..n |-> x[i]] /\ DOMAIN x = 1..n
        /\ \A i \in 1..n : x[i] \in Seq(G) /\ Reads(t, x[i]) = text[i]
    BY <1>1, <2>2, <2>4
  <2>. HIDE DEF x
  <2>7. x \in Seq(Seq(G))
    <3>. DEFINE Z == Seq(G)
    <3>1. \A i \in 1..n : x[i] \in Z
      BY <2>6
    <3>. HIDE DEF Z
    <3>2. x \in Seq(Z)
      BY <1>1, <2>6, <3>1, SeqFrom
    <3>q. QED
      BY <3>2 DEF Z
  <2>8. parts \in Seq(G)
    BY <2>1, <2>7, FlatType
  <2>9. Reads(t, FlattenSeq(x)) = FlattenSeq([j \in DOMAIN x |-> Reads(t, x[j])])
    <3>. DEFINE W == Nat
    <3>1. t \in Readings(G, W)
      BY <2>3
    <3>. HIDE DEF W
    <3>q. QED
      BY <2>7, <3>1, ReadsNested
  <2>10. [j \in DOMAIN x |-> Reads(t, x[j])] = text
    <3>1. text = [j \in 1..n |-> text[j]]
      BY <1>1 DEF Texts
    <3>q. QED
      BY <2>6, <3>1
  <2>. HIDE DEF parts
  <2>11. /\ Len(parts) \in Nat /\ DOMAIN parts = 1..Len(parts)
         /\ parts = [i \in 1..Len(parts) |-> parts[i]] /\ \A i \in 1..Len(parts) : parts[i] \in G
    BY <2>8, LenProperties, ElementOfSeq
  <2>12. parts \in Seq(Texts)
    <3>. DEFINE Z == Texts
    <3>1. \A i \in 1..Len(parts) : parts[i] \in Z
      BY <2>5, <2>11
    <3>. HIDE DEF Z
    <3>2. parts \in Seq(Z)
      BY <2>11, <3>1, SeqFrom
    <3>q. QED
      BY <3>2 DEF Z
  <2>13. [i \in DOMAIN parts |-> Bare(b, parts[i])] = [i \in DOMAIN parts |-> t[parts[i]]]
    BY <1>3, <2>5, <2>11
  <2>14. FlattenSeq([i \in DOMAIN parts |-> Bare(b, parts[i])]) = FlattenSeq(text)
    <3>1. Reads(t, parts) = FlattenSeq([i \in DOMAIN parts |-> t[parts[i]]])
      BY DEF Reads
    <3>q. QED
      BY <2>1, <2>9, <2>10, <2>13, <3>1
  <2>15. \A i \in 1..Len(parts) : Tokens(parts[i]) > ChildMax => Least(b, parts[i])
    BY <2>5, <2>11 DEF Least
  <2>q. QED
    BY <1>1, <1>3, <2>12, <2>14, <2>15 DEF SplitSound, parts, text
<1>q. QED
  BY <1>4, <1>5

LEMMA SplitOf ==
    ASSUME NEW b \in Blocks
    PROVE  SplitSound(b, Split(b))
<1>1. CASE b.type = "table"
  BY <1>1, TableSplit DEF Split
<1>2. CASE b.type = "code"
  BY <1>2, CodeSplit DEF Split
<1>3. CASE b.type \notin {"table", "code"}
  BY <1>3, TextSplit DEF Split
<1>q. QED
  BY <1>1, <1>2, <1>3

(***************************************************************************)
(* Chunking: what the children of a document carry.                        *)
(***************************************************************************)
Words == Nat \X Nat
Marked(dropped, k, w) == IF dropped THEN <<>> ELSE [i \in DOMAIN w |-> <<k, w[i]>>]

LEMMA MarkedConcat ==
    ASSUME NEW dropped, NEW k \in Nat, NEW a \in Seq(Nat), NEW b \in Seq(Nat)
    PROVE  /\ Marked(dropped, k, a) \in Seq(Words) /\ Marked(dropped, k, <<>>) = <<>>
           /\ Marked(dropped, k, a \o b) = Marked(dropped, k, a) \o Marked(dropped, k, b)
<1>. DEFINE mark(w) == [i \in 1..Len(w) |-> <<k, w[i]>>]
            W == Words
<1>1. ASSUME NEW w \in Seq(Nat)
      PROVE  mark(w) \in Seq(W) /\ Len(mark(w)) = Len(w) /\ [i \in DOMAIN w |-> <<k, w[i]>>] = mark(w)
  <2>1. Len(w) \in Nat /\ DOMAIN w = 1..Len(w) /\ \A i \in 1..Len(w) : w[i] \in Nat
    BY LenProperties, ElementOfSeq
  <2>. DEFINE q == mark(w)
              n == Len(w)
  <2>2. q = [i \in 1..n |-> q[i]] /\ \A i \in 1..n : q[i] \in W
    BY <2>1 DEF Words
  <2>. HIDE DEF q, n, W
  <2>3. q \in Seq(W) /\ Len(q) = n
    <3>1. n \in Nat
      BY <2>1 DEF n
    <3>q. QED
      BY <2>2, <3>1, SeqFrom
  <2>q. QED
    BY <2>1, <2>3 DEF q, n
<1>2. mark(<<>>) = <<>>
  OBVIOUS
<1>3. /\ a \o b \in Seq(Nat) /\ Len(a \o b) = Len(a) + Len(b) /\ Len(a) \in Nat /\ Len(b) \in Nat /\ <<>> \in Seq(Nat)
      /\ \A i \in 1..(Len(a) + Len(b)) : (a \o b)[i] = IF i <= Len(a) THEN a[i] ELSE b[i - Len(a)]
  BY ConcatProperties, LenProperties
<1>4. mark(a \o b) = mark(a) \o mark(b)
  <2>. DEFINE A == mark(a)
              B == mark(b)
              C == mark(a \o b)
  <2>1. /\ A \in Seq(W) /\ B \in Seq(W) /\ C \in Seq(W)
        /\ Len(A) = Len(a) /\ Len(B) = Len(b) /\ Len(C) = Len(a) + Len(b)
    <3>. HIDE DEF mark, W
    <3>q. QED
      BY <1>1, <1>3
  <2>2. /\ \A i \in 1..Len(a) : A[i] = <<k, a[i]>>
        /\ \A i \in 1..Len(b) : B[i] = <<k, b[i]>>
        /\ \A i \in 1..(Len(a) + Len(b)) : C[i] = <<k, (a \o b)[i]>>
    BY <1>3
  <2>. HIDE DEF A, B, C, mark, W
  <2>3. /\ A \o B \in Seq(W) /\ Len(A \o B) = Len(a) + Len(b)
        /\ \A i \in 1..(Len(a) + Len(b)) : (A \o B)[i] = IF i <= Len(a) THEN A[i] ELSE B[i - Len(a)]
    <3>1. /\ A \o B \in Seq(W) /\ Len(A \o B) = Len(A) + Len(B)
          /\ \A i \in 1..(Len(A) + Len(B)) : (A \o B)[i] = IF i <= Len(A) THEN A[i] ELSE B[i - Len(A)]
      <4>1. A \in Seq(W) /\ B \in Seq(W)
        BY <2>1
      <4>q. QED
        BY ONLY <4>1, ConcatProperties
    <3>q. QED
      BY <2>1, <3>1
  <2>4. ASSUME NEW i \in 1..(Len(a) + Len(b)) PROVE C[i] = (A \o B)[i]
    <3>1. CASE i <= Len(a)
      <4>1. i \in 1..Len(a)
        BY <1>3, <3>1
      <4>q. QED
        BY <1>3, <2>2, <2>3, <3>1, <4>1
    <3>2. CASE ~(i <= Len(a))
      <4>1. i - Len(a) \in 1..Len(b)
        BY <1>3, <3>2
      <4>q. QED
        BY <1>3, <2>2, <2>3, <3>2, <4>1
    <3>q. QED
      BY <3>1, <3>2
  <2>5. C = A \o B
    BY <2>1, <2>3, <2>4, SeqEqual
  <2>q. QED
    BY <2>5 DEF A, B, C
<1>. HIDE DEF mark
<1>5. CASE dropped
  <2>1. <<>> \in Seq(Words) /\ <<>> = <<>> \o <<>>
    OBVIOUS
  <2>q. QED
    BY <1>5, <2>1 DEF Marked
<1>6. CASE ~dropped
  <2>1. \A w \in Seq(Nat) : Marked(dropped, k, w) = mark(w)
    BY <1>1, <1>6 DEF Marked
  <2>q. QED
    BY <1>1, <1>2, <1>3, <1>4, <2>1
<1>q. QED
  BY <1>5, <1>6

LEMMA MarkedFlat ==
    ASSUME NEW dropped, NEW k \in Nat, NEW ss \in Seq(Seq(Nat))
    PROVE  /\ [i \in DOMAIN ss |-> Marked(dropped, k, ss[i])] \in Seq(Seq(Words))
           /\ FlattenSeq([i \in DOMAIN ss |-> Marked(dropped, k, ss[i])]) = Marked(dropped, k, FlattenSeq(ss))
<1>. DEFINE L == Len(ss)
            m == [w \in Seq(Nat) |-> Marked(dropped, k, w)]
            y == [i \in DOMAIN ss |-> Marked(dropped, k, ss[i])]
<1>1. L \in Nat /\ DOMAIN ss = 1..L /\ \A i \in 1..L : ss[i] \in Seq(Nat)
  <2>. DEFINE Z == Seq(Nat)
  <2>1. ss \in Seq(Z)
    OBVIOUS
  <2>. HIDE DEF Z
  <2>2. L \in Nat /\ DOMAIN ss = 1..L /\ \A i \in 1..L : ss[i] \in Z
    BY <2>1, LenProperties, ElementOfSeq
  <2>q. QED
    BY <2>2 DEF Z
<1>2. /\ \A a \in Seq(Nat) : m[a] = Marked(dropped, k, a) /\ m[a] \in Seq(Words)
      /\ m[<<>>] = <<>>
      /\ \A a \in Seq(Nat), b \in Seq(Nat) : m[a \o b] = m[a] \o m[b]
  <2>1. \A a \in Seq(Nat) : m[a] = Marked(dropped, k, a)
    OBVIOUS
  <2>2. <<>> \in Seq(Nat) /\ \A a \in Seq(Nat), b \in Seq(Nat) : a \o b \in Seq(Nat)
    BY ConcatProperties
  <2>. HIDE DEF m
  <2>3. ASSUME NEW a \in Seq(Nat) PROVE m[a] = Marked(dropped, k, a) /\ m[a] \in Seq(Words)
    <3>1. Marked(dropped, k, a) \in Seq(Words)
      BY MarkedConcat
    <3>q. QED
      BY <2>1, <3>1
  <2>4. m[<<>>] = <<>>
    BY <2>1, <2>2, MarkedConcat
  <2>5. ASSUME NEW a \in Seq(Nat), NEW b \in Seq(Nat) PROVE m[a \o b] = m[a] \o m[b]
    <3>1. Marked(dropped, k, a \o b) = Marked(dropped, k, a) \o Marked(dropped, k, b)
      BY MarkedConcat
    <3>q. QED
      BY <2>1, <2>2, <3>1
  <2>q. QED
    BY <2>3, <2>4, <2>5
<1>3. PICK f \in [0..L -> Seq(Nat)] :
        /\ f[0] = <<>> /\ \A n \in 1..L : f[n] = f[n - 1] \o ss[n]
        /\ FlattenSeq(ss) = f[L]
  BY FlatHas
<1>. DEFINE g == [n \in 0..L |-> m[f[n]]]
<1>4. y = [i \in 1..L |-> y[i]] /\ \A i \in 1..L : y[i] = m[ss[i]]
  BY <1>1
<1>. HIDE DEF m, y
<1>5. y \in Seq(Seq(Words)) /\ Len(y) = L
  <2>. DEFINE Z == Seq(Words)
  <2>1. \A i \in 1..L : y[i] \in Z
    BY <1>1, <1>2, <1>4
  <2>. HIDE DEF Z, L
  <2>2. y \in Seq(Z) /\ Len(y) = L
    BY <1>1, <1>4, <2>1, SeqFrom
  <2>q. QED
    BY <2>2 DEF Z
<1>6. g[0] = <<>> /\ g[L] = m[f[L]] /\ \A n \in 1..L : g[n] = g[n - 1] \o y[n]
  <2>1. 0 \in 0..L /\ L \in 0..L /\ \A n \in 1..L : n \in 0..L /\ n - 1 \in 0..L
    BY <1>1
  <2>2. ASSUME NEW n \in 1..L PROVE g[n] = g[n - 1] \o y[n]
    <3>1. f[n - 1] \in Seq(Nat) /\ ss[n] \in Seq(Nat) /\ f[n] = f[n - 1] \o ss[n]
      BY <1>1, <1>3, <2>1
    <3>2. m[f[n]] = m[f[n - 1]] \o m[ss[n]]
      BY <1>2, <3>1
    <3>q. QED
      BY <1>4, <2>1, <3>2
  <2>q. QED
    BY <1>2, <1>3, <2>1, <2>2
<1>. HIDE DEF g
<1>7. FlattenSeq(y) = g[L]
  <2>. DEFINE W == Words
  <2>1. y \in Seq(Seq(W)) /\ \A n \in 1..Len(y) : g[n] = g[n - 1] \o y[n]
    BY <1>5, <1>6
  <2>. HIDE DEF W
  <2>2. FlattenSeq(y) = g[Len(y)]
    BY <1>6, <2>1, FlatIs
  <2>q. QED
    BY <1>5, <2>2
<1>8. f[L] \in Seq(Nat)
  BY <1>1, <1>3
<1>q. QED
  BY <1>2, <1>3, <1>5, <1>6, <1>7, <1>8 DEF y

LEMMA BodyIs ==
    ASSUME document \in Seq(Blocks), NEW k \in 1..Len(document)
    PROVE  /\ k \in Nat /\ document[k] \in Blocks /\ document[k].text \in Texts
           /\ \A x \in Texts : BodyOf(k, x) \in Seq(Words) /\ Bare(document[k], x) \in Seq(Nat)
           /\ \A x : BodyOf(k, x) = Marked(IsHeading(document[k]), k, Bare(document[k], x))
           /\ BlockBody(k) \in Seq(Words)
<1>1. k \in Nat /\ document[k] \in Blocks
  BY LenProperties, ElementOfSeq
<1>2. document[k].text \in Texts /\ document[k].text # <<>>
  BY <1>1, ChunkerAssumption DEF Texts
<1>3. \A x : BodyOf(k, x) = Marked(IsHeading(document[k]), k, Bare(document[k], x))
  BY DEF BodyOf, Marked, Bare
<1>4. ASSUME NEW x \in Texts PROVE Bare(document[k], x) \in Seq(Nat)
  <2>1. CASE x = <<>> /\ document[k].type = "table"
    <3>1. Tail(x) = <<>>
      BY <2>1
    <3>2. <<>> \in Texts
      BY DEF Texts
    <3>q. QED
      BY <2>1, <3>1, <3>2, FlatType DEF Bare, Texts
  <2>2. CASE x # <<>> /\ document[k].type = "table"
    <3>1. Tail(x) \in Texts
      BY <2>2, HeadTailProperties DEF Texts
    <3>q. QED
      BY <2>2, <3>1, FlatType DEF Bare, Texts
  <2>3. CASE document[k].type # "table"
    BY <2>3, FlatType DEF Bare, Texts
  <2>q. QED
    BY <2>1, <2>2, <2>3
<1>5. ASSUME NEW x \in Texts PROVE BodyOf(k, x) \in Seq(Words)
  <2>1. Bare(document[k], x) \in Seq(Nat)
    BY <1>4
  <2>. DEFINE d == IsHeading(document[k])
              w == Bare(document[k], x)
  <2>2. BodyOf(k, x) = Marked(d, k, w)
    BY <1>3
  <2>. HIDE DEF d, w
  <2>3. w \in Seq(Nat)
    BY <2>1 DEF w
  <2>4. Marked(d, k, w) \in Seq(Words)
    BY <1>1, <2>3, MarkedConcat
  <2>q. QED
    BY <2>2, <2>4
<1>q. QED
  BY <1>1, <1>2, <1>3, <1>4, <1>5 DEF BlockBody

\* The parts of a block carry what the block says.
LEMMA PartsBody ==
    ASSUME document \in Seq(Blocks), NEW k \in 1..Len(document)
    PROVE  LET parts == Split(document[k])
           IN  /\ parts \in Seq(Texts)
               /\ FlattenSeq([i \in DOMAIN parts |-> BodyOf(k, parts[i])]) = BlockBody(k)
<1>. DEFINE b == document[k]
            parts == Split(b)
            ss == [i \in DOMAIN parts |-> Bare(b, parts[i])]
            n == Len(parts)
<1>1. /\ k \in Nat /\ b \in Blocks
      /\ \A x \in Texts : Bare(b, x) \in Seq(Nat)
      /\ \A x : BodyOf(k, x) = Marked(IsHeading(b), k, Bare(b, x))
  BY BodyIs
<1>2. parts \in Seq(Texts) /\ FlattenSeq(ss) = Bare(b, b.text)
  BY <1>1, SplitOf DEF SplitSound
<1>. HIDE DEF b, parts
<1>3. n \in Nat /\ DOMAIN parts = 1..n /\ \A i \in 1..n : parts[i] \in Texts
  <2>. DEFINE Z == Texts
  <2>1. parts \in Seq(Z)
    BY <1>2
  <2>. HIDE DEF Z
  <2>2. n \in Nat /\ DOMAIN parts = 1..n /\ \A i \in 1..n : parts[i] \in Z
    BY <2>1, LenProperties, ElementOfSeq
  <2>q. QED
    BY <2>2 DEF Z
<1>4. ss = [i \in 1..n |-> ss[i]] /\ DOMAIN ss = DOMAIN parts /\ \A i \in 1..n : ss[i] = Bare(b, parts[i]) /\ ss[i] \in Seq(Nat)
  BY <1>1, <1>3
<1>. HIDE DEF n, ss
<1>5. ss \in Seq(Seq(Nat))
  BY <1>3, <1>4, LinesSeq
<1>6. [i \in DOMAIN parts |-> BodyOf(k, parts[i])] = [i \in DOMAIN ss |-> Marked(IsHeading(b), k, ss[i])]
  BY <1>1, <1>3, <1>4
<1>7. FlattenSeq([i \in DOMAIN ss |-> Marked(IsHeading(b), k, ss[i])]) = Marked(IsHeading(b), k, FlattenSeq(ss))
  BY <1>1, <1>5, MarkedFlat
<1>q. QED
  BY <1>1, <1>2, <1>6, <1>7 DEF BlockBody, parts, b, ss

(***************************************************************************)
(* Chunking: the sizes of spans, and the parents.                          *)
(***************************************************************************)
LEMMA SizeIs ==
    ASSUME document \in Seq(Blocks), NEW lo \in 1..Len(document), NEW hi \in 1..Len(document), lo <= hi
    PROVE  /\ SizeOf(document, <<lo, hi>>) \in Nat
           /\ lo = hi => SizeOf(document, <<lo, hi>>) = Tokens(document[lo].text)
<1>. DEFINE s == SubSeq(document, lo, hi)
            q == [k \in DOMAIN s |-> Tokens(s[k].text)]
            n == Len(s)
<1>1. s \in Seq(Blocks) /\ n = hi - lo + 1 /\ lo \in Int /\ hi \in Int
  BY SubSeqOf, LenProperties
<1>2. SizeOf(document, <<lo, hi>>) = SumOf(q) + Sep * (n - 1)
  BY DEF SizeOf, JoinTokens
<1>3. \A b \in Blocks : Tokens(b.text) \in Nat
  BY ChunkerAssumption, TokensOf DEF Texts
<1>4. s = [k \in 1..(hi - lo + 1) |-> document[lo + k - 1]]
  BY <1>1
<1>. HIDE DEF s
<1>5. n \in Nat /\ n >= 1 /\ DOMAIN s = 1..n /\ \A k \in 1..n : s[k] \in Blocks
  BY <1>1, LenProperties, ElementOfSeq
<1>6. q = [k \in 1..n |-> q[k]] /\ (\A k \in 1..n : q[k] = Tokens(s[k].text) /\ q[k] \in Nat)
  BY <1>3, <1>5
<1>. HIDE DEF n, q
<1>7. q \in Seq(Nat) /\ Len(q) = n
  <2>. DEFINE Z == Nat
  <2>1. \A k \in 1..n : q[k] \in Z
    BY <1>6
  <2>. HIDE DEF Z
  <2>2. q \in Seq(Z) /\ Len(q) = n
    BY <1>5, <1>6, <2>1, SeqFrom
  <2>q. QED
    BY <2>2 DEF Z
<1>8. SumOf(q) \in Nat
  BY <1>7, SumsOf
<1>9. Sep * (n - 1) \in Nat
  <2>1. n - 1 \in Nat /\ Sep \in Nat
    BY <1>5, ChunkerAssumption
  <2>. DEFINE z == n - 1
  <2>2. z \in Nat
    BY <2>1
  <2>. HIDE DEF z
  <2>3. Sep * z \in Nat
    BY <2>1, <2>2
  <2>q. QED
    BY <2>3 DEF z
<1>10. ASSUME lo = hi PROVE SizeOf(document, <<lo, hi>>) = Tokens(document[lo].text)
  <2>1. n = 1
    BY <1>1, <1>10
  <2>2. Sep * (n - 1) = 0
    <3>1. n - 1 = 0 /\ Sep \in Nat
      BY <2>1, ChunkerAssumption
    <3>q. QED
      BY <3>1
  <2>3. s[1] = document[lo]
    <3>1. 1 \in 1..(hi - lo + 1) /\ lo + 1 - 1 = lo
      BY <1>1, <1>10
    <3>q. QED
      BY <1>4, <3>1
  <2>4. q[1] = Tokens(document[lo].text) /\ q[1] \in Nat
    BY <1>6, <2>1, <2>3
  <2>. DEFINE x == q[1]
  <2>5. q = <<x>>
    BY <1>6, <2>1
  <2>6. x \in Nat
    BY <2>4
  <2>. HIDE DEF x
  <2>7. SumOf(<<x>>) = x
    BY <2>6, SumOne
  <2>q. QED
    BY <1>2, <2>2, <2>4, <2>5, <2>6, <2>7 DEF x
<1>q. QED
  BY <1>2, <1>8, <1>9, <1>10

\* A parent holds one section, and more than the budget only as a single block.
Parental(p) ==
    /\ \A i \in p.lo..p.hi : document[i].section = document[p.lo].section
    /\ p.lo < p.hi => SizeOf(document, <<p.lo, p.hi>>) <= ParentMax

LEMMA ParentsOf ==
    ASSUME document \in Seq(Blocks)
    PROVE  LET spans == _group_parent_spans(document)
           IN  /\ spans \in Seq(Pieces) /\ Tiles(spans, 1, Len(document))
               /\ Len(spans) \in Nat /\ DOMAIN spans = 1..Len(spans)
               /\ \A s \in 1..Len(spans) :
                    /\ spans[s].lo \in 1..Len(document) /\ spans[s].hi \in 1..Len(document)
                    /\ spans[s].lo <= spans[s].hi /\ Parental(spans[s])
<1>. DEFINE n == Len(document)
            pairs == Pairs(1, n)
            over  == {p \in pairs : p[1] < p[2] /\ SizeOf(document, p) > ParentMax}
            turns == {p \in pairs : p[1] < p[2] /\ document[p[2]].section # document[p[2] - 1].section}
            full  == {p \in pairs : SizeOf(document, p) >= ParentTarget /\ ~IsHeading(document[p[2]])}
            structured == \E k \in DOMAIN document : document[k].section # "none"
            spans == _group_parent_spans(document)
<1>1. n \in Nat /\ DOMAIN document = 1..n /\ 1 \in Int /\ n \in Int /\ 1 <= n + 1
  BY LenProperties
<1>2. /\ structured => spans = Cut(1, n, {}, over \cup turns, {})
      /\ ~structured => spans = Cut(1, n, {}, over, full)
  BY DEF _group_parent_spans
<1>. DEFINE before == IF structured THEN over \cup turns ELSE over
            Done(c) == /\ c \in Seq(Pieces) /\ Tiles(c, 1, n) /\ Len(c) \in Nat /\ DOMAIN c = 1..Len(c)
                       /\ \A i \in 1..Len(c) :
                            /\ c[i].lo \in 1..n /\ c[i].hi \in 1..n /\ c[i].lo <= c[i].hi /\ ~c[i].alone
                            /\ \A k \in (c[i].lo + 1)..c[i].hi : <<c[i].lo, k>> \notin before
<1>3. Done(spans)
  <2>1. CASE structured
    <3>. DEFINE o == over \cup turns
    <3>1. before = o /\ spans = Cut(1, n, {}, o, {})
      BY <1>2, <2>1
    <3>. HIDE DEF o, n, before, spans, structured, over, turns
    <3>2. Done(Cut(1, n, {}, o, {}))
      BY <1>1, <3>1, CutPieces
    <3>q. QED
      BY <3>1, <3>2
  <2>2. CASE ~structured
    <3>1. before = over /\ spans = Cut(1, n, {}, over, full)
      BY <1>2, <2>2
    <3>. HIDE DEF n, before, spans, structured, over, turns, full
    <3>2. Done(Cut(1, n, {}, over, full))
      BY <1>1, <3>1, CutPieces
    <3>q. QED
      BY <3>1, <3>2
  <2>q. QED
    BY <2>1, <2>2
<1>4. ASSUME NEW lo \in 1..n, NEW hi \in 1..n, lo < hi, <<lo, hi>> \notin over
      PROVE  SizeOf(document, <<lo, hi>>) <= ParentMax
  <2>1. <<lo, hi>> \in pairs
    BY <1>1, <1>4 DEF Pairs
  <2>2. ~(SizeOf(document, <<lo, hi>>) > ParentMax)
    BY <1>4, <2>1
  <2>3. SizeOf(document, <<lo, hi>>) \in Nat /\ ParentMax \in Nat
    BY <1>4, SizeIs, ChunkerAssumption
  <2>q. QED
    BY <2>2, <2>3
<1>5. ASSUME NEW lo \in 1..n, NEW hi \in 1..n, lo < hi, <<lo, hi>> \notin turns
      PROVE  document[hi].section = document[hi - 1].section
  <2>1. <<lo, hi>> \in pairs
    BY <1>1, <1>5 DEF Pairs
  <2>q. QED
    BY <1>5, <2>1
<1>6. ~structured => \A i \in 1..n : document[i].section = "none"
  BY <1>1
<1>7. before \subseteq over \cup turns /\ over \subseteq before /\ (structured => turns \subseteq before)
  OBVIOUS
<1>. HIDE DEF n, pairs, over, turns, full, structured, before, spans
<1>8. ASSUME NEW s \in 1..Len(spans) PROVE Parental(spans[s])
  <2>. DEFINE lo == spans[s].lo
              hi == spans[s].hi
  <2>1. lo \in 1..n /\ hi \in 1..n /\ lo <= hi /\ \A k \in (lo + 1)..hi : <<lo, k>> \notin before
    BY <1>3
  <2>. HIDE DEF lo, hi
  <2>2. ASSUME lo < hi PROVE SizeOf(document, <<lo, hi>>) <= ParentMax
    <3>1. hi \in (lo + 1)..hi
      BY <1>1, <2>1, <2>2
    <3>q. QED
      BY <1>4, <1>7, <2>1, <2>2, <3>1
  <2>3. ASSUME NEW i \in lo..hi PROVE document[i].section = document[lo].section
    <3>1. CASE ~structured
      <4>1. i \in 1..n
        BY <1>1, <2>1
      <4>q. QED
        BY <1>6, <2>1, <3>1, <4>1
    <3>2. CASE structured
      <4>. DEFINE P == {k \in 0..(hi - lo) : document[lo + k].section = document[lo].section}
                  L == hi - lo
      <4>1. L \in Nat /\ i - lo \in 0..L /\ lo + (i - lo) = i /\ lo + 0 = lo
        BY <1>1, <2>1
      <4>2. 0 \in P
        BY <4>1
      <4>3. ASSUME NEW k \in 1..L, k - 1 \in P PROVE k \in P
        <5>1. /\ lo + k \in (lo + 1)..hi /\ lo + k \in 1..n /\ lo < lo + k /\ (lo + k) - 1 = lo + (k - 1) /\ k \in 0..L
          BY <1>1, <2>1
        <5>2. <<lo, lo + k>> \notin turns
          BY <1>7, <2>1, <3>2, <5>1
        <5>3. document[lo + k].section = document[(lo + k) - 1].section
          BY <1>5, <2>1, <5>1, <5>2
        <5>q. QED
          BY <4>3, <5>1, <5>3
      <4>. HIDE DEF L, P
      <4>4. 0..L \subseteq P
        BY <4>1, <4>2, <4>3, InductionUpTo
      <4>5. i - lo \in P
        BY <4>1, <4>4
      <4>q. QED
        BY <4>1, <4>5 DEF P
    <3>q. QED
      BY <3>1, <3>2
  <2>q. QED
    BY <2>2, <2>3 DEF Parental, lo, hi
<1>q. QED
  BY <1>3, <1>8 DEF n, spans

\* Two children that are the same piece of the same block have different
\* occurrence numbers.
LEMMA IdsDiffer ==
    ASSUME NEW U, NEW units \in Seq(U)
    PROVE  IsInjective([k \in DOMAIN units |-> <<units[k].lo, units[k].hi, units[k].text, Occurrence(units, k)>>])
<1>. DEFINE n == Len(units)
            same(j, k) == <<units[j].lo, units[j].hi>> = <<units[k].lo, units[k].hi>> /\ units[j].text = units[k].text
            before(k) == {j \in 1..(k - 1) : same(j, k)}
            ids == [k \in DOMAIN units |-> <<units[k].lo, units[k].hi, units[k].text, Occurrence(units, k)>>]
<1>1. n \in Nat /\ DOMAIN units = 1..n
  BY LenProperties
<1>2. \A k \in 1..n : Occurrence(units, k) = Cardinality(before(k))
  BY DEF Occurrence
<1>3. ASSUME NEW j \in 1..n, NEW k \in 1..n, j < k, same(j, k)
      PROVE  Cardinality(before(j)) # Cardinality(before(k))
  <2>1. before(j) \subseteq before(k)
    BY <1>1, <1>3
  <2>2. j \in before(k) /\ j \notin before(j)
    BY <1>1, <1>3
  <2>3. IsFiniteSet(before(k))
    <3>1. IsFiniteSet(1..(k - 1)) /\ before(k) \in SUBSET (1..(k - 1))
      BY FS_Interval
    <3>. HIDE DEF before
    <3>q. QED
      BY <3>1, FS_Subset
  <2>. HIDE DEF before
  <2>q. QED
    BY <2>1, <2>2, <2>3, FS_Subset
<1>4. ASSUME NEW j \in 1..n, NEW k \in 1..n, ids[j] = ids[k] PROVE j = k
  <2>1. same(j, k) /\ same(k, j) /\ Occurrence(units, j) = Occurrence(units, k)
    BY <1>1, <1>4
  <2>2. Cardinality(before(j)) = Cardinality(before(k))
    <3>. HIDE DEF before
    <3>q. QED
      BY <1>2, <2>1
  <2>. HIDE DEF before, same
  <2>3. ~(j < k) /\ ~(k < j)
    BY <1>3, <2>1, <2>2
  <2>q. QED
    BY <1>1, <2>3
<1>5. DOMAIN ids = 1..n
  BY <1>1
<1>. HIDE DEF ids, n
<1>q. QED
  BY <1>4, <1>5 DEF IsInjective, ids

(***************************************************************************)
(* Chunking: the pieces of a span and the children made of them.           *)
(***************************************************************************)
Childlike(p) ==
    /\ p.alone => p.lo = p.hi
    /\ ~p.alone /\ p.lo < p.hi => SizeOf(document, <<p.lo, p.hi>>) <= ChildMax
    /\ ~p.alone /\ p.lo = p.hi => IsHeading(document[p.lo]) \/ Tokens(document[p.lo].text) <= ChildMax

LEMMA ChildPiecesOf ==
    ASSUME document \in Seq(Blocks), NEW span,
           span.lo \in 1..Len(document), span.hi \in 1..Len(document), span.lo <= span.hi
    PROVE  LET ps == ChildPieces(document, span)
           IN  /\ ps \in Seq(Pieces) /\ Tiles(ps, span.lo, span.hi) /\ Len(ps) \in Nat /\ DOMAIN ps = 1..Len(ps)
               /\ \A i \in 1..Len(ps) :
                    /\ ps[i].lo \in span.lo..span.hi /\ ps[i].hi \in span.lo..span.hi
                    /\ ps[i].lo <= ps[i].hi /\ ps[i].alone \in BOOLEAN /\ Childlike(ps[i])
<1>. DEFINE lo == span.lo
            hi == span.hi
            pairs == Pairs(lo, hi)
            waits(p) == p[1] = p[2] /\ IsHeading(document[p[2]])
            alone  == {p \in pairs : ~waits(p) /\ Tokens(document[p[2]].text) > ChildMax}
            before == {p \in pairs : p[1] < p[2] /\ Overflows(SizeOf(document, p))}
            after  == {p \in pairs : SizeOf(document, p) >= ChildTarget /\ ~IsHeading(document[p[2]])}
            ps == ChildPieces(document, span)
<1>1. lo \in Int /\ hi \in Int /\ lo <= hi + 1 /\ lo \in 1..Len(document) /\ hi \in 1..Len(document)
  BY LenProperties
<1>2. ps = Cut(lo, hi, alone, before, after)
  BY DEF ChildPieces
<1>3. ASSUME NEW f \in lo..hi, NEW k \in lo..hi, f <= k, <<f, k>> \notin alone
      PROVE  IsHeading(document[k]) \/ Tokens(document[k].text) <= ChildMax
  <2>1. <<f, k>> \in pairs
    BY <1>3 DEF Pairs
  <2>2. waits(<<f, k>>) \/ ~(Tokens(document[k].text) > ChildMax)
    BY <1>3, <2>1
  <2>3. Tokens(document[k].text) \in Nat /\ ChildMax \in Nat
    <3>1. k \in 1..Len(document)
      BY <1>1
    <3>2. document[k].text \in Texts
      BY <3>1, BodyIs
    <3>q. QED
      BY <3>2, TokensOf, ChunkerAssumption
  <2>q. QED
    BY <2>2, <2>3
<1>4. ASSUME NEW f \in lo..hi, NEW k \in lo..hi, f < k, <<f, k>> \notin before
      PROVE  SizeOf(document, <<f, k>>) <= ChildMax
  <2>1. <<f, k>> \in pairs /\ f \in 1..Len(document) /\ k \in 1..Len(document)
    BY <1>1, <1>4 DEF Pairs
  <2>2. ~(SizeOf(document, <<f, k>>) > ChildMax)
    BY <1>4, <2>1 DEF Overflows
  <2>3. SizeOf(document, <<f, k>>) \in Nat /\ ChildMax \in Nat
    BY <1>4, <2>1, SizeIs, ChunkerAssumption
  <2>q. QED
    BY <2>2, <2>3
<1>. HIDE DEF alone, before, after, pairs, ps
<1>5. CutSound(ps, lo, hi, alone, before)
  <2>. HIDE DEF lo, hi
  <2>q. QED
    BY <1>1, <1>2, CutOf
<1>6. ps \in Seq(Pieces) /\ Tiles(ps, lo, hi) /\ Len(ps) \in Nat /\ DOMAIN ps = 1..Len(ps)
  BY <1>5, LenProperties DEF CutSound
<1>. HIDE DEF lo, hi
<1>7. ASSUME NEW i \in 1..Len(ps)
      PROVE  /\ ps[i].lo \in lo..hi /\ ps[i].hi \in lo..hi
             /\ ps[i].lo <= ps[i].hi /\ ps[i].alone \in BOOLEAN /\ Childlike(ps[i])
  <2>. DEFINE p == ps[i]
  <2>1. p \in Pieces /\ lo <= p.lo /\ p.lo <= p.hi /\ p.hi <= hi
    BY <1>1, <1>6, TilesWithin
  <2>2. Earned(p, lo, alone, before)
    BY <1>5, <1>6 DEF CutSound
  <2>. HIDE DEF p
  <2>3. p.lo \in lo..hi /\ p.hi \in lo..hi /\ p.lo \in Int /\ p.hi \in Int /\ p.alone \in BOOLEAN
    BY <1>1, <2>1 DEF Pieces
  <2>4. p.alone => p.lo = p.hi
    BY <2>2 DEF Earned
  <2>5. ASSUME ~p.alone, p.lo < p.hi PROVE SizeOf(document, <<p.lo, p.hi>>) <= ChildMax
    <3>1. p.hi \in (p.lo + 1)..p.hi
      BY <2>3, <2>5
    <3>2. <<p.lo, p.hi>> \notin before
      BY <2>2, <2>5, <3>1 DEF Earned, Joined
    <3>q. QED
      BY <1>4, <2>3, <2>5, <3>2
  <2>6. ASSUME ~p.alone, p.lo = p.hi PROVE IsHeading(document[p.lo]) \/ Tokens(document[p.lo].text) <= ChildMax
    <3>1. PICK f \in lo..p.lo : <<f, p.lo>> \notin alone
      BY <2>2, <2>6 DEF Earned, Joined
    <3>2. f \in lo..hi /\ f <= p.lo
      BY <1>1, <2>3, <3>1
    <3>q. QED
      BY <1>3, <2>3, <3>1, <3>2
  <2>7. Childlike(p)
    BY <2>4, <2>5, <2>6 DEF Childlike
  <2>q. QED
    BY <2>1, <2>3, <2>7 DEF p
<1>q. QED
  BY <1>6, <1>7 DEF lo, hi, ps

\* The words of each block, and of the blocks of a range.
Bodies == [k \in 1..Len(document) |-> BlockBody(k)]
Body(lo, hi) == FlattenSeq(SubSeq(Bodies, lo, hi))

LEMMA BodiesOf ==
    ASSUME document \in Seq(Blocks)
    PROVE  /\ Bodies \in Seq(Seq(Words)) /\ Len(Bodies) = Len(document) /\ Len(document) \in Nat
           /\ \A lo \in 1..Len(document), hi \in 1..Len(document) : lo <= hi =>
                /\ SubSeq(Bodies, lo, hi) \in Seq(Seq(Words))
                /\ SubSeq(Bodies, lo, hi) = [i \in 1..(hi - lo + 1) |-> BlockBody(lo + i - 1)]
                /\ Body(lo, hi) \in Seq(Words)
           /\ \A k \in 1..Len(document) : Body(k, k) = BlockBody(k) /\ BlockBody(k) \in Seq(Words)
<1>. DEFINE n == Len(document)
            Z == Seq(Words)
            b == Bodies
<1>1. n \in Nat
  BY LenProperties
<1>2. \A k \in 1..n : BlockBody(k) \in Z
  BY BodyIs
<1>3. b = [k \in 1..n |-> b[k]] /\ \A k \in 1..n : b[k] = BlockBody(k) /\ b[k] \in Z
  BY <1>2 DEF Bodies
<1>. HIDE DEF n, Z, b
<1>4. b \in Seq(Z) /\ Len(b) = n
  BY <1>1, <1>3, SeqFrom
<1>5. ASSUME NEW lo \in 1..n, NEW hi \in 1..n, lo <= hi
      PROVE  /\ SubSeq(b, lo, hi) \in Seq(Z)
             /\ SubSeq(b, lo, hi) = [i \in 1..(hi - lo + 1) |-> BlockBody(lo + i - 1)]
             /\ FlattenSeq(SubSeq(b, lo, hi)) \in Seq(Words)
  <2>. DEFINE s == SubSeq(b, lo, hi)
  <2>1. s \in Seq(Z) /\ Len(s) = hi - lo + 1
    BY <1>4, <1>5, SubSeqOf
  <2>2. s = [i \in 1..(hi - lo + 1) |-> b[lo + i - 1]]
    BY <2>1
  <2>3. \A i \in 1..(hi - lo + 1) : b[lo + i - 1] = BlockBody(lo + i - 1)
    <3>1. \A i \in 1..(hi - lo + 1) : lo + i - 1 \in 1..n
      BY <1>1, <1>5
    <3>q. QED
      BY <1>3, <3>1
  <2>4. s = [i \in 1..(hi - lo + 1) |-> BlockBody(lo + i - 1)]
    BY <2>2, <2>3
  <2>. HIDE DEF s
  <2>5. FlattenSeq(s) \in Seq(Words)
    BY <2>1, FlatType DEF Z
  <2>q. QED
    BY <2>1, <2>4, <2>5 DEF s
<1>6. ASSUME NEW k \in 1..n PROVE FlattenSeq(SubSeq(b, k, k)) = BlockBody(k)
  <2>1. SubSeq(b, k, k) = [i \in 1..(k - k + 1) |-> BlockBody(k + i - 1)]
    BY <1>1, <1>5
  <2>. DEFINE x == BlockBody(k)
  <2>2. k - k + 1 = 1 /\ \A i \in 1..1 : k + i - 1 = k
    BY <1>1
  <2>3. SubSeq(b, k, k) = <<x>>
    BY <2>1, <2>2
  <2>. HIDE DEF x
  <2>4. x \in Seq(Words)
    BY <1>2 DEF x, Z
  <2>5. FlattenSeq(<<x>>) = x
    BY <2>4, FlatOne
  <2>q. QED
    BY <2>3, <2>5 DEF x
<1>q. QED
  BY <1>1, <1>2, <1>4, <1>5, <1>6 DEF Body, n, Z, b

\* The children a document may have: over the limit only what cannot be split,
\* or a heading that is all of its parent.
Single(spans, k) == \E s \in DOMAIN spans : spans[s].lo = k /\ spans[s].hi = k
Fits(u, spans) ==
    UnitSize(document, u) > ChildMax =>
      /\ u.lo = u.hi
      /\ \/ u.mode = "merged" /\ IsHeading(document[u.lo]) /\ Single(spans, u.lo)
         \/ u.mode = "oversized" /\ Least(document[u.lo], u.text)
Good(spans) ==
    {u \in [lo : Nat, hi : Nat, text : Texts, mode : {"merged", "split", "oversized"}] :
       /\ u.lo \in 1..Len(document) /\ u.hi \in 1..Len(document) /\ u.lo <= u.hi
       /\ Fits(u, spans)}
Carries(spans) == [u \in Good(spans) |-> Carried(u)]

LEMMA CarriesOf ==
    ASSUME document \in Seq(Blocks), NEW spans
    PROVE  /\ Carries(spans) \in Readings(Good(spans), Words)
           /\ \A u \in Good(spans) :
                /\ Carries(spans)[u] = Carried(u) /\ Carried(u) \in Seq(Words)
                /\ u.mode = "merged" => Carried(u) = Body(u.lo, u.hi)
<1>1. ASSUME NEW u \in Good(spans)
      PROVE  Carried(u) \in Seq(Words) /\ (u.mode = "merged" => Carried(u) = Body(u.lo, u.hi))
  <2>. DEFINE lo == u.lo
              hi == u.hi
  <2>1. lo \in 1..Len(document) /\ hi \in 1..Len(document) /\ lo <= hi /\ u.text \in Texts
    BY DEF Good
  <2>2. u.mode = "merged" => Carried(u) = FlattenSeq([i \in 1..(hi - lo + 1) |-> BlockBody(lo + i - 1)])
    BY DEF Carried
  <2>3. u.mode # "merged" => Carried(u) = BodyOf(lo, u.text)
    BY DEF Carried
  <2>. HIDE DEF lo, hi
  <2>4. /\ SubSeq(Bodies, lo, hi) = [i \in 1..(hi - lo + 1) |-> BlockBody(lo + i - 1)]
        /\ Body(lo, hi) \in Seq(Words)
    BY <2>1, BodiesOf
  <2>5. BodyOf(lo, u.text) \in Seq(Words)
    BY <2>1, BodyIs
  <2>6. u.mode = "merged" => Carried(u) = Body(lo, hi)
    BY <2>2, <2>4 DEF Body
  <2>q. QED
    BY <2>3, <2>4, <2>5, <2>6 DEF lo, hi
<1>2. Carries(spans) \in Readings(Good(spans), Words)
  BY <1>1 DEF Carries, Readings
<1>3. \A u \in Good(spans) : Carries(spans)[u] = Carried(u)
  BY DEF Carries
<1>q. QED
  BY <1>1, <1>2, <1>3

LEMMA ReadsOne ==
    ASSUME NEW U, NEW W, NEW t \in Readings(U, W), NEW u \in U
    PROVE  <<u>> \in Seq(U) /\ Reads(t, <<u>>) = t[u]
<1>1. t[u] \in Seq(W)
  BY DEF Readings
<1>2. [i \in DOMAIN <<u>> |-> t[<<u>>[i]]] = <<t[u]>>
  OBVIOUS
<1>3. FlattenSeq(<<t[u]>>) = t[u]
  BY <1>1, FlatOne
<1>q. QED
  BY <1>2, <1>3 DEF Reads

LEMMA ReadsNone ==
    ASSUME NEW U, NEW t
    PROVE  <<>> \in Seq(U) /\ Reads(t, <<>>) = <<>>
<1>1. FlattenSeq(<<>>) \in Seq({})
  <2>1. <<>> \in Seq(Seq({}))
    OBVIOUS
  <2>q. QED
    BY <2>1, FlatType
<1>2. FlattenSeq(<<>>) = <<>>
  BY <1>1
<1>3. [i \in DOMAIN <<>> |-> t[<<>>[i]]] = <<>>
  OBVIOUS
<1>q. QED
  BY <1>2, <1>3 DEF Reads

\* The units made of a piece carry the bodies of its blocks.
LEMMA PieceUnits ==
    ASSUME document \in Seq(Blocks), NEW spans, NEW s \in DOMAIN spans, NEW p,
           spans[s].lo \in 1..Len(document), spans[s].hi \in 1..Len(document),
           p.lo \in spans[s].lo..spans[s].hi, p.hi \in spans[s].lo..spans[s].hi, p.lo <= p.hi,
           p.alone \in BOOLEAN, Childlike(p)
    PROVE  /\ UnitsOf(document, spans[s], p) \in Seq(Good(spans))
           /\ Reads(Carries(spans), UnitsOf(document, spans[s], p)) = Body(p.lo, p.hi)
<1>. DEFINE lo == p.lo
            hi == p.hi
            span == spans[s]
            G == Good(spans)
            t == Carries(spans)
            W == Words
            units == UnitsOf(document, span, p)
<1>1. /\ lo \in 1..Len(document) /\ hi \in 1..Len(document) /\ lo <= hi /\ lo \in Nat /\ hi \in Nat
      /\ span.lo <= lo /\ lo <= span.hi /\ span.lo \in Int /\ span.hi \in Int
  BY LenProperties
<1>2. t \in Readings(G, W)
  BY CarriesOf
<1>3. ChildMax \in Nat
  BY ChunkerAssumption
<1>4. CASE p.alone
  <2>. DEFINE parts == Split(document[lo])
              mode(i) == IF Tokens(parts[i]) > ChildMax THEN "oversized" ELSE "split"
              u(i) == Unit(lo, lo, parts[i], mode(i))
              n == Len(parts)
  <2>1. units = [i \in DOMAIN parts |-> u(i)] /\ lo = hi
    BY <1>4 DEF UnitsOf, Childlike
  <2>2. /\ parts \in Seq(Texts)
        /\ FlattenSeq([i \in DOMAIN parts |-> BodyOf(lo, parts[i])]) = BlockBody(lo)
    BY <1>1, PartsBody
  <2>3. \A i \in 1..Len(parts) : Tokens(parts[i]) > ChildMax => Least(document[lo], parts[i])
    <3>1. document[lo] \in Blocks
      BY <1>1, BodyIs
    <3>q. QED
      BY <3>1, SplitOf DEF SplitSound
  <2>. HIDE DEF parts
  <2>4. n \in Nat /\ DOMAIN parts = 1..n /\ \A i \in 1..n : parts[i] \in Texts
    <3>. DEFINE Z == Texts
    <3>1. parts \in Seq(Z)
      BY <2>2
    <3>. HIDE DEF Z
    <3>2. n \in Nat /\ DOMAIN parts = 1..n /\ \A i \in 1..n : parts[i] \in Z
      BY <3>1, LenProperties, ElementOfSeq
    <3>q. QED
      BY <3>2 DEF Z
  <2>5. ASSUME NEW i \in 1..n
        PROVE  u(i) \in Good(spans) /\ Carried(u(i)) = BodyOf(lo, parts[i])
    <3>. DEFINE v == u(i)
    <3>1. v.lo = lo /\ v.hi = lo /\ v.text = parts[i] /\ v.mode = mode(i)
      BY DEF Unit
    <3>2. v \in [lo : Nat, hi : Nat, text : Texts, mode : {"merged", "split", "oversized"}]
      BY <1>1, <2>4 DEF Unit
    <3>3. v.mode # "merged"
      BY <3>1
    <3>4. UnitSize(document, v) = Tokens(parts[i])
      BY <3>1, <3>3 DEF UnitSize
    <3>5. Tokens(parts[i]) > ChildMax => v.mode = "oversized"
      BY <3>1
    <3>. HIDE DEF v, u, mode
    <3>6. Fits(v, spans)
      BY <2>3, <3>1, <3>4, <3>5 DEF Fits
    <3>7. Carried(v) = BodyOf(lo, parts[i])
      BY <3>1, <3>3 DEF Carried
    <3>8. v \in Good(spans)
      BY <1>1, <3>1, <3>2, <3>6 DEF Good
    <3>q. QED
      BY <3>7, <3>8 DEF v
  <2>. HIDE DEF units, n, G, t
  <2>6. units = [i \in 1..n |-> units[i]] /\ \A i \in 1..n : units[i] = u(i)
    BY <2>1, <2>4
  <2>. HIDE DEF u
  <2>7. \A i \in 1..n : units[i] \in G /\ t[units[i]] = BodyOf(lo, parts[i])
    BY <2>5, <2>6, CarriesOf DEF G, t
  <2>8. units \in Seq(G) /\ DOMAIN units = 1..n
    BY <2>4, <2>6, <2>7, SeqFrom
  <2>9. [i \in DOMAIN units |-> t[units[i]]] = [i \in DOMAIN parts |-> BodyOf(lo, parts[i])]
    BY <2>4, <2>7, <2>8
  <2>10. Reads(t, units) = BlockBody(lo)
    BY <2>2, <2>9 DEF Reads
  <2>11. Body(lo, hi) = BlockBody(lo)
    BY <1>1, <2>1, BodiesOf
  <2>q. QED
    BY <2>8, <2>10, <2>11 DEF units, G, t
<1>5. CASE ~p.alone /\ LoneHeading(document, span, p)
  <2>1. units = <<>>
    BY <1>5 DEF UnitsOf
  <2>2. lo = hi /\ IsHeading(document[lo])
    BY <1>5 DEF LoneHeading
  <2>3. BlockBody(lo) = <<>>
    BY <2>2 DEF BlockBody, BodyOf
  <2>4. Body(lo, hi) = BlockBody(lo)
    BY <1>1, <2>2, BodiesOf
  <2>. HIDE DEF units, G, t
  <2>5. <<>> \in Seq(G) /\ Reads(t, <<>>) = <<>>
    BY ReadsNone
  <2>q. QED
    BY <2>1, <2>3, <2>4, <2>5 DEF units, G, t
<1>6. CASE ~p.alone /\ ~LoneHeading(document, span, p)
  <2>. DEFINE text == FlattenSeq([k \in 1..(hi - lo + 1) |-> document[lo + k - 1].text])
              u == Unit(lo, hi, text, "merged")
  <2>1. units = <<u>>
    BY <1>6 DEF UnitsOf
  <2>2. text \in Texts
    <3>. DEFINE n == hi - lo + 1
                Z == Seq(Nat)
                y == Seq(Z)
                q == [k \in 1..n |-> document[lo + k - 1].text]
    <3>1. n \in Nat /\ \A k \in 1..n : lo + k - 1 \in 1..Len(document)
      BY <1>1
    <3>2. \A k \in 1..n : document[lo + k - 1].text \in y
      BY <3>1, BodyIs DEF Texts
    <3>3. q = [k \in 1..n |-> q[k]] /\ \A k \in 1..n : q[k] \in y
      BY <3>2
    <3>. HIDE DEF n, q, y
    <3>4. q \in Seq(y)
      BY <3>1, <3>3, SeqFrom
    <3>. HIDE DEF Z
    <3>5. FlattenSeq(q) \in Seq(Z)
      BY <3>4, FlatType DEF y
    <3>q. QED
      BY <3>5 DEF q, n, Z, Texts
  <2>. HIDE DEF text
  <2>3. u.lo = lo /\ u.hi = hi /\ u.text = text /\ u.mode = "merged"
    BY DEF Unit
  <2>4. u \in [lo : Nat, hi : Nat, text : Texts, mode : {"merged", "split", "oversized"}]
    BY <1>1, <2>2 DEF Unit
  <2>. HIDE DEF u
  <2>5. UnitSize(document, u) = SizeOf(document, <<lo, hi>>)
    BY <2>3 DEF UnitSize
  <2>6. SizeOf(document, <<lo, hi>>) \in Nat /\ (lo = hi => SizeOf(document, <<lo, hi>>) = Tokens(document[lo].text))
    BY <1>1, SizeIs
  <2>7. ASSUME SizeOf(document, <<lo, hi>>) > ChildMax
        PROVE  lo = hi /\ IsHeading(document[lo]) /\ Single(spans, lo)
    <3>1. lo = hi
      BY <1>1, <1>3, <1>6, <2>6, <2>7 DEF Childlike
    <3>2. IsHeading(document[lo])
      BY <1>3, <1>6, <2>6, <2>7, <3>1 DEF Childlike
    <3>3. ~(span.lo < span.hi)
      BY <1>6, <3>1, <3>2 DEF LoneHeading
    <3>4. span.lo = lo /\ span.hi = lo
      BY <1>1, <3>3
    <3>q. QED
      BY <3>1, <3>2, <3>4 DEF Single
  <2>8. Fits(u, spans)
    BY <2>3, <2>5, <2>7 DEF Fits
  <2>9. u \in Good(spans)
    BY <1>1, <2>3, <2>4, <2>8 DEF Good
  <2>10. t[u] = Body(lo, hi)
    BY <2>3, <2>9, CarriesOf
  <2>. HIDE DEF units, G, t, W
  <2>11. <<u>> \in Seq(G) /\ Reads(t, <<u>>) = t[u]
    <3>1. u \in G
      BY <2>9 DEF G
    <3>q. QED
      BY <1>2, <3>1, ReadsOne
  <2>q. QED
    BY <2>1, <2>10, <2>11 DEF units, G, t
<1>q. QED
  BY <1>4, <1>5, <1>6

\* Every x[i] holds units of piece ps[i], which carry its bodies.
Covers(x, ps, spans) ==
    /\ x = [i \in 1..Len(ps) |-> x[i]]
    /\ \A i \in 1..Len(ps) : /\ x[i] \in Seq(Good(spans))
                             /\ Reads(Carries(spans), x[i]) = Body(ps[i].lo, ps[i].hi)

\* What is made of the pieces of a range carries the bodies of the range.
LEMMA RangeUnits ==
    ASSUME document \in Seq(Blocks), NEW spans,
           NEW lo \in 1..Len(document), NEW hi \in 1..Len(document), lo <= hi,
           NEW ps \in Seq(Pieces), Tiles(ps, lo, hi),
           NEW x, Covers(x, ps, spans)
    PROVE  /\ FlattenSeq(x) \in Seq(Good(spans))
           /\ Reads(Carries(spans), FlattenSeq(x)) = Body(lo, hi)
<1>. DEFINE G == Good(spans)
            t == Carries(spans)
            m == Len(ps)
            W == Words
            h == [a \in lo..hi |-> [b \in lo..hi |-> FlattenSeq(SubSeq(Bodies, a, b))]]
            y == [j \in DOMAIN x |-> Reads(t, x[j])]
<1>1. m \in Nat /\ lo \in Int /\ hi \in Int
  BY LenProperties
<1>2. t \in Readings(G, W)
  BY CarriesOf
<1>3. /\ Bodies \in Seq(Seq(W)) /\ lo \in 1..Len(Bodies) /\ hi \in 1..Len(Bodies)
      /\ \A a \in lo..hi, b \in lo..hi : a <= b => Body(a, b) \in Seq(W)
  <2>1. \A a \in lo..hi : a \in 1..Len(document)
    BY LenProperties
  <2>q. QED
    BY <2>1, BodiesOf
<1>4. ASSUME NEW i \in 1..m PROVE ps[i].lo \in lo..hi /\ ps[i].hi \in lo..hi /\ ps[i].lo <= ps[i].hi
  <2>1. ps[i] \in Pieces /\ lo <= ps[i].lo /\ ps[i].lo <= ps[i].hi /\ ps[i].hi <= hi
    BY <1>1, <1>4, TilesWithin
  <2>q. QED
    BY <1>1, <2>1 DEF Pieces
<1>5. x = [i \in 1..m |-> x[i]] /\ (\A i \in 1..m : x[i] \in Seq(G) /\ Reads(t, x[i]) = Body(ps[i].lo, ps[i].hi))
  BY DEF Covers
<1>6. Additive(h, lo, hi)
  <2>. HIDE DEF W
  <2>q. QED
    BY <1>3, FlatAdds
<1>7. \A a \in lo..hi, b \in lo..hi : h[a][b] = Body(a, b)
  BY DEF Body
<1>. HIDE DEF G, t, m, W, h
<1>8. x \in Seq(Seq(G))
  <2>. DEFINE Z == Seq(G)
  <2>1. \A i \in 1..m : x[i] \in Z
    BY <1>5
  <2>. HIDE DEF Z
  <2>2. x \in Seq(Z)
    BY <1>1, <1>5, <2>1, SeqFrom
  <2>q. QED
    BY <2>2 DEF Z
<1>9. FlattenSeq(x) \in Seq(G) /\ Reads(t, FlattenSeq(x)) = FlattenSeq(y)
  <2>1. FlattenSeq(x) \in Seq(G)
    BY <1>8, FlatType
  <2>2. Reads(t, FlattenSeq(x)) = FlattenSeq([j \in DOMAIN x |-> Reads(t, x[j])])
    BY <1>2, <1>8, ReadsNested
  <2>q. QED
    BY <2>1, <2>2
<1>10. y = [i \in 1..m |-> y[i]] /\ \A i \in 1..m : y[i] = h[ps[i].lo][ps[i].hi] /\ y[i] \in Seq(W)
  <2>1. DOMAIN x = 1..m
    BY <1>5
  <2>2. \A i \in 1..m : y[i] = Body(ps[i].lo, ps[i].hi)
    BY <1>5, <2>1
  <2>3. y = [i \in 1..m |-> y[i]]
    BY <2>1
  <2>. HIDE DEF y
  <2>q. QED
    BY <1>3, <1>4, <1>7, <2>2, <2>3
<1>. HIDE DEF y
<1>11. y \in Seq(Seq(W)) /\ Follows(y, ps, h)
  <2>. DEFINE Z == Seq(W)
  <2>1. \A i \in 1..m : y[i] \in Z
    BY <1>10
  <2>. HIDE DEF Z
  <2>2. y \in Seq(Z) /\ Len(y) = m
    BY <1>1, <1>10, <2>1, SeqFrom
  <2>q. QED
    BY <1>10, <2>2 DEF Z, Follows, m
<1>12. FlattenSeq(y) = h[lo][hi]
  BY <1>1, <1>6, <1>11, TilesFlat
<1>13. h[lo][hi] = Body(lo, hi)
  BY <1>1, <1>7
<1>q. QED
  BY <1>9, <1>12, <1>13 DEF G, t

LEMMA SpanUnitsOf ==
    ASSUME document \in Seq(Blocks), NEW spans, NEW s \in DOMAIN spans,
           spans[s].lo \in 1..Len(document), spans[s].hi \in 1..Len(document), spans[s].lo <= spans[s].hi
    PROVE  /\ SpanUnits(document, spans[s]) \in Seq(Good(spans))
           /\ Reads(Carries(spans), SpanUnits(document, spans[s])) = Body(spans[s].lo, spans[s].hi)
<1>. DEFINE span == spans[s]
            lo == span.lo
            hi == span.hi
            ps == ChildPieces(document, span)
            x == [i \in DOMAIN ps |-> UnitsOf(document, span, ps[i])]
<1>1. /\ ps \in Seq(Pieces) /\ Tiles(ps, lo, hi) /\ Len(ps) \in Nat /\ DOMAIN ps = 1..Len(ps)
      /\ \A i \in 1..Len(ps) :
           /\ ps[i].lo \in lo..hi /\ ps[i].hi \in lo..hi
           /\ ps[i].lo <= ps[i].hi /\ ps[i].alone \in BOOLEAN /\ Childlike(ps[i])
  BY ChildPiecesOf
<1>2. SpanUnits(document, span) = FlattenSeq(x)
  BY DEF SpanUnits
<1>. HIDE DEF ps
<1>3. ASSUME NEW i \in 1..Len(ps)
      PROVE  /\ UnitsOf(document, span, ps[i]) \in Seq(Good(spans))
             /\ Reads(Carries(spans), UnitsOf(document, span, ps[i])) = Body(ps[i].lo, ps[i].hi)
  <2>. DEFINE p == ps[i]
  <2>1. p.lo \in lo..hi /\ p.hi \in lo..hi /\ p.lo <= p.hi /\ p.alone \in BOOLEAN /\ Childlike(p)
    BY <1>1
  <2>. HIDE DEF p
  <2>2. UnitsOf(document, span, p) \in Seq(Good(spans)) /\ Reads(Carries(spans), UnitsOf(document, span, p)) = Body(p.lo, p.hi)
    BY <2>1, PieceUnits
  <2>q. QED
    BY <2>2 DEF p
<1>4. Covers(x, ps, spans)
  BY <1>1, <1>3 DEF Covers
<1>5. lo \in 1..Len(document) /\ hi \in 1..Len(document) /\ lo <= hi
  OBVIOUS
<1>. HIDE DEF x, lo, hi
<1>6. FlattenSeq(x) \in Seq(Good(spans)) /\ Reads(Carries(spans), FlattenSeq(x)) = Body(lo, hi)
  BY <1>1, <1>4, <1>5, RangeUnits
<1>q. QED
  BY <1>2, <1>6 DEF lo, hi

\* The children of a document: each is one it may have, together they carry it.
Spans == _group_parent_spans(document)
Children == FlattenSeq([s \in DOMAIN Spans |-> SpanUnits(document, Spans[s])])

LEMMA ChildrenOf ==
    ASSUME document \in Seq(Blocks)
    PROVE  /\ Children \in Seq(Good(Spans))
           /\ Reads(Carries(Spans), Children) = FlattenSeq(Bodies)
<1>. DEFINE n == Len(document)
            sp == Spans
            m == Len(sp)
            x == [s \in DOMAIN sp |-> SpanUnits(document, sp[s])]
<1>1. n \in Nat /\ Bodies \in Seq(Seq(Words)) /\ Len(Bodies) = n
  BY BodiesOf
<1>2. /\ sp \in Seq(Pieces) /\ Tiles(sp, 1, n) /\ m \in Nat /\ DOMAIN sp = 1..m
      /\ \A s \in 1..m : sp[s].lo \in 1..n /\ sp[s].hi \in 1..n /\ sp[s].lo <= sp[s].hi
  BY ParentsOf DEF Spans
<1>3. Children = FlattenSeq(x)
  BY DEF Children
<1>4. ASSUME NEW s \in 1..m
      PROVE  /\ SpanUnits(document, sp[s]) \in Seq(Good(sp))
             /\ Reads(Carries(sp), SpanUnits(document, sp[s])) = Body(sp[s].lo, sp[s].hi)
  <2>1. s \in DOMAIN sp /\ sp[s].lo \in 1..Len(document) /\ sp[s].hi \in 1..Len(document) /\ sp[s].lo <= sp[s].hi
    BY <1>2
  <2>. HIDE DEF sp
  <2>q. QED
    BY <2>1, SpanUnitsOf
<1>5. /\ x = [s \in 1..m |-> x[s]]
      /\ \A s \in 1..m : x[s] \in Seq(Good(sp)) /\ Reads(Carries(sp), x[s]) = Body(sp[s].lo, sp[s].hi)
  BY <1>2, <1>4
<1>6. CASE n = 0
  <2>1. sp = <<>>
    <3>1. 1 \in Int /\ n \in Int /\ n = 1 - 1
      BY <1>1, <1>6
    <3>. HIDE DEF sp, n
    <3>q. QED
      BY <1>2, <3>1, TilesWithin
  <2>2. x = <<>>
    BY <2>1
  <2>3. Bodies = <<>>
    BY <1>1, <1>6, EmptySeq
  <2>4. FlattenSeq(<<>>) = <<>>
    <3>1. Reads(<<>>, <<>>) = <<>> /\ [i \in DOMAIN <<>> |-> <<>>[<<>>[i]]] = <<>>
      BY ReadsNone
    <3>q. QED
      BY <3>1 DEF Reads
  <2>. HIDE DEF x, sp
  <2>5. <<>> \in Seq(Good(sp)) /\ Reads(Carries(sp), <<>>) = <<>>
    BY ReadsNone
  <2>q. QED
    BY <1>3, <2>2, <2>3, <2>4, <2>5 DEF sp
<1>7. CASE n # 0
  <2>1. 1 \in 1..n /\ n \in 1..n /\ 1 <= n
    BY <1>1, <1>7
  <2>2. Covers(x, sp, sp)
    BY <1>5 DEF Covers
  <2>. HIDE DEF x, sp
  <2>3. FlattenSeq(x) \in Seq(Good(sp)) /\ Reads(Carries(sp), FlattenSeq(x)) = Body(1, n)
    BY <1>2, <2>1, <2>2, RangeUnits
  <2>4. SubSeq(Bodies, 1, n) = Bodies
    BY <1>1, SubSeqFull
  <2>q. QED
    BY <1>3, <2>3, <2>4 DEF sp, Body
<1>q. QED
  BY <1>6, <1>7

LEMMA DocumentIsWhole ==
    ASSUME document \in Seq(Blocks)
    PROVE  ChunksAreWhole
<1>. DEFINE c == ChunkDocument(document)
            sp == Spans
            units == Children
            n == Len(units)
            ids == [k \in DOMAIN units |-> <<units[k].lo, units[k].hi, units[k].text, Occurrence(units, k)>>]
            size == [k \in DOMAIN units |-> UnitSize(document, units[k])]
<1>1. /\ c.parents = sp /\ c.children = units /\ c.ids = ids /\ c.size = size
      /\ ~c.valid => ~IsInjective(ids) \/ \E k \in DOMAIN units : ~(size[k] <= ChildMax) /\ units[k].mode # "oversized"
  BY DEF ChunkDocument, Chunked, Spans, Children
<1>2. units \in Seq(Good(sp)) /\ Reads(Carries(sp), units) = FlattenSeq(Bodies)
  BY ChildrenOf
<1>3. /\ sp \in Seq(Pieces) /\ Tiles(sp, 1, Len(document)) /\ DOMAIN sp = 1..Len(sp)
      /\ \A s \in 1..Len(sp) : Parental(sp[s])
  BY ParentsOf DEF Spans
<1>. HIDE DEF units, sp, c
<1>4. n \in Nat /\ DOMAIN units = 1..n /\ \A k \in 1..n : units[k] \in Good(sp)
  BY <1>2, LenProperties, ElementOfSeq
<1>5. IsInjective(ids)
  BY <1>2, IdsDiffer
<1>6. TextIsSearchable(c)
  <2>1. [i \in DOMAIN units |-> Carries(sp)[units[i]]] = [i \in DOMAIN units |-> Carried(units[i])]
    BY <1>4, CarriesOf
  <2>2. Bodies = [k \in DOMAIN document |-> BlockBody(k)]
    BY LenProperties DEF Bodies
  <2>q. QED
    BY <1>1, <1>2, <2>1, <2>2 DEF TextIsSearchable, Reads
<1>7. ASSUME NEW k \in 1..n
      PROVE  /\ size[k] = UnitSize(document, units[k]) /\ size[k] \in Nat /\ units[k].lo \in 1..Len(document)
             /\ Fits(units[k], sp)
  <2>. DEFINE u == units[k]
  <2>1. u \in Good(sp) /\ size[k] = UnitSize(document, u)
    BY <1>4
  <2>. HIDE DEF u, size
  <2>2. u.lo \in 1..Len(document) /\ u.hi \in 1..Len(document) /\ u.lo <= u.hi /\ u.text \in Texts /\ Fits(u, sp)
    BY <2>1 DEF Good
  <2>3. UnitSize(document, u) \in Nat
    <3>1. SizeOf(document, <<u.lo, u.hi>>) \in Nat
      BY <2>2, SizeIs
    <3>2. Tokens(u.text) \in Nat
      BY <2>2, TokensOf
    <3>q. QED
      BY <3>1, <3>2 DEF UnitSize
  <2>q. QED
    BY <2>1, <2>2, <2>3 DEF u
<1>. HIDE DEF size, ids
<1>8. ChildrenInBudget(c)
  <2>1. ASSUME NEW k \in 1..n, size[k] > ChildMax
        PROVE  /\ units[k].lo = units[k].hi
               /\ \/ units[k].mode = "merged" /\ IsHeading(document[units[k].lo])
                  \/ Least(document[units[k].lo], units[k].text)
    BY <1>7, <2>1 DEF Fits
  <2>q. QED
    BY <1>1, <1>4, <2>1 DEF ChildrenInBudget, Least
<1>9. ParentsPartition(c)
  <2>1. c.parents = sp
    BY <1>1
  <2>q. QED
    BY <1>3, <2>1 DEF ParentsPartition, Parental
<1>10. RefusedOnlyForHeading(c)
  <2>1. ASSUME ~c.valid
        PROVE  \E s \in DOMAIN sp : /\ sp[s].lo = sp[s].hi /\ IsHeading(document[sp[s].lo])
                                    /\ Tokens(document[sp[s].lo].text) > ChildMax
    <3>1. PICK k \in 1..n : ~(size[k] <= ChildMax) /\ units[k].mode # "oversized"
      BY <1>1, <1>4, <1>5, <2>1
    <3>. DEFINE u == units[k]
    <3>2. UnitSize(document, u) > ChildMax /\ u.lo \in 1..Len(document) /\ Fits(u, sp) /\ u.mode # "oversized"
      <4>1. size[k] > ChildMax
        BY <1>7, <3>1, ChunkerAssumption
      <4>q. QED
        BY <1>7, <3>1, <4>1
    <3>. HIDE DEF u
    <3>3. u.lo = u.hi /\ u.mode = "merged" /\ IsHeading(document[u.lo]) /\ Single(sp, u.lo)
      BY <3>2 DEF Fits
    <3>4. UnitSize(document, u) = Tokens(document[u.lo].text)
      <4>1. UnitSize(document, u) = SizeOf(document, <<u.lo, u.lo>>)
        BY <3>3 DEF UnitSize
      <4>2. u.lo <= u.lo
        BY <3>2, LenProperties
      <4>q. QED
        BY <3>2, <4>1, <4>2, SizeIs
    <3>5. PICK s \in DOMAIN sp : sp[s].lo = u.lo /\ sp[s].hi = u.lo
      BY <3>3 DEF Single
    <3>6. /\ sp[s].lo = sp[s].hi /\ IsHeading(document[sp[s].lo])
          /\ Tokens(document[sp[s].lo].text) > ChildMax
      BY <3>2, <3>3, <3>4, <3>5
    <3>q. QED
      BY <3>6
  <2>q. QED
    BY <1>1, <1>5, <2>1 DEF RefusedOnlyForHeading
<1>q. QED
  BY <1>6, <1>8, <1>9, <1>10 DEF ChunksAreWhole, c

\* A document is chunked without losing or repeating a word, children over the
\* limit are what no splitter can make smaller, parents are runs of one section
\* within the budget, and only a heading alone in its section is refused:
\* StructureAwareChunker.chunk_document, whatever the document and the budgets.
THEOREM ChunksHold == ChunkSpec => []ChunksAreWhole
<1>. DEFINE Typed == document \in Seq(Blocks)
<1>1. ChunkInit => Typed
  BY DEF ChunkInit
<1>2. Typed /\ [ChunkNext]_document => Typed'
  BY AppendProperties DEF ChunkNext, AddBlock
<1>3. Typed => ChunksAreWhole
  BY DocumentIsWhole
<1>q. QED
  BY <1>1, <1>2, <1>3, PTL DEF ChunkSpec

(***************************************************************************)
(* The batch side as it is checked.                                        *)
(***************************************************************************)

\* Whichever part a behaviour is about: the corpus stays usable, chunking loses
\* nothing, uploads keep to their limits and serve what was uploaded, and the
\* record of an operation only moves forward.
THEOREM BatchSideHolds ==
    Spec => [](CorpusIsUsable /\ ChunksAreWhole /\ UploadIsSound) /\ RecordAdvances
<1>1. Spec => PipeSpec
  <2>1. Init => PipeInit
    BY DEF Init
  <2>2. [Next]_<<pipeVars, document, obsVars, uploadVars, part>> => [PipeNext]_pipeVars
    BY DEF Next
  <2>q. QED
    BY <2>1, <2>2, PTL DEF Spec, PipeSpec
<1>2. Spec => ObsSpec
  <2>1. Init => ObsInit
    BY DEF Init
  <2>2. [Next]_<<pipeVars, document, obsVars, uploadVars, part>> => [ObsNext]_obsVars
    BY DEF Next
  <2>q. QED
    BY <2>1, <2>2, PTL DEF Spec, ObsSpec
<1>3. Spec => UploadSpec
  <2>1. Init => UploadInit
    BY DEF Init
  <2>2. [Next]_<<pipeVars, document, obsVars, uploadVars, part>> => [UploadNext]_uploadVars
    BY DEF Next
  <2>q. QED
    BY <2>1, <2>2, PTL DEF Spec, UploadSpec
<1>4. Spec => ChunkSpec
  <2>1. Init => ChunkInit
    BY DEF Init
  <2>2. [Next]_<<pipeVars, document, obsVars, uploadVars, part>> => [ChunkNext]_document
    BY DEF Next
  <2>q. QED
    BY <2>1, <2>2, PTL DEF Spec, ChunkSpec
<1>q. QED
  BY <1>1, <1>2, <1>3, <1>4, CorpusHolds, RecordMovesOn, UploadHolds, ChunksHold, PTL
=============================================================================
