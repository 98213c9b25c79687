---------------------- MODULE WorkspaceMutationProofs ----------------------
(***************************************************************************)
(* Proofs about WorkspaceMutation, for any sets of operations, sources and *)
(* snapshots and any bounds.  The invariant has two layers.  The first     *)
(* (Frame) holds whatever fails: who is at which step, which journal is    *)
(* open there, which snapshots are durable.  The second (Sound) holds as   *)
(* long as recovery could read every record it asked for: while a journal  *)
(* is open the workspace record is exactly the prior one (A) or exactly    *)
(* the committed one (B), and the pointer, the marker, the source history  *)
(* and the operation records each stand in a fixed relation to that.       *)
(***************************************************************************)
EXTENDS WorkspaceMutation, TLAPS

PubSteps == {"pub_begun", "pub_building", "pub_manifest", "pub_pointer",
             "pub_published", "pub_observed", "pub_committed"}
EmpSteps == {"emp_begun", "emp_running", "emp_marked", "emp_retired", "emp_write",
             "emp_written"}
BackSteps == {"back", "back_clear", "back_unlink", "back_write", "back_drop"}
ForwardSteps == {"forward", "forward_clear", "forward_unlink"}

P == pubJournal # NoJournal
E == empJournal # NoJournal

-----------------------------------------------------------------------------
(* Frame.                                                                    *)

\* Who is at which step, and which journal is open there.
Control ==
    /\ ~(P /\ E)
    /\ pc \in PubSteps => P /\ pubJournal.op = cur
    /\ pc \in EmpSteps => E /\ empJournal.op = cur
    /\ pc \in {"finish"} \cup BackSteps \cup ForwardSteps => P \/ E
    /\ pc = "interrupt" => NoOpenJournal
    /\ pc \in {"idle", "prepared"} \cup PubSteps \cup EmpSteps => mode = "run"
    /\ pc = "fail_op" \/ (mode = "run" /\ pc # "idle") => cur \in Ops
    /\ pc \in {"recover", "interrupt", "down", "fail_op"} \cup BackSteps \cup ForwardSteps
            => mode # "run"
    /\ pc \in {"interrupt", "down"} => mode = "startup"
    /\ mode \in {"inner", "outer"} => cur \in Ops
    /\ pc = "fail_op" => mode \in {"inner", "outer"}

\* What the operation records say of those who have begun and who have not.
Records ==
    /\ \A op \in launched : opStatus[op] = "PENDING"
    /\ mode = "startup" => launched = {}
    /\ cur \in Ops => opStatus[cur] \notin {"NONE", "PENDING"}
    /\ pc \in {"prepared"} \cup PubSteps \cup EmpSteps => opStatus[cur] \notin Terminal
    /\ P => opStatus[pubJournal.op] \notin {"NONE", "PENDING"}
    /\ E => opStatus[empJournal.op] \notin {"NONE", "PENDING"}

\* The revision of a prior record can still grow by one.
Bounded ==
    /\ P => pubJournal.prior.revision < MaxRevision
    /\ E => empJournal.prior.revision < MaxRevision

Durable == manifests \cup {NoSnapshot}

\* Every snapshot that is named anywhere has its manifest.
Manifested ==
    /\ pointer \in Durable /\ ws.snapshot \in Durable /\ built \in Durable
    /\ P => pubJournal.prior.snapshot \in Durable /\ pubJournal.new \in Durable
    /\ E => empJournal.prior.snapshot \in Durable

Frame == TypeOK /\ Control /\ Records /\ Bounded /\ Manifested

-----------------------------------------------------------------------------
(* Sound.                                                                    *)

\* The record of B.
After(j) ==
    [revision |-> j.prior.revision + 1,
     status |-> IF j.desired = {} THEN "EMPTY" ELSE "ACTIVE",
     snapshot |-> j.new, sources |-> j.desired,
     effects |-> j.prior.effects \cup {j.op}]

WellFormed(w) ==
    /\ w.status = "ACTIVE" <=> w.snapshot # NoSnapshot
    /\ w.sources = {} => w.status # "ACTIVE"

\* A plan is a delta of the prior active set.
PlanOf(j) ==
    /\ j.desired = (j.prior.sources \ j.superseded) \cup j.appended
    /\ j.superseded \subseteq j.prior.sources
    /\ j.appended \cap j.prior.sources = {}
    /\ j.appended \cup j.superseded # {}

InA == ws = Open.prior
InB == ws = After(Open)

\* The A/B pivot: workspace.json is one of two records.
Pivot ==
    /\ WellFormed(ws)
    /\ P \/ E =>
        /\ InA \/ InB
        /\ WellFormed(Open.prior) /\ Open.prior.status # "TOMBSTONED"
        /\ PlanOf(Open)
        /\ Open.op \notin Open.prior.effects
    /\ P => /\ pubJournal.desired # {}
            /\ pubJournal.new = NoSnapshot <=> pubJournal.phase = "INTENT_RECORDED"
            /\ InB => pubJournal.new # NoSnapshot
            /\ pubJournal.phase \in ForwardPhases => InB
    /\ E => /\ empJournal.desired = {} /\ empJournal.new = NoSnapshot
            /\ empJournal.prior.status = "ACTIVE"
            /\ empJournal.phase \in {"WORKSPACE_EMPTIED", "COMMITTED"} => InB

\* Where the holder is relative to the pivot.
PivotSteps ==
    /\ pc \in (PubSteps \ {"pub_committed"}) \cup (EmpSteps \ {"emp_written"})
              \cup BackSteps => InA
    /\ pc \in {"pub_committed", "emp_written", "finish"} \cup ForwardSteps => InB
    /\ pc \in {"finish"} /\ P => pubJournal.phase \in ForwardPhases
    /\ pc \notin {"back", "forward_unlink"}

\* The pointer and the marker.
Serving ==
    /\ NoOpenJournal => /\ ws.status # "TOMBSTONED" => pointer = ws.snapshot
                        /\ retired => pointer = NoSnapshot
    /\ (P \/ E) /\ InB => pointer = Open.new
    /\ P /\ InB => ~retired
    /\ E /\ InA => pointer \in {empJournal.prior.snapshot, NoSnapshot}
    /\ pc \in {"back_clear", "back_write", "back_drop"}
            => pointer = Open.prior.snapshot
    /\ pc \in {"back_write", "back_drop"} => (retired => pointer = NoSnapshot)
    /\ pc = "back_unlink" => Open.prior.snapshot = NoSnapshot
    /\ pc \in {"pub_manifest", "pub_pointer", "pub_published", "pub_observed"}
            => built # NoSnapshot
    /\ pc \in {"pub_pointer", "pub_published", "pub_observed"} => pointer = built
    /\ pc \in {"pub_published", "pub_observed"} => ~retired
    /\ pc = "pub_observed" => pubJournal.new = built
    /\ pc \in {"emp_retired", "emp_write"} => pointer = NoSnapshot

Legacy == {<<LegacySource, 1>>}

\* The source history against an active set.
Describes(sources) ==
    /\ closed \cap sources = {}
    /\ recorded \ closed \subseteq sources
    /\ sources \ recorded \subseteq Legacy

\* The source history while a journal is open: the old description in A, a
\* description of both active sets on the way to B.
Sourced ==
    /\ closed \subseteq recorded
    /\ NoOpenJournal /\ ws.status # "TOMBSTONED" => Describes(ws.sources)
    /\ P \/ E =>
        /\ InA => Describes(Open.prior.sources) /\ Open.appended \cap recorded = {}
        /\ closed \cap Open.desired = {}
        /\ recorded \ closed \subseteq Open.desired \cup Open.superseded
        /\ Open.desired \ recorded \subseteq Legacy \cup Open.appended
        /\ Open.phase \in {"LINEAGE_COMMITTED", "COMMITTED"} =>
                /\ Open.appended \cup Open.superseded \subseteq recorded
                /\ Open.superseded \subseteq closed

\* An effect belongs to an operation with an outcome or to the open journal.
Effects ==
    /\ \A op \in ws.effects :
            \/ opStatus[op] \in Terminal
            \/ (P \/ E) /\ Open.op = op
    /\ SucceededIsDurable

\* How a mutation that reached B can be given up: by a second fault only.
Faults ==
    /\ (P \/ E) /\ InB =>
            \/ mode = "startup"
            \/ mode = "run" /\ pc \in {"pub_committed", "emp_written", "finish"}
            \/ mode \in {"inner", "outer"} /\ faults >= 1 /\ pc # "fail_op"
            \/ faults >= 2
    /\ faults <= 1 =>
            \A op \in ws.effects : opStatus[op] \notin {"FAILED", "INTERRUPTED"}

Sound == Pivot /\ PivotSteps /\ Serving /\ Sourced /\ Effects /\ Faults

Inv == Frame /\ (unreadable = 0 => Sound)

-----------------------------------------------------------------------------
(* The operators.                                                            *)

\* The fields of the journals on disk.
LEMMA JournalFields ==
    ASSUME TypeOK
    PROVE  /\ P => /\ pubJournal \in Journal(PubPhases) /\ pubJournal.op \in Ops
                   /\ pubJournal.prior \in Workspace
                   /\ pubJournal.appended \subseteq Version
                   /\ pubJournal.superseded \subseteq Version
                   /\ pubJournal.desired \subseteq Version
                   /\ pubJournal.new \in Snapshots \cup {NoSnapshot}
                   /\ pubJournal.phase \in PubPhases
           /\ E => /\ empJournal \in Journal(EmpPhases) /\ empJournal.op \in Ops
                   /\ empJournal.prior \in Workspace
                   /\ empJournal.appended \subseteq Version
                   /\ empJournal.superseded \subseteq Version
                   /\ empJournal.desired \subseteq Version
                   /\ empJournal.new \in Snapshots \cup {NoSnapshot}
                   /\ empJournal.phase \in EmpPhases
BY DEF TypeOK, P, E, Journal

\* The fields of a workspace record.
LEMMA WorkspaceFields ==
    ASSUME NEW w \in Workspace
    PROVE  /\ w.revision \in 1..MaxRevision /\ w.effects \subseteq Ops
           /\ w.snapshot \in Snapshots \cup {NoSnapshot}
           /\ w.sources \subseteq Version
           /\ w.status \in {"EMPTY", "ACTIVE", "TOMBSTONED"}
           /\ w = [revision |-> w.revision, status |-> w.status,
                   snapshot |-> w.snapshot, sources |-> w.sources,
                   effects |-> w.effects]
BY DEF Workspace

\* No journal of either kind is the absent file.
LEMMA JournalExists ==
    ASSUME NEW j, j \in Journal(PubPhases) \/ j \in Journal(EmpPhases)
    PROVE  j # NoJournal
<1>1. j \in Journal(PubPhases \cup EmpPhases)
  BY DEF Journal
<1>q. QED
  BY <1>1, NoJournalAssumption

\* What moving the phase of the open journal changes.
LEMMA SetPhaseOfPublication ==
    ASSUME TypeOK, P, NEW phase \in PubPhases, SetPhase(phase)
    PROVE  /\ pubJournal' \in Journal(PubPhases) /\ pubJournal' # NoJournal
           /\ pubJournal'.op = pubJournal.op /\ pubJournal'.prior = pubJournal.prior
           /\ pubJournal'.appended = pubJournal.appended
           /\ pubJournal'.superseded = pubJournal.superseded
           /\ pubJournal'.desired = pubJournal.desired
           /\ pubJournal'.new = pubJournal.new /\ pubJournal'.phase = phase
           /\ empJournal' = empJournal
<1>1. pubJournal \in Journal(PubPhases) /\ pubJournal # NoJournal
  BY DEF TypeOK, P
<1>2. pubJournal' = [pubJournal EXCEPT !.phase = phase] /\ empJournal' = empJournal
  BY <1>1 DEF SetPhase
<1>3. pubJournal' \in Journal(PubPhases)
  BY <1>1, <1>2 DEF Journal
<1>q. QED
  BY <1>1, <1>2, <1>3, JournalExists DEF Journal

\* Writing a phase into the EMPTY journal changes nothing else of it (set_phase).
LEMMA SetPhaseOfEmpty ==
    ASSUME TypeOK, ~P, E, NEW phase \in EmpPhases, SetPhase(phase)
    PROVE  /\ empJournal' \in Journal(EmpPhases) /\ empJournal' # NoJournal
           /\ empJournal'.op = empJournal.op /\ empJournal'.prior = empJournal.prior
           /\ empJournal'.appended = empJournal.appended
           /\ empJournal'.superseded = empJournal.superseded
           /\ empJournal'.desired = empJournal.desired
           /\ empJournal'.new = empJournal.new /\ empJournal'.phase = phase
           /\ pubJournal' = pubJournal
<1>1. empJournal \in Journal(EmpPhases) /\ empJournal # NoJournal
  BY DEF TypeOK, E
<1>2. empJournal' = [empJournal EXCEPT !.phase = phase] /\ pubJournal' = pubJournal
  BY <1>1 DEF SetPhase, P
<1>3. empJournal' \in Journal(EmpPhases)
  BY <1>1, <1>2 DEF Journal
<1>q. QED
  BY <1>1, <1>2, <1>3, JournalExists DEF Journal

\* A planned mutation is a delta of the active set whose new versions have never
\* been used: not by an active source and not by a recorded one.
LEMMA PlanShape ==
    ASSUME TypeOK, NEW plan \in Plans
    PROVE  /\ plan.desired \subseteq Version /\ plan.appended \subseteq Version
           /\ plan.superseded \subseteq Version
           /\ plan.desired = (ws.sources \ plan.superseded) \cup plan.appended
           /\ plan.superseded \subseteq ws.sources
           /\ plan.appended \cap (recorded \cup ws.sources) = {}
           /\ plan.appended \cup plan.superseded # {}
<1>a. ws.sources \subseteq Version /\ recorded \subseteq Version /\ 1 \in 1..MaxVersion
  BY WorkspaceFields, BoundsAssumption DEF TypeOK
<1>1. CASE plan \in AddPlans
  <2>1. PICK new \in SUBSET {<<s, 1>> : s \in SourceIds} :
            /\ new # {} /\ \A v \in new : VersionsOf(v[1]) = {}
            /\ plan = [desired |-> ws.sources \cup new, appended |-> new, superseded |-> {}]
    BY <1>1 DEF AddPlans
  <2>2. new \subseteq Version
    BY <2>1, <1>a DEF Version
  <2>3. \A v \in new : v \notin recorded \cup ws.sources
    BY <2>1 DEF VersionsOf
  <2>q. QED
    BY <2>1, <2>2, <2>3, <1>a
<1>2. CASE plan \in ReplacePlans
  <2>1. PICK v \in ws.sources : \E next \in NextVersion(v[1]) : plan = Replacement(v, next)
    BY <1>2 DEF ReplacePlans
  <2>2. PICK next \in NextVersion(v[1]) : plan = Replacement(v, next)
    BY <2>1
  <2>3. v \in Version /\ v[1] \in SourceIds
    BY <1>a DEF Version
  <2>4. PICK n \in 1..MaxVersion :
            /\ next = <<v[1], n>>
            /\ \A u \in VersionsOf(v[1]) : u[2] < n
    BY <2>2 DEF NextVersion
  <2>5. next \in Version /\ next[1] = v[1] /\ next[2] = n
    BY <2>3, <2>4 DEF Version
  <2>6. next \notin recorded \cup ws.sources
    BY <2>4, <2>5 DEF VersionsOf
  <2>q. QED
    BY <2>2, <2>3, <2>5, <2>6, <1>a DEF Replacement
<1>3. CASE plan \in RemovePlans
  BY <1>3, <1>a DEF RemovePlans
<1>q. QED
  BY <1>1, <1>2, <1>3 DEF Plans

\* The journal that records a plan.
LEMMA NewJournalShape ==
    ASSUME TypeOK, cur \in Ops, NEW plan \in Plans, NEW phases,
           "INTENT_RECORDED" \in phases
    PROVE  /\ NewJournal(plan) \in Journal(phases)
           /\ NewJournal(plan).op = cur /\ NewJournal(plan).prior = ws
           /\ NewJournal(plan).appended = plan.appended
           /\ NewJournal(plan).superseded = plan.superseded
           /\ NewJournal(plan).desired = plan.desired
           /\ NewJournal(plan).new = NoSnapshot
           /\ NewJournal(plan).phase = "INTENT_RECORDED"
BY PlanShape DEF TypeOK, NewJournal, Journal

-----------------------------------------------------------------------------
(* Frame.                                                                    *)

\* The initial state.
LEMMA FrameStarts == Init => Frame
<1>. SUFFICES ASSUME Init PROVE Frame
  OBVIOUS
<1>. USE BoundsAssumption
<1>1. ws \in Workspace
  <2>1. Empty1 \in Workspace
    BY DEF Empty1, Workspace
  <2>2. Legacy1 \in Workspace
    BY DEF Legacy1, Workspace, Version
  <2>q. QED
    BY <2>1, <2>2 DEF Init
<1>2. pointer \in Durable /\ ws.snapshot \in Durable /\ manifests \subseteq Snapshots
  BY DEF Init, Durable, Empty1, Legacy1
<1>3. /\ opStatus \in [Ops -> Statuses] /\ expected \in [Ops -> 0..MaxRevision]
      /\ mode \in Modes
  BY DEF Init, Statuses, Modes
<1>4. TypeOK
  <2>1. pointer \in Snapshots \cup {NoSnapshot} /\ built \in Snapshots \cup {NoSnapshot}
    BY <1>2 DEF Init, Durable
  <2>2. retired \in BOOLEAN
    BY DEF Init
  <2>3. /\ crashes \in 0..MaxCrashes /\ faults \in 0..MaxFaults
        /\ unreadable \in 0..MaxUnreadable
        /\ recorded \subseteq Version /\ closed \subseteq Version
        /\ launched \subseteq Ops /\ cur \in Ops \cup {NoOp}
    BY DEF Init
  <2>4. pubJournal = NoJournal /\ empJournal = NoJournal
    BY DEF Init
  <2>q. QED
    BY <1>1, <1>2, <1>3, <2>1, <2>2, <2>3, <2>4 DEF TypeOK
<1>5. Control /\ Records /\ Bounded /\ Manifested
  BY <1>2, NullAssumption
     DEF Init, Control, Records, Bounded, Manifested, Durable, P, E, NoOpenJournal,
         PubSteps, EmpSteps, BackSteps, ForwardSteps
<1>q. QED
  BY <1>4, <1>5 DEF Frame

\* Reservation, launch and the store's own mutations.
LEMMA FrameAccept ==
    ASSUME Frame, Accept \/ MetadataPatch \/ Tombstone
    PROVE  Frame'
<1>. USE BoundsAssumption
     DEF Frame, TypeOK, Control, Records, Bounded, Manifested, Durable, P, E,
         NoOpenJournal, PubSteps, EmpSteps, BackSteps, ForwardSteps, At, SetStatus,
         Statuses, Terminal, Modes, budget, control, lineage, journals, operations,
         publication, durable
<1>1. ASSUME NEW op \in Ops, Reserve(op) PROVE Frame'
  BY <1>1, WorkspaceFields DEF Reserve
<1>2. ASSUME NEW op \in Ops, ReserveRefused(op) PROVE Frame'
  BY <1>2, WorkspaceFields DEF ReserveRefused
<1>3. ASSUME NEW op \in Ops, WorkerBegins(op) PROVE Frame'
  BY <1>3 DEF WorkerBegins
<1>4. ASSUME NEW op \in Ops, WorkerGivesUp(op) PROVE Frame'
  BY <1>4 DEF WorkerGivesUp
<1>5. ASSUME MetadataPatch PROVE Frame'
  <2>1. ws' \in Workspace /\ ws'.snapshot = ws.snapshot
    BY <1>5 DEF MetadataPatch, Workspace
  <2>q. QED
    BY <1>5, <2>1 DEF MetadataPatch
<1>6. ASSUME Tombstone PROVE Frame'
  <2>1. ws' \in Workspace /\ ws'.snapshot = NoSnapshot
    BY <1>6 DEF Tombstone, Workspace
  <2>q. QED
    BY <1>6, <2>1 DEF Tombstone
<1>q. QED
  BY <1>1, <1>2, <1>3, <1>4, <1>5, <1>6 DEF Accept

\* The publication path.
LEMMA FramePublication ==
    ASSUME Frame, PublicationStep \/ MarkRunning \/ PlanFails \/ IngestFails
    PROVE  Frame'
<1>. USE BoundsAssumption
     DEF Frame, TypeOK, Control, Records, Bounded, Manifested, Durable, P, E,
         NoOpenJournal, PubSteps, EmpSteps, BackSteps, ForwardSteps, At, SetStatus,
         Statuses, Terminal, Modes, budget, control, lineage, journals, operations,
         publication, durable, Goto, Handle
<1>1. ASSUME BeginPublication PROVE Frame'
  <2>1. PICK plan \in Plans : pubJournal' = NewJournal(plan)
    BY <1>1 DEF BeginPublication
  <2>2. /\ pubJournal' \in Journal(PubPhases) /\ pubJournal' # NoJournal
        /\ pubJournal'.op = cur /\ pubJournal'.prior = ws /\ pubJournal'.new = NoSnapshot
    <3>1. cur \in Ops /\ "INTENT_RECORDED" \in PubPhases
      BY <1>1 DEF BeginPublication, PubPhases
    <3>q. QED
      BY <2>1, <3>1, NewJournalShape, JournalExists
  <2>q. QED
    BY <1>1, <2>2 DEF BeginPublication
<1>2. ASSUME WriteManifest PROVE Frame'
  BY <1>2 DEF WriteManifest
<1>3. ASSUME WritePointer PROVE Frame'
  BY <1>3 DEF WritePointer
<1>4. ASSUME ClearMarker PROVE Frame'
  BY <1>4 DEF ClearMarker
<1>5. ASSUME MarkPublicationObserved PROVE Frame'
  <2>1. P
    BY <1>5 DEF MarkPublicationObserved
  <2>2. /\ pubJournal' \in Journal(PubPhases) /\ pubJournal' # NoJournal
        /\ pubJournal'.op = pubJournal.op /\ pubJournal'.prior = pubJournal.prior
        /\ pubJournal'.new = built
    BY <1>5, <2>1, JournalFields, JournalExists
       DEF MarkPublicationObserved, Journal, PubPhases
  <2>q. QED
    BY <1>5, <2>1, <2>2 DEF MarkPublicationObserved
<1>6. ASSUME CommitWorkspace PROVE Frame'
  <2>1. P /\ pubJournal.prior.revision < MaxRevision
    BY <1>6 DEF CommitWorkspace
  <2>2. ws' \in Workspace /\ ws'.snapshot = built
    BY <1>6, <2>1, JournalFields DEF CommitWorkspace, Workspace
  <2>q. QED
    BY <1>6, <2>2 DEF CommitWorkspace
<1>7. ASSUME MarkWorkspaceCommitted PROVE Frame'
  <2>1. P /\ "WORKSPACE_COMMITTED" \in PubPhases /\ SetPhase("WORKSPACE_COMMITTED")
    BY <1>7 DEF MarkWorkspaceCommitted, PubPhases, ForwardPhases
  <2>q. QED
    BY <1>7, <2>1, SetPhaseOfPublication DEF MarkWorkspaceCommitted
<1>8. ASSUME MarkRunning PROVE Frame'
  BY <1>8 DEF MarkRunning
<1>9. ASSUME PlanFails \/ IngestFails PROVE Frame'
  BY <1>9 DEF PlanFails, IngestFails
<1>q. QED
  BY <1>1, <1>2, <1>3, <1>4, <1>5, <1>6, <1>7, <1>8, <1>9 DEF PublicationStep

\* The EMPTY path.
LEMMA FrameEmpty ==
    ASSUME Frame, EmptyStep \/ EmptyRefused
    PROVE  Frame'
<1>. USE BoundsAssumption
     DEF Frame, TypeOK, Control, Records, Bounded, Manifested, Durable, P, E,
         NoOpenJournal, PubSteps, EmpSteps, BackSteps, ForwardSteps, At, SetStatus,
         Statuses, Terminal, Modes, budget, control, lineage, journals, operations,
         publication, durable, Goto, Handle, ReleaseLease
<1>1. ASSUME BeginEmpty PROVE Frame'
  <2>1. PICK plan \in Plans : empJournal' = NewJournal(plan)
    BY <1>1 DEF BeginEmpty
  <2>2. /\ empJournal' \in Journal(EmpPhases) /\ empJournal' # NoJournal
        /\ empJournal'.op = cur /\ empJournal'.prior = ws
    <3>1. cur \in Ops /\ "INTENT_RECORDED" \in EmpPhases
      BY <1>1 DEF BeginEmpty, EmpPhases
    <3>q. QED
      BY <2>1, <3>1, NewJournalShape, JournalExists
  <2>q. QED
    BY <1>1, <2>2 DEF BeginEmpty
<1>2. ASSUME WriteRetiredMarker \/ UnlinkPointer PROVE Frame'
  BY <1>2 DEF WriteRetiredMarker, UnlinkPointer
<1>3. ASSUME MarkPublicationRetired PROVE Frame'
  <2>1. ~P /\ E /\ "PUBLICATION_RETIRED" \in EmpPhases /\ SetPhase("PUBLICATION_RETIRED")
    BY <1>3 DEF MarkPublicationRetired, EmpPhases
  <2>q. QED
    BY <1>3, <2>1, SetPhaseOfEmpty DEF MarkPublicationRetired
<1>4. ASSUME EmptyWorkspace PROVE Frame'
  <2>1. E /\ empJournal.prior.revision < MaxRevision
    BY <1>4 DEF EmptyWorkspace
  <2>2. ws' \in Workspace /\ ws'.snapshot = NoSnapshot
    BY <1>4, <2>1, JournalFields DEF EmptyWorkspace, Workspace
  <2>q. QED
    BY <1>4, <2>2 DEF EmptyWorkspace
<1>5. ASSUME MarkWorkspaceEmptied PROVE Frame'
  <2>1. ~P /\ E /\ "WORKSPACE_EMPTIED" \in EmpPhases /\ SetPhase("WORKSPACE_EMPTIED")
    BY <1>5 DEF MarkWorkspaceEmptied, EmpPhases
  <2>q. QED
    BY <1>5, <2>1, SetPhaseOfEmpty DEF MarkWorkspaceEmptied
<1>6. ASSUME EmptyRefused PROVE Frame'
  BY <1>6 DEF EmptyRefused
<1>q. QED
  BY <1>1, <1>2, <1>3, <1>4, <1>5, <1>6 DEF EmptyStep

\* The open journal is one of the two, and the operation it names has begun.
LEMMA OpenFields ==
    ASSUME Frame, P \/ E
    PROVE  /\ Open.op \in Ops /\ opStatus[Open.op] \notin {"NONE", "PENDING"}
           /\ Open.prior \in Workspace /\ Open.prior.snapshot \in Durable
           /\ Open.appended \subseteq Version /\ Open.superseded \subseteq Version
           /\ P => Open = pubJournal
           /\ E => Open = empJournal
BY JournalFields DEF Frame, Control, Records, Manifested, Open, P, E

\* The way to B.
LEMMA FrameFinish ==
    ASSUME Frame, FinishStep
    PROVE  Frame'
<1>. USE BoundsAssumption
     DEF Frame, TypeOK, Control, Records, Bounded, Manifested, Durable, P, E,
         NoOpenJournal, PubSteps, EmpSteps, BackSteps, ForwardSteps, At, SetStatus,
         Statuses, Terminal, Modes, budget, control, lineage, journals, operations,
         publication, durable, Goto, Handle, ReleaseLease
<1>1. ASSUME AppendHistory \/ SupersedeHistory PROVE Frame'
  <2>1. P \/ E
    BY <1>1 DEF AppendHistory, SupersedeHistory
  <2>2. recorded' \subseteq Version /\ closed' \subseteq Version
    BY <1>1, <2>1, OpenFields DEF AppendHistory, SupersedeHistory
  <2>q. QED
    BY <1>1, <2>2 DEF AppendHistory, SupersedeHistory
<1>2. ASSUME MarkLineage \/ MarkCommitted PROVE Frame'
  <2>1. CASE P
    <3>1. PICK phase \in {"LINEAGE_COMMITTED", "COMMITTED"} : SetPhase(phase)
      BY <1>2, <2>1 DEF MarkLineage, MarkCommitted
    <3>2. phase \in PubPhases
      BY DEF PubPhases, ForwardPhases
    <3>q. QED
      BY <1>2, <2>1, <3>1, <3>2, SetPhaseOfPublication DEF MarkLineage, MarkCommitted
  <2>2. CASE ~P
    <3>1. E /\ "COMMITTED" \in EmpPhases /\ SetPhase("COMMITTED") /\ ~MarkCommitted
      BY <1>2, <2>2 DEF MarkLineage, MarkCommitted, EmpPhases
    <3>q. QED
      BY <1>2, <2>2, <3>1, SetPhaseOfEmpty DEF MarkLineage
  <2>q. QED
    BY <2>1, <2>2
<1>3. ASSUME Succeed PROVE Frame'
  <2>1. Open.op \in Ops /\ opStatus[Open.op] \notin {"NONE", "PENDING"} \cup Terminal
    BY <1>3, OpenFields DEF Succeed
  <2>q. QED
    BY <1>3, <2>1 DEF Succeed
<1>4. ASSUME RecordSkipped PROVE Frame'
  BY <1>4, NullAssumption DEF RecordSkipped, DropOpenJournal, AfterJournal
<1>5. ASSUME DropCommitted PROVE Frame'
  BY <1>5, NullAssumption DEF DropCommitted, DropOpenJournal, AfterJournal
<1>q. QED
  BY <1>1, <1>2, <1>3, <1>4, <1>5 DEF FinishStep

\* Recovery and its end.
LEMMA FrameRecovery ==
    ASSUME Frame, RecoveryStep
    PROVE  Frame'
<1>. USE BoundsAssumption
     DEF Frame, TypeOK, Control, Records, Bounded, Manifested, Durable, P, E,
         NoOpenJournal, PubSteps, EmpSteps, BackSteps, ForwardSteps, At, SetStatus,
         Statuses, Terminal, Modes, budget, control, lineage, journals, operations,
         publication, durable, Goto, Handle, ReleaseLease
<1>1. ASSUME RecoverPointerForward PROVE Frame'
  BY <1>1, JournalFields DEF RecoverPointerForward, Recovering, Target
<1>2. ASSUME RecoverForward PROVE Frame'
  <2>1. CASE P /\ pubJournal.phase \notin ForwardPhases
    <3>1. "WORKSPACE_COMMITTED" \in PubPhases /\ SetPhase("WORKSPACE_COMMITTED")
      BY <1>2, <2>1 DEF RecoverForward, PubPhases, ForwardPhases
    <3>q. QED
      BY <1>2, <2>1, <3>1, SetPhaseOfPublication DEF RecoverForward
  <2>2. CASE ~(P /\ pubJournal.phase \notin ForwardPhases)
    BY <1>2, <2>2 DEF RecoverForward
  <2>q. QED
    BY <2>1, <2>2
<1>3. ASSUME RecoverRetireForward \/ RecoverInconsistent \/ RecoverClean PROVE Frame'
  <2>1. CASE RecoverRetireForward
    BY <2>1 DEF RecoverRetireForward, Recovering
  <2>2. CASE RecoverInconsistent
    BY <2>2 DEF RecoverInconsistent, Recovering
  <2>3. CASE RecoverClean
    BY <2>3 DEF RecoverClean
  <2>q. QED
    BY <1>3, <2>1, <2>2, <2>3
<1>4. ASSUME RecoverUnreadable PROVE Frame'
  BY <1>4, JournalFields DEF RecoverUnreadable, Recovering
<1>5. ASSUME RecoverPointerBack PROVE Frame'
  <2>1. P \/ E
    BY <1>5 DEF RecoverPointerBack, Restoring, Recovering
  <2>q. QED
    BY <1>5, <2>1, OpenFields DEF RecoverPointerBack, Restoring, Recovering
<1>6. ASSUME RecoverRetireMarker \/ RecoverRetireUnlink \/ RecoverClearMarker PROVE Frame'
  <2>1. CASE RecoverRetireMarker
    BY <2>1 DEF RecoverRetireMarker, Restoring, Recovering
  <2>2. CASE RecoverRetireUnlink
    BY <2>2 DEF RecoverRetireUnlink
  <2>3. CASE RecoverClearMarker
    <3>1. /\ P \/ E
          /\ pc \in {"recover"} \cup BackSteps \cup ForwardSteps
          /\ pc' \in {"forward", "back_write"} /\ retired' = FALSE
          /\ UNCHANGED <<launched, mode, cur, built, ws, pointer, manifests, recorded,
                         closed, pubJournal, empJournal, opStatus, expected, crashes,
                         faults, unreadable>>
      BY <2>3 DEF RecoverClearMarker, Restoring, Recovering
    <3>2. retired' \in BOOLEAN
      BY <3>1
    <3>q. QED
      BY <3>1, <3>2
  <2>q. QED
    BY <1>6, <2>1, <2>2, <2>3
<1>7. ASSUME RecoverWorkspaceBack PROVE Frame'
  <2>1. Open.prior \in Workspace /\ Open.prior.snapshot \in Durable
    BY <1>7, OpenFields DEF RecoverWorkspaceBack
  <2>q. QED
    BY <1>7, <2>1 DEF RecoverWorkspaceBack
<1>8. ASSUME RecoverInterrupt PROVE Frame'
  <2>1. Open.op \in Ops
    BY <1>8, OpenFields DEF RecoverInterrupt
  <2>q. QED
    BY <1>8, <2>1 DEF RecoverInterrupt
<1>9. ASSUME DropRecovered PROVE Frame'
  BY <1>9 DEF DropRecovered, DropOpenJournal, AfterJournal
<1>10. ASSUME FailOperation PROVE Frame'
  BY <1>10, NullAssumption, JournalFields DEF FailOperation
<1>11. ASSUME Interrupt PROVE Frame'
  BY <1>11 DEF Interrupt
<1>12. ASSUME Ready PROVE Frame'
  BY <1>12, NullAssumption DEF Ready
<1>q. QED
  BY <1>1, <1>2, <1>3, <1>4, <1>5, <1>6, <1>7, <1>8, <1>9, <1>10, <1>11, <1>12
     DEF RecoveryStep

\* Faults, crashes and restarts.
LEMMA FrameFaults ==
    ASSUME Frame, Crash \/ Restart \/ WorkerFault \/ HandlerWriteFault \/ HandlerReadFault
    PROVE  Frame'
<1>. USE BoundsAssumption
     DEF Frame, TypeOK, Control, Records, Bounded, Manifested, Durable, P, E,
         NoOpenJournal, PubSteps, EmpSteps, BackSteps, ForwardSteps, At, SetStatus,
         Statuses, Terminal, Modes, budget, control, lineage, journals, operations,
         publication, durable, Goto, Handle, ReleaseLease
<1>1. ASSUME Crash PROVE Frame'
  BY <1>1, NullAssumption DEF Crash
<1>2. ASSUME Restart PROVE Frame'
  BY <1>2 DEF Restart
<1>3. ASSUME WorkerFault PROVE Frame'
  BY <1>3 DEF WorkerFault
<1>4. ASSUME HandlerWriteFault \/ HandlerReadFault PROVE Frame'
  BY <1>4, NullAssumption DEF HandlerWriteFault, HandlerReadFault, Handling
<1>q. QED
  BY <1>1, <1>2, <1>3, <1>4

\* A step that changes nothing.
LEMMA FrameStutters ==
    ASSUME Frame, UNCHANGED vars
    PROVE  Frame'
BY DEF Frame, TypeOK, Control, Records, Bounded, Manifested, Durable, P, E,
       NoOpenJournal, vars, durable, control, budget

\* Frame holds in every state, whatever cannot be read.
LEMMA FrameInvariant == Spec => []Frame
<1>1. Frame /\ [Next]_vars => Frame'
  BY FrameAccept, FramePublication, FrameEmpty, FrameFinish, FrameRecovery, FrameFaults,
     FrameStutters
     DEF Next, Step, Environment, Failure, Rest
<1>q. QED
  BY FrameStarts, <1>1, PTL DEF Spec

\* Every record, journal and control variable of a mutation keeps its shape.
THEOREM MutationTypes == Spec => []TypeOK
BY FrameInvariant, PTL DEF Frame

\* Neither the pointer nor the workspace record ever names a snapshot without a
\* durable manifest, whatever crashes, fails or cannot be read: publish orders the
\* manifest before the pointer and recovery only goes back to what was published.
THEOREM NothingDangles == Spec => []NoDanglingSnapshot
<1>1. Frame => NoDanglingSnapshot
  BY DEF Frame, Manifested, Durable, NoDanglingSnapshot
<1>q. QED
  BY <1>1, FrameInvariant, PTL

\* A terminal operation record never changes again: workers start only what is
\* PENDING, and recovery, the failure handlers and interrupt_all_nonterminal leave
\* a terminal record alone.
THEOREM TerminalStaysFinal == Spec => TerminalIsFinal
<1>. DEFINE Final == \A op \in Ops : opStatus[op] \in Terminal => opStatus'[op] = opStatus[op]
<1>1. ASSUME Frame, Next PROVE Final
  <2>a. /\ opStatus \in [Ops -> Statuses]
        /\ \A op \in launched : opStatus[op] = "PENDING"
        /\ pc \in {"pub_begun", "emp_begun"} => cur \in Ops /\ opStatus[cur] \notin Terminal
    BY <1>1 DEF Frame, TypeOK, Control, Records, PubSteps, EmpSteps
  <2>0. ASSUME opStatus' = opStatus PROVE Final
    BY <2>0
  <2>b. ASSUME NEW op, NEW status, opStatus' = [opStatus EXCEPT ![op] = status],
               op \in Ops => opStatus[op] \notin Terminal
        PROVE  Final
    BY <2>a, <2>b
  <2>1. ASSUME Accept PROVE Final
    <3>1. PICK op \in Ops : \/ Reserve(op) \/ ReserveRefused(op)
                            \/ WorkerBegins(op) \/ WorkerGivesUp(op)
      BY <2>1 DEF Accept
    <3>2. CASE Reserve(op) \/ ReserveRefused(op) \/ WorkerBegins(op)
      <4>1. PICK status \in Statuses : opStatus' = [opStatus EXCEPT ![op] = status]
        BY <3>2 DEF Reserve, ReserveRefused, WorkerBegins, SetStatus, Statuses, Terminal
      <4>2. opStatus[op] \notin Terminal
        BY <3>2, <2>a DEF Reserve, ReserveRefused, WorkerBegins, Terminal
      <4>q. QED
        BY <4>1, <4>2, <2>b
    <3>3. CASE WorkerGivesUp(op)
      BY <3>3, <2>0 DEF WorkerGivesUp, durable
    <3>q. QED
      BY <3>1, <3>2, <3>3
  <2>2. ASSUME MarkRunning PROVE Final
    BY <2>2, <2>a, <2>b DEF MarkRunning, SetStatus, At
  <2>3. ASSUME Succeed \/ RecoverInterrupt PROVE Final
    BY <2>3, <2>b DEF Succeed, RecoverInterrupt, SetStatus
  <2>4. ASSUME FailOperation PROVE Final
    BY <2>4, <2>0, <2>b DEF FailOperation, SetStatus
  <2>5. ASSUME Interrupt PROVE Final
    BY <2>5, <2>b DEF Interrupt, SetStatus
  <2>6. ASSUME PublicationStep \/ EmptyStep \/ Failure \/ Environment \/ Rest PROVE Final
    BY <2>6, <2>0
       DEF PublicationStep, EmptyStep, Failure, Environment, Rest, vars, durable,
           operations, BeginPublication, WriteManifest, WritePointer, ClearMarker,
           MarkPublicationObserved, CommitWorkspace, MarkWorkspaceCommitted, BeginEmpty,
           WriteRetiredMarker, UnlinkPointer, MarkPublicationRetired, EmptyWorkspace,
           MarkWorkspaceEmptied, PlanFails, IngestFails, EmptyRefused, MetadataPatch,
           Tombstone, Crash, Restart, WorkerFault, HandlerWriteFault, HandlerReadFault
  <2>7. ASSUME FinishStep, ~Succeed PROVE Final
    BY <2>7, <2>0
       DEF FinishStep, operations, AppendHistory, SupersedeHistory, MarkLineage,
           MarkCommitted, RecordSkipped, DropCommitted
  <2>8. ASSUME RecoveryStep, ~(RecoverInterrupt \/ FailOperation \/ Interrupt) PROVE Final
    BY <2>8, <2>0
       DEF RecoveryStep, operations, durable, RecoverPointerForward,
           RecoverRetireForward, RecoverForward, RecoverInconsistent, RecoverUnreadable,
           RecoverPointerBack, RecoverRetireMarker, RecoverRetireUnlink,
           RecoverClearMarker, RecoverWorkspaceBack, DropRecovered, RecoverClean, Ready
  <2>q. QED
    BY <1>1, <2>1, <2>2, <2>3, <2>4, <2>5, <2>6, <2>7, <2>8 DEF Next, Step
<1>2. UNCHANGED vars => Final
  BY DEF vars, durable
<1>3. Frame /\ [Next]_vars => [Final]_vars
  BY <1>1, <1>2
<1>q. QED
  BY <1>3, FrameInvariant, PTL DEF Spec, TerminalIsFinal

-----------------------------------------------------------------------------
(* Sound.                                                                    *)

\* The evidence recovery goes by is right: it takes the way to B exactly when the
\* workspace record is the committed one, even if the phase was never saved and
\* even if the new snapshot has the id of the prior one.
LEMMA EvidenceIsRight ==
    ASSUME Frame, Pivot, P \/ E
    PROVE  /\ Forward <=> InB
           /\ InA <=> ~InB
           /\ Target = Open.new
           /\ ws.status # "TOMBSTONED"
           /\ Open.op \in Ops
           /\ Open.op \in ws.effects <=> InB
<1>. USE DEF Frame, TypeOK, Control
<1>1. /\ Open.prior \in Workspace /\ ws \in Workspace /\ Open.op \in Ops
      /\ P => Open = pubJournal /\ ~E
      /\ E => Open = empJournal /\ ~P
  BY OpenFields
<1>2. Open.prior.revision \in Nat /\ ws.revision \in Nat
  BY <1>1, WorkspaceFields
<1>3. /\ After(Open).revision = Open.prior.revision + 1
      /\ After(Open).snapshot = Open.new
      /\ After(Open).status = IF Open.desired = {} THEN "EMPTY" ELSE "ACTIVE"
      /\ After(Open).effects = Open.prior.effects \cup {Open.op}
  BY DEF After
<1>4. InA <=> ~InB
  BY <1>2, <1>3 DEF Pivot, InA, InB
<1>5. InA => ws.revision = Open.prior.revision /\ ws.status = Open.prior.status
  BY DEF InA
<1>6. InB => /\ ws.revision > Open.prior.revision /\ ws.snapshot = Open.new
             /\ ws.status = IF Open.desired = {} THEN "EMPTY" ELSE "ACTIVE"
  BY <1>2, <1>3 DEF InB
<1>7. ASSUME P PROVE Forward <=> InB
  BY <1>1, <1>2, <1>4, <1>5, <1>6, <1>7
     DEF Pivot, Forward, PublicationCommitted, P
<1>8. ASSUME E PROVE Forward <=> InB
  BY <1>1, <1>4, <1>5, <1>6, <1>8
     DEF Pivot, Forward, EmptyCommitted, P, E
<1>9. Forward <=> InB
  BY <1>7, <1>8
<1>10. Target = Open.new
  BY <1>1 DEF Target, Pivot, P, E
<1>11. ws.status # "TOMBSTONED"
  BY <1>4, <1>5, <1>6 DEF Pivot
<1>12. Open.op \in ws.effects <=> InB
  BY <1>3, <1>4 DEF Pivot, InA, InB
<1>q. QED
  BY <1>1, <1>4, <1>9, <1>10, <1>11, <1>12

\* What a step that writes neither workspace.json nor a journal leaves alone.
LEMMA Untouched ==
    ASSUME UNCHANGED <<ws, pubJournal, empJournal>>
    PROVE  /\ Open' = Open /\ (P' <=> P) /\ (E' <=> E)
           /\ (InA' <=> InA) /\ (InB' <=> InB)
           /\ (NoOpenJournal' <=> NoOpenJournal)
           /\ (Pivot => Pivot')
BY DEF Open, P, E, InA, InB, NoOpenJournal, Pivot, WellFormed, PlanOf, After

\* The initial state.
LEMMA SoundStarts == Init => Sound
<1>. SUFFICES ASSUME Init PROVE Sound
  OBVIOUS
<1>1. ~P /\ ~E /\ NoOpenJournal /\ pc = "idle" /\ mode = "run"
  BY DEF Init, P, E, NoOpenJournal
<1>2. WellFormed(ws) /\ ws.effects = {} /\ ws.sources \subseteq Legacy
  <2>1. CASE ws = Empty1
    BY <2>1 DEF WellFormed, Empty1
  <2>2. CASE ws = Legacy1
    <3>1. LegacySnapshot # NoSnapshot
      BY NullAssumption, BoundsAssumption
    <3>q. QED
      BY <2>2, <3>1 DEF WellFormed, Legacy1, Legacy
  <2>q. QED
    BY <2>1, <2>2 DEF Init
<1>3. Pivot
  BY <1>1, <1>2 DEF Pivot, P, E
<1>4. PivotSteps /\ Serving
  BY <1>1 DEF Init, PivotSteps, Serving, PubSteps, EmpSteps, BackSteps, ForwardSteps
<1>5. Sourced
  BY <1>1, <1>2 DEF Init, Sourced, Describes
<1>6. Effects /\ Faults
  BY <1>1, <1>2 DEF Init, Effects, Faults, SucceededIsDurable
<1>q. QED
  BY <1>3, <1>4, <1>5, <1>6 DEF Sound

\* Reservation and launch: an operation that has not begun has no effect.
LEMMA SoundAccept ==
    ASSUME Frame, Sound, Accept
    PROVE  Sound'
<1>. USE DEF Sound
<1>1. PICK op \in Ops : \/ Reserve(op) \/ ReserveRefused(op)
                        \/ WorkerBegins(op) \/ WorkerGivesUp(op)
  BY DEF Accept
<1>2. /\ UNCHANGED <<ws, pubJournal, empJournal, recorded, closed, pointer, retired, built,
                     faults, mode>>
      /\ pc' = pc \/ (pc = "idle" /\ pc' = "prepared")
  BY <1>1 DEF Reserve, ReserveRefused, WorkerBegins, WorkerGivesUp, At, publication,
              lineage, journals, budget, control, durable, Frame, Control
<1>3. /\ Open' = Open /\ (P' <=> P) /\ (E' <=> E) /\ (InA' <=> InA) /\ (InB' <=> InB)
      /\ (NoOpenJournal' <=> NoOpenJournal) /\ Pivot'
  BY <1>2, Untouched
<1>4. Sourced' /\ Serving' /\ PivotSteps'
  BY <1>2, <1>3 DEF Sourced, Serving, PivotSteps, Describes, PubSteps, EmpSteps, BackSteps,
                    ForwardSteps
<1>5. /\ opStatus \in [Ops -> Statuses]
      /\ \/ opStatus' = opStatus
         \/ \E status \in {"PENDING", "FAILED", "PREPARING"} :
                opStatus' = [opStatus EXCEPT ![op] = status]
      /\ opStatus' # opStatus => opStatus[op] \in {"NONE", "PENDING"}
  BY <1>1 DEF Frame, TypeOK, Records, Reserve, ReserveRefused, WorkerBegins, WorkerGivesUp,
              durable, SetStatus
<1>6. opStatus' # opStatus => op \notin ws.effects
  BY <1>5 DEF Frame, Records, Control, Effects, Open, P, E, Terminal
<1>7. ws.effects \subseteq Ops
  BY WorkspaceFields DEF Frame, TypeOK
<1>8. \A o \in ws.effects : opStatus'[o] = opStatus[o]
  BY <1>5, <1>6, <1>7
<1>9. Effects'
  <2>1. SucceededIsDurable'
    BY <1>2, <1>5 DEF Effects, SucceededIsDurable
  <2>q. QED
    BY <1>2, <1>3, <1>8, <2>1 DEF Effects
<1>10. Faults'
  BY <1>2, <1>3, <1>8 DEF Faults
<1>q. QED
  BY <1>3, <1>4, <1>9, <1>10

\* A patch or a tombstone, fenced by the journals.
LEMMA SoundStore ==
    ASSUME Frame, Sound, MetadataPatch \/ Tombstone
    PROVE  Sound'
<1>. USE DEF Sound
<1>1. /\ NoOpenJournal /\ pc = "idle" /\ ws \in Workspace /\ ws.status # "TOMBSTONED"
      /\ UNCHANGED <<pointer, retired, manifests, recorded, closed, pubJournal, empJournal,
                     opStatus, pc, mode, cur, built, faults>>
  BY DEF MetadataPatch, Tombstone, At, publication, lineage, journals, operations, control,
         budget, Frame, TypeOK
<1>2. /\ ws'.sources = ws.sources /\ ws'.effects = ws.effects
      /\ \/ ws'.status = ws.status /\ ws'.snapshot = ws.snapshot
         \/ ws'.status = "TOMBSTONED" /\ ws'.snapshot = NoSnapshot
  <2>1. CASE MetadataPatch
    BY <1>1, <2>1 DEF MetadataPatch, Workspace
  <2>2. CASE Tombstone
    BY <1>1, <2>2 DEF Tombstone
  <2>q. QED
    BY <2>1, <2>2
<1>3. ~P /\ ~E /\ ~P' /\ ~E' /\ NoOpenJournal'
  BY <1>1 DEF P, E, NoOpenJournal
<1>4. Pivot'
  BY <1>2, <1>3 DEF Pivot, WellFormed
<1>5. PivotSteps' /\ Serving'
  BY <1>1, <1>2, <1>3
     DEF PivotSteps, Serving, PubSteps, EmpSteps, BackSteps, ForwardSteps
<1>6. Sourced'
  BY <1>1, <1>2, <1>3 DEF Sourced, Describes
<1>7. Effects' /\ Faults'
  BY <1>1, <1>2, <1>3 DEF Effects, Faults, SucceededIsDurable
<1>q. QED
  BY <1>4, <1>5, <1>6, <1>7

\* A mutation begins: the state is A of the new journal.
LEMMA SoundBegin ==
    ASSUME Frame, Sound, BeginPublication \/ BeginEmpty
    PROVE  Sound'
<1>. USE DEF Sound
<1>1. /\ pc = "prepared" /\ mode = "run" /\ cur \in Ops /\ ws.status # "TOMBSTONED"
      /\ NoOpenJournal /\ TypeOK /\ ws \in Workspace /\ opStatus[cur] \notin Terminal
      /\ UNCHANGED <<ws, pointer, retired, recorded, closed, opStatus, mode, faults>>
  BY DEF BeginPublication, BeginEmpty, At, Goto, publication, lineage, operations, budget,
         Frame, TypeOK, Control, Records
<1>2. PICK plan \in Plans :
        \/ /\ pubJournal' = NewJournal(plan) /\ empJournal' = empJournal
           /\ plan.desired # {} /\ pc' = "pub_begun"
        \/ /\ empJournal' = NewJournal(plan) /\ pubJournal' = pubJournal
           /\ plan.desired = {} /\ pc' = "emp_begun" /\ ws.status = "ACTIVE"
  BY DEF BeginPublication, BeginEmpty, Goto
<1>3. /\ Open' = NewJournal(plan) /\ (P' \/ E') /\ ~NoOpenJournal'
      /\ P' => pubJournal' = NewJournal(plan) /\ plan.desired # {} /\ pc' = "pub_begun"
      /\ E' => /\ empJournal' = NewJournal(plan) /\ plan.desired = {}
               /\ pc' = "emp_begun" /\ ws.status = "ACTIVE"
  <2>1. NewJournal(plan) # NoJournal
    <3>1. "INTENT_RECORDED" \in PubPhases
      BY DEF PubPhases
    <3>q. QED
      BY <1>1, <3>1, NewJournalShape, JournalExists
  <2>q. QED
    BY <1>1, <1>2, <2>1 DEF Open, P, E, NoOpenJournal
<1>4. /\ Open'.op = cur /\ Open'.prior = ws /\ Open'.appended = plan.appended
      /\ Open'.superseded = plan.superseded /\ Open'.desired = plan.desired
      /\ Open'.new = NoSnapshot /\ Open'.phase = "INTENT_RECORDED"
  BY <1>1, <1>3, NewJournalShape
<1>5. /\ plan.desired = (ws.sources \ plan.superseded) \cup plan.appended
      /\ plan.superseded \subseteq ws.sources
      /\ plan.appended \cap (recorded \cup ws.sources) = {}
      /\ plan.appended \cup plan.superseded # {}
  BY <1>1, PlanShape
<1>6. InA' /\ ~InB'
  <2>1. InA'
    BY <1>1, <1>4 DEF InA
  <2>2. ws.revision \in Nat
    BY <1>1, WorkspaceFields
  <2>q. QED
    BY <1>1, <1>4, <2>1, <2>2 DEF InB, After
<1>7. cur \notin ws.effects
  BY <1>1 DEF Effects, NoOpenJournal, P, E
<1>8. Pivot'
  <2>1. WellFormed(ws) /\ WellFormed(ws)'
    BY <1>1 DEF Pivot, WellFormed
  <2>2. WellFormed(Open.prior)' /\ PlanOf(Open)'
    BY <1>1, <1>4, <1>5, <2>1 DEF WellFormed, PlanOf
  <2>q. QED
    BY <1>1, <1>3, <1>4, <1>6, <1>7, <2>1, <2>2
       DEF Pivot, ForwardPhases
<1>9. PivotSteps'
  BY <1>3, <1>6 DEF PivotSteps, PubSteps, EmpSteps, BackSteps, ForwardSteps
<1>10. Serving'
  BY <1>1, <1>3, <1>4, <1>6 DEF Serving
<1>11. Sourced'
  <2>1. closed \subseteq recorded /\ Describes(ws.sources)
    BY <1>1 DEF Sourced
  <2>q. QED
    BY <1>1, <1>3, <1>4, <1>5, <1>6, <2>1 DEF Sourced, Describes
<1>12. Effects' /\ Faults'
  BY <1>1, <1>3, <1>6 DEF Effects, Faults, SucceededIsDurable, NoOpenJournal, P, E
<1>q. QED
  BY <1>8, <1>9, <1>10, <1>11, <1>12

\* Steps that write neither workspace.json, a journal, the history nor an operation
\* record: what is left to show is where the holder and the pointer stand.
LEMMA SoundQuiet ==
    ASSUME Frame, Sound,
           UNCHANGED <<ws, pubJournal, empJournal, recorded, closed, opStatus>>,
           PivotSteps', Serving', faults' \in Nat, faults' >= faults,
           (P \/ E) /\ InB =>
                \/ mode' = "startup"
                \/ mode' = "run" /\ pc' \in {"pub_committed", "emp_written", "finish"}
                \/ mode' \in {"inner", "outer"} /\ faults' >= 1 /\ pc' # "fail_op"
                \/ faults' >= 2
    PROVE  Sound'
<1>. USE DEF Sound
<1>1. /\ Open' = Open /\ (P' <=> P) /\ (E' <=> E) /\ (InA' <=> InA) /\ (InB' <=> InB)
      /\ (NoOpenJournal' <=> NoOpenJournal) /\ Pivot'
  BY Untouched
<1>2. Sourced'
  BY <1>1 DEF Sourced, Describes
<1>3. Effects'
  BY <1>1 DEF Effects, SucceededIsDurable
<1>4. Faults'
  <2>1. faults \in Nat
    BY BoundsAssumption DEF Frame, TypeOK
  <2>q. QED
    BY <1>1, <2>1 DEF Faults
<1>q. QED
  BY <1>1, <1>2, <1>3, <1>4

\* The publication path up to the pivot, and the steps that give it up.
LEMMA SoundBuild ==
    ASSUME Frame, Sound, Frame',
           \/ WriteManifest \/ WritePointer \/ ClearMarker \/ PlanFails \/ IngestFails
           \/ EmptyRefused \/ WriteRetiredMarker \/ UnlinkPointer
    PROVE  Sound'
<1>. USE DEF Sound, Goto, Handle, At
<1>1. /\ UNCHANGED <<ws, pubJournal, empJournal, recorded, closed, opStatus, faults>>
      /\ pc \in {"prepared", "pub_building", "pub_manifest", "pub_pointer", "emp_running",
                 "emp_marked"}
      /\ \/ mode' = "run" /\ mode = "run" /\ pc # "prepared"
         \/ mode' \in {"inner", "outer"} /\ pc' = "recover"
  BY DEF WriteManifest, WritePointer, ClearMarker, PlanFails, IngestFails, EmptyRefused,
         WriteRetiredMarker, UnlinkPointer, lineage, journals, operations, budget, durable,
         Frame, Control, PubSteps, EmpSteps
<1>2. /\ Open' = Open /\ (P' <=> P) /\ (E' <=> E) /\ (InA' <=> InA) /\ (InB' <=> InB)
      /\ (NoOpenJournal' <=> NoOpenJournal)
  BY <1>1, Untouched
<1>3. pc # "prepared" => InA /\ ~InB /\ (P \/ E)
  BY <1>1, EvidenceIsRight DEF PivotSteps, PubSteps, EmpSteps, Frame, Control
<1>4. faults \in Nat
  BY BoundsAssumption DEF Frame, TypeOK
<1>5. PivotSteps'
  <2>1. pc' \in {"recover", "pub_manifest", "pub_pointer", "pub_published", "emp_marked",
                 "emp_retired"}
    BY DEF WriteManifest, WritePointer, ClearMarker, PlanFails, IngestFails, EmptyRefused,
           WriteRetiredMarker, UnlinkPointer
  <2>2. pc' # "recover" => pc # "prepared"
    BY <1>1, <2>1 DEF PlanFails
  <2>q. QED
    BY <1>2, <1>3, <2>1, <2>2
       DEF PivotSteps, PubSteps, EmpSteps, BackSteps, ForwardSteps
<1>6. Serving'
  <2>1. CASE PlanFails \/ IngestFails \/ EmptyRefused
    BY <1>2, <2>1 DEF Serving, PlanFails, IngestFails, EmptyRefused, durable
  <2>2. CASE WriteManifest
    <3>1. built' # NoSnapshot
      BY <2>2, NullAssumption DEF WriteManifest
    <3>q. QED
      BY <1>1, <1>2, <1>3, <2>2, <3>1 DEF Serving, WriteManifest, NoOpenJournal, P, E
  <2>3. CASE WritePointer \/ ClearMarker
    <3>1. P /\ ~E
      BY <2>3 DEF WritePointer, ClearMarker, Frame, Control, PubSteps
    <3>q. QED
      BY <1>2, <1>3, <2>3, <3>1
         DEF Serving, WritePointer, ClearMarker, NoOpenJournal, P, E
  <2>4. CASE WriteRetiredMarker \/ UnlinkPointer
    <3>1. E /\ ~P
      BY <2>4 DEF WriteRetiredMarker, UnlinkPointer, Frame, Control, EmpSteps
    <3>q. QED
      BY <1>1, <1>2, <1>3, <2>4, <3>1
         DEF Serving, WriteRetiredMarker, UnlinkPointer, NoOpenJournal, P, E
  <2>q. QED
    BY <2>1, <2>2, <2>3, <2>4
<1>7. (P \/ E) /\ InB => faults' >= 2
  BY <1>1, <1>3 DEF Faults, Frame, Control
<1>q. QED
  BY <1>1, <1>4, <1>5, <1>6, <1>7, SoundQuiet

\* The phase of the open journal moves on.
LEMMA SoundPhase ==
    ASSUME Frame, Sound, P \/ E, NEW phase, SetPhase(phase),
           UNCHANGED <<ws, recorded, closed, opStatus, pointer, retired, built, mode, faults>>,
           P => /\ phase \in PubPhases \ {"INTENT_RECORDED"}
                /\ pubJournal.new # NoSnapshot,
           E => phase \in EmpPhases,
           phase \in ForwardPhases \cup {"WORKSPACE_EMPTIED"} => InB,
           phase \in {"LINEAGE_COMMITTED", "COMMITTED"} =>
                /\ Open.appended \cup Open.superseded \subseteq recorded
                /\ Open.superseded \subseteq closed,
           \/ pc' = "finish" /\ InB /\ (P => phase \in ForwardPhases)
           \/ pc' = "emp_write" /\ InA /\ pointer = NoSnapshot
    PROVE  Sound'
<1>. USE DEF Sound
<1>1. /\ TypeOK
      /\ P => Open = pubJournal /\ ~E
      /\ E => Open = empJournal /\ ~P
  BY OpenFields DEF Frame, Control
<1>2. /\ Open'.op = Open.op /\ Open'.prior = Open.prior /\ Open'.appended = Open.appended
      /\ Open'.superseded = Open.superseded /\ Open'.desired = Open.desired
      /\ Open'.new = Open.new /\ Open'.phase = phase
      /\ (P' <=> P) /\ (E' <=> E)
      /\ P => Open' = pubJournal'
      /\ E => Open' = empJournal'
  <2>1. CASE P
    BY <1>1, <2>1, SetPhaseOfPublication DEF Open, P, E
  <2>2. CASE E
    BY <1>1, <2>2, SetPhaseOfEmpty DEF Open, P, E
  <2>q. QED
    BY <2>1, <2>2
<1>3. (InA' <=> InA) /\ (InB' <=> InB) /\ (NoOpenJournal' <=> NoOpenJournal)
  BY <1>2 DEF InA, InB, After, NoOpenJournal, P, E
<1>4. InA <=> ~InB
  BY EvidenceIsRight
<1>5. Pivot'
  <2>1. WellFormed(ws)' /\ WellFormed(Open.prior)' /\ PlanOf(Open)'
    BY <1>2 DEF Pivot, WellFormed, PlanOf
  <2>q. QED
    BY <1>1, <1>2, <1>3, <2>1 DEF Pivot, ForwardPhases
<1>6. PivotSteps'
  BY <1>1, <1>2, <1>3 DEF PivotSteps, PubSteps, EmpSteps, BackSteps, ForwardSteps
<1>7. Serving'
  BY <1>1, <1>2, <1>3, <1>4 DEF Serving, NoOpenJournal, P, E
<1>8. Sourced'
  BY <1>2, <1>3 DEF Sourced, Describes, NoOpenJournal, P, E
<1>9. Effects'
  BY <1>2 DEF Effects, SucceededIsDurable
<1>10. Faults'
  BY <1>2, <1>3, <1>4 DEF Faults
<1>q. QED
  BY <1>5, <1>6, <1>7, <1>8, <1>9, <1>10

\* The publication is observed: the journal learns the new snapshot, still in A.
LEMMA SoundObserved ==
    ASSUME Frame, Sound, Frame', MarkPublicationObserved
    PROVE  Sound'
<1>. USE DEF Sound
<1>1. /\ P /\ ~E /\ Open = pubJournal /\ pc = "pub_published" /\ mode = "run"
      /\ TypeOK /\ InA
  BY OpenFields DEF MarkPublicationObserved, At, Frame, Control, PubSteps, PivotSteps
<1>2. UNCHANGED <<ws, recorded, closed, opStatus, pointer, retired, built, mode, faults,
                  empJournal>> /\ pc' = "pub_observed"
  BY DEF MarkPublicationObserved, Goto, publication, lineage, operations, budget
<1>3. /\ pubJournal'.op = pubJournal.op /\ pubJournal'.prior = pubJournal.prior
      /\ pubJournal'.appended = pubJournal.appended
      /\ pubJournal'.superseded = pubJournal.superseded
      /\ pubJournal'.desired = pubJournal.desired
      /\ pubJournal'.new = built /\ pubJournal'.phase = "PUBLICATION_OBSERVED"
  BY DEF MarkPublicationObserved
<1>4. P' /\ ~E' /\ Open' = pubJournal' /\ ~NoOpenJournal'
  <2>1. pc' \in PubSteps
    BY <1>2 DEF PubSteps
  <2>q. QED
    BY <1>1, <1>2, <2>1 DEF Frame, Control, Open, P, E, NoOpenJournal
<1>5. InA' /\ ~InB'
  <2>1. InA'
    BY <1>1, <1>2, <1>3, <1>4 DEF InA
  <2>2. pubJournal.prior.revision \in Nat
    BY <1>1, JournalFields, WorkspaceFields
  <2>q. QED
    BY <1>3, <1>4, <2>1, <2>2 DEF InA, InB, After
<1>6. pointer = built /\ built # NoSnapshot /\ ~retired
  BY <1>1 DEF Serving
<1>7. Pivot'
  <2>1. WellFormed(ws)' /\ WellFormed(Open.prior)' /\ PlanOf(Open)'
    BY <1>1, <1>2, <1>3, <1>4 DEF Pivot, WellFormed, PlanOf
  <2>q. QED
    BY <1>1, <1>2, <1>3, <1>4, <1>5, <1>6, <2>1 DEF Pivot, ForwardPhases
<1>8. PivotSteps' /\ Serving'
  BY <1>2, <1>3, <1>4, <1>5, <1>6
     DEF PivotSteps, Serving, PubSteps, EmpSteps, BackSteps, ForwardSteps
<1>9. Sourced'
  BY <1>1, <1>2, <1>3, <1>4, <1>5 DEF Sourced, Describes
<1>10. Effects' /\ Faults'
  BY <1>1, <1>2, <1>3, <1>4, <1>5 DEF Effects, Faults, SucceededIsDurable
<1>q. QED
  BY <1>7, <1>8, <1>9, <1>10

\* The pivot itself: one write of workspace.json takes A to B.
LEMMA SoundCommit ==
    ASSUME Frame, Sound, Frame', CommitWorkspace \/ EmptyWorkspace
    PROVE  Sound'
<1>. USE DEF Sound
<1>1. /\ TypeOK /\ (P \/ E) /\ mode = "run" /\ InA /\ ~InB /\ Open.op = cur /\ cur \in Ops
      /\ opStatus[cur] \notin Terminal
      /\ P => Open = pubJournal /\ ~E
      /\ E => Open = empJournal /\ ~P
      /\ pc \in {"pub_observed", "emp_write"}
  BY OpenFields, EvidenceIsRight
     DEF CommitWorkspace, EmptyWorkspace, At, Frame, Control, PubSteps, EmpSteps, PivotSteps,
         Records
<1>2. /\ UNCHANGED <<pubJournal, empJournal, recorded, closed, opStatus, pointer, retired,
                     built, mode, faults>>
      /\ P => pc' = "pub_committed"
      /\ E => pc' = "emp_written"
  BY <1>1 DEF CommitWorkspace, EmptyWorkspace, At, Goto, publication, lineage, journals,
              operations, budget, Frame, Control, PubSteps, EmpSteps
<1>3. /\ Open' = Open /\ (P' <=> P) /\ (E' <=> E)
  BY <1>2 DEF Open, P, E
<1>4. pointer = Open.new /\ (P => Open.new # NoSnapshot /\ ~retired)
  <2>1. CASE P
    <3>1. pc = "pub_observed"
      BY <1>1, <2>1 DEF Frame, Control, EmpSteps
    <3>q. QED
      BY <1>1, <2>1, <3>1 DEF Serving
  <2>2. CASE E
    <3>1. pc = "emp_write"
      BY <1>1, <2>2 DEF Frame, Control, PubSteps
    <3>q. QED
      BY <1>1, <2>2, <3>1 DEF Serving, Pivot
  <2>q. QED
    BY <1>1, <2>1, <2>2
<1>5. ws' = After(Open)
  <2>1. CASE CommitWorkspace
    <3>1. P /\ built = pubJournal.new /\ pubJournal.desired # {}
      BY <1>1, <2>1 DEF CommitWorkspace, At, Serving, Pivot, Frame, Control, PubSteps
    <3>q. QED
      BY <1>1, <2>1, <3>1 DEF CommitWorkspace, After
  <2>2. CASE EmptyWorkspace
    <3>1. E /\ empJournal.new = NoSnapshot /\ empJournal.desired = {}
      BY <1>1, <2>2 DEF EmptyWorkspace, At, Pivot, Frame, Control, EmpSteps
    <3>q. QED
      BY <1>1, <2>2, <3>1 DEF EmptyWorkspace, After
  <2>q. QED
    BY <2>1, <2>2
<1>6. /\ ws'.status = IF Open.desired = {} THEN "EMPTY" ELSE "ACTIVE"
      /\ ws'.snapshot = Open.new /\ ws'.sources = Open.desired
      /\ ws'.effects = ws.effects \cup {cur}
  BY <1>1, <1>5 DEF After, InA
<1>7. InB' /\ ~InA'
  <2>1. InB'
    BY <1>3, <1>5 DEF InB, After
  <2>2. Open.prior.revision \in Nat
    BY <1>1, OpenFields, WorkspaceFields
  <2>q. QED
    BY <1>3, <1>5, <2>1, <2>2 DEF InA, After
<1>8. Pivot'
  <2>1. WellFormed(ws)'
    <3>1. Open.desired = {} <=> Open.new = NoSnapshot
      BY <1>1, <1>4 DEF Pivot
    <3>q. QED
      BY <1>6, <3>1 DEF WellFormed
  <2>2. WellFormed(Open.prior)' /\ PlanOf(Open)'
    BY <1>1, <1>3 DEF Pivot, WellFormed, PlanOf
  <2>q. QED
    BY <1>1, <1>2, <1>3, <1>4, <1>7, <2>1, <2>2 DEF Pivot
<1>9. PivotSteps'
  BY <1>1, <1>2, <1>3, <1>7 DEF PivotSteps, PubSteps, EmpSteps, BackSteps, ForwardSteps
<1>10. Serving'
  BY <1>1, <1>2, <1>3, <1>4, <1>7 DEF Serving, NoOpenJournal, P, E
<1>11. Sourced'
  BY <1>1, <1>2, <1>3, <1>7 DEF Sourced, NoOpenJournal, P, E
<1>12. Effects'
  BY <1>1, <1>2, <1>3, <1>6 DEF Effects, SucceededIsDurable
<1>13. Faults'
  BY <1>1, <1>2, <1>3, <1>6 DEF Faults, Terminal
<1>q. QED
  BY <1>8, <1>9, <1>10, <1>11, <1>12, <1>13

\* The phases that follow a write: retirement and pivot.
LEMMA SoundMarks ==
    ASSUME Frame, Sound,
           MarkWorkspaceCommitted \/ MarkPublicationRetired \/ MarkWorkspaceEmptied
    PROVE  Sound'
<1>. USE DEF Sound, At, Goto
<1>1. UNCHANGED <<ws, recorded, closed, opStatus, pointer, retired, built, mode, faults>>
  BY DEF MarkWorkspaceCommitted, MarkPublicationRetired, MarkWorkspaceEmptied, publication,
         lineage, operations, budget
<1>2. CASE MarkWorkspaceCommitted
  <2>1. P /\ ~E /\ InB /\ SetPhase("WORKSPACE_COMMITTED") /\ pc' = "finish"
    BY <1>2 DEF MarkWorkspaceCommitted, Frame, Control, PubSteps, PivotSteps
  <2>2. pubJournal.new # NoSnapshot
    BY <2>1 DEF Pivot
  <2>q. QED
    BY <1>1, <2>1, <2>2, SoundPhase DEF PubPhases, ForwardPhases
<1>3. CASE MarkPublicationRetired
  <2>1. E /\ ~P /\ InA /\ pointer = NoSnapshot /\ SetPhase("PUBLICATION_RETIRED")
        /\ pc' = "emp_write"
    BY <1>3 DEF MarkPublicationRetired, Frame, Control, EmpSteps, PivotSteps, Serving
  <2>q. QED
    BY <1>1, <2>1, SoundPhase DEF EmpPhases, ForwardPhases
<1>4. CASE MarkWorkspaceEmptied
  <2>1. E /\ ~P /\ InB /\ SetPhase("WORKSPACE_EMPTIED") /\ pc' = "finish"
    BY <1>4 DEF MarkWorkspaceEmptied, Frame, Control, EmpSteps, PivotSteps
  <2>q. QED
    BY <1>1, <2>1, SoundPhase DEF EmpPhases, ForwardPhases
<1>q. QED
  BY <1>2, <1>3, <1>4

\* The operation record of a running mutation.
LEMMA SoundRunning ==
    ASSUME Frame, Sound, MarkRunning
    PROVE  Sound'
<1>. USE DEF Sound
<1>1. /\ pc \in {"pub_begun", "emp_begun"} /\ mode = "run" /\ cur \in Ops
      /\ pc' \in {"pub_building", "emp_running"} /\ InA /\ ~InB /\ (P \/ E)
      /\ Open.op = cur /\ opStatus \in [Ops -> Statuses]
  BY OpenFields, EvidenceIsRight
     DEF MarkRunning, At, Goto, Frame, TypeOK, Control, PubSteps, EmpSteps, PivotSteps
<1>2. /\ UNCHANGED <<ws, pubJournal, empJournal, recorded, closed, pointer, retired, built,
                     mode, faults>>
      /\ opStatus' = [opStatus EXCEPT ![cur] = "RUNNING"]
  BY DEF MarkRunning, Goto, SetStatus, publication, lineage, journals, budget
<1>3. /\ Open' = Open /\ (P' <=> P) /\ (E' <=> E) /\ (InA' <=> InA) /\ (InB' <=> InB)
      /\ (NoOpenJournal' <=> NoOpenJournal) /\ Pivot'
  BY <1>2, Untouched
<1>4. PivotSteps' /\ Serving'
  BY <1>1, <1>2, <1>3 DEF PivotSteps, Serving, PubSteps, EmpSteps, BackSteps, ForwardSteps
<1>5. Sourced'
  BY <1>2, <1>3 DEF Sourced, Describes
<1>6. cur \notin ws.effects /\ ws.effects \subseteq Ops
  BY <1>1, EvidenceIsRight, WorkspaceFields DEF Frame, TypeOK
<1>7. Effects' /\ Faults'
  BY <1>1, <1>2, <1>3, <1>6 DEF Effects, Faults, SucceededIsDurable
<1>q. QED
  BY <1>3, <1>4, <1>5, <1>7

\* The way to B: the history is brought in line, then the operation gets its
\* outcome, and only then the journal is dropped.
LEMMA SoundFinish ==
    ASSUME Frame, Sound, FinishStep, unreadable' = unreadable
    PROVE  Sound'
<1>. USE DEF Sound, At, Goto
<1>0. unreadable \in Nat
  BY BoundsAssumption DEF Frame, TypeOK
<1>1. /\ pc = "finish" /\ (P \/ E) /\ InB /\ ~InA /\ ws.status # "TOMBSTONED"
      /\ Open.op \in Ops /\ Open.op \in ws.effects /\ ~RecordSkipped
      /\ P => Open = pubJournal /\ ~E /\ pubJournal.phase \in ForwardPhases
      /\ E => Open = empJournal /\ ~P
      /\ P => pubJournal.new # NoSnapshot
      /\ opStatus \in [Ops -> Statuses] /\ mode \in Modes /\ faults \in Nat
  <2>1. ~RecordSkipped
    BY <1>0 DEF RecordSkipped
  <2>2. pc = "finish"
    BY <2>1 DEF FinishStep, AppendHistory, SupersedeHistory, MarkLineage, MarkCommitted,
                Succeed, DropCommitted
  <2>3. P \/ E
    BY <2>2 DEF Frame, Control
  <2>q. QED
    BY <2>1, <2>2, <2>3, EvidenceIsRight, OpenFields, BoundsAssumption
       DEF Frame, TypeOK, Control, PivotSteps, Pivot
<1>2. CASE AppendHistory \/ SupersedeHistory
  <2>1. /\ UNCHANGED <<ws, pubJournal, empJournal, pointer, retired, built, mode, faults,
                       opStatus, pc>>
        /\ recorded \subseteq recorded' /\ closed \subseteq closed'
        /\ recorded' \subseteq recorded \cup Open.appended \cup Open.superseded
        /\ closed' \subseteq closed \cup (Open.superseded \cap recorded)
        /\ closed # closed' => recorded' = recorded
    BY <1>2 DEF AppendHistory, SupersedeHistory, publication, journals, operations, budget
  <2>2. /\ Open' = Open /\ (P' <=> P) /\ (E' <=> E) /\ (InA' <=> InA) /\ (InB' <=> InB)
        /\ (NoOpenJournal' <=> NoOpenJournal) /\ Pivot'
    BY <2>1, Untouched
  <2>3. PivotSteps' /\ Serving' /\ Effects' /\ Faults'
    BY <2>1, <2>2 DEF PivotSteps, Serving, Effects, Faults, SucceededIsDurable
  <2>4. /\ Open.superseded \cap Open.desired = {}
        /\ Open.appended \subseteq Open.desired
    BY <1>1 DEF Pivot, PlanOf
  <2>5. Sourced'
    BY <1>1, <2>1, <2>2, <2>4 DEF Sourced, NoOpenJournal, P, E
  <2>q. QED
    BY <2>2, <2>3, <2>5
<1>3. CASE MarkLineage \/ MarkCommitted
  <2>1. UNCHANGED <<ws, recorded, closed, opStatus, pointer, retired, built, mode, faults>>
        /\ pc' = "finish"
    BY <1>3 DEF MarkLineage, MarkCommitted, publication, lineage, operations, budget
  <2>2. PICK phase \in {"LINEAGE_COMMITTED", "COMMITTED"} :
            SetPhase(phase) /\ (E => phase = "COMMITTED")
    BY <1>1, <1>3 DEF MarkLineage, MarkCommitted, P
  <2>3. /\ Open.appended \cup Open.superseded \subseteq recorded
        /\ Open.superseded \subseteq closed
    BY <1>1, <1>3 DEF MarkLineage, MarkCommitted, Sourced, P
  <2>4. /\ P => phase \in PubPhases \ {"INTENT_RECORDED"}
        /\ E => phase \in EmpPhases
        /\ P => phase \in ForwardPhases
    BY <2>2 DEF PubPhases, EmpPhases, ForwardPhases
  <2>q. QED
    BY <1>1, <2>1, <2>2, <2>3, <2>4, SoundPhase
<1>4. CASE Succeed
  <2>1. /\ UNCHANGED <<ws, pubJournal, empJournal, recorded, closed, pointer, retired, built,
                       mode, faults, pc>>
        /\ opStatus' = [opStatus EXCEPT ![Open.op] = "SUCCEEDED"]
    BY <1>1, <1>4 DEF Succeed, SetStatus, publication, lineage, journals, budget
  <2>2. /\ Open' = Open /\ (P' <=> P) /\ (E' <=> E) /\ (InA' <=> InA) /\ (InB' <=> InB)
        /\ (NoOpenJournal' <=> NoOpenJournal) /\ Pivot'
    BY <2>1, Untouched
  <2>3. PivotSteps' /\ Serving'
    BY <2>1, <2>2 DEF PivotSteps, Serving
  <2>4. Sourced'
    BY <2>1, <2>2 DEF Sourced, Describes
  <2>5. ws.effects \subseteq Ops
    BY WorkspaceFields DEF Frame, TypeOK
  <2>6. Effects' /\ Faults'
    BY <1>1, <2>1, <2>2, <2>5 DEF Effects, Faults, SucceededIsDurable, Terminal
  <2>q. QED
    BY <2>2, <2>3, <2>4, <2>6
<1>5. CASE DropCommitted
  <2>1. /\ UNCHANGED <<ws, recorded, closed, pointer, retired, opStatus, faults>>
        /\ Open.phase = "COMMITTED" /\ opStatus[Open.op] \in Terminal
        /\ pc' \in {"idle", "recover", "fail_op"}
        /\ ~P' /\ ~E' /\ NoOpenJournal'
    BY <1>1, <1>5 DEF DropCommitted, DropOpenJournal, AfterJournal, ReleaseLease,
                      publication, lineage, operations, budget, P, E, NoOpenJournal
  <2>2. pointer = Open.new /\ (P => ~retired) /\ (E => pointer = NoSnapshot)
    BY <1>1 DEF Serving, Pivot
  <2>3. ws.snapshot = Open.new /\ ws.sources = Open.desired
    BY <1>1 DEF InB, After
  <2>4. Pivot' /\ PivotSteps'
    BY <2>1 DEF Pivot, WellFormed, PivotSteps, PubSteps, EmpSteps, BackSteps, ForwardSteps
  <2>5. Serving'
    BY <1>1, <2>1, <2>2, <2>3 DEF Serving
  <2>6. Sourced'
    BY <1>1, <2>1, <2>3 DEF Sourced, Describes, NoOpenJournal
  <2>7. Effects' /\ Faults'
    BY <1>1, <2>1 DEF Effects, Faults, SucceededIsDurable
  <2>q. QED
    BY <2>4, <2>5, <2>6, <2>7
<1>q. QED
  BY <1>1, <1>2, <1>3, <1>4, <1>5 DEF FinishStep

\* Recovery to B writes what is already there: the pointer is the target and no
\* marker contradicts it.
LEMMA SoundForward ==
    ASSUME Frame, Sound,
           \/ RecoverPointerForward \/ RecoverRetireForward
           \/ RecoverClearMarker /\ pc = "forward_clear"
    PROVE  Sound'
<1>. USE DEF Sound, At, Goto
<1>1. /\ UNCHANGED <<ws, pubJournal, empJournal, recorded, closed, opStatus, mode, built,
                     faults>>
      /\ pc \in {"recover", "forward_clear"}
  BY DEF RecoverPointerForward, RecoverRetireForward, RecoverClearMarker, lineage, journals,
         operations, budget, Recovering, Restoring
<1>2. P \/ E
  BY DEF RecoverPointerForward, RecoverRetireForward, Recovering, NoOpenJournal, P, E,
         Frame, Control, ForwardSteps
<1>3. InB
  BY <1>2, EvidenceIsRight
     DEF RecoverPointerForward, RecoverRetireForward, PivotSteps, ForwardSteps
<1>4. /\ ~InA /\ pointer = Open.new /\ Target = Open.new /\ mode # "run" /\ mode \in Modes
      /\ faults \in Nat /\ ~(P /\ E)
  BY <1>1, <1>2, <1>3, EvidenceIsRight, BoundsAssumption
     DEF Serving, Frame, TypeOK, Control, ForwardSteps
<1>5. E => Open.new = NoSnapshot
  BY <1>4, OpenFields DEF Pivot, Frame, Control
<1>6. ~RecoverRetireForward
  BY <1>2, <1>4, <1>5 DEF RecoverRetireForward, P
<1>7. pointer' = pointer /\ (P => ~retired') /\ pc' \in {"forward_clear", "forward"}
  <2>1. CASE RecoverPointerForward
    BY <1>2, <1>3, <1>4, <2>1 DEF RecoverPointerForward, Serving
  <2>2. CASE RecoverClearMarker /\ pc = "forward_clear"
    BY <2>2 DEF RecoverClearMarker, Restoring, Recovering
  <2>q. QED
    BY <1>6, <2>1, <2>2
<1>8. /\ Open' = Open /\ (P' <=> P) /\ (E' <=> E) /\ (InA' <=> InA) /\ (InB' <=> InB)
      /\ (NoOpenJournal' <=> NoOpenJournal)
  BY <1>1, Untouched
<1>9. PivotSteps'
  BY <1>3, <1>7, <1>8 DEF PivotSteps, PubSteps, EmpSteps, BackSteps, ForwardSteps
<1>10. Serving'
  BY <1>2, <1>3, <1>4, <1>7, <1>8 DEF Serving, NoOpenJournal, P, E
<1>11. \/ mode' = "startup"
       \/ mode' \in {"inner", "outer"} /\ faults' >= 1 /\ pc' # "fail_op"
       \/ faults' >= 2
  BY <1>1, <1>2, <1>3, <1>4, <1>7 DEF Faults
<1>q. QED
  BY <1>1, <1>4, <1>9, <1>10, <1>11, SoundQuiet

\* Recovery to A: the prior publication is current again before the prior record
\* is written, which by then is what workspace.json holds.
LEMMA SoundBack ==
    ASSUME Frame, Sound,
           \/ RecoverInconsistent \/ RecoverPointerBack \/ RecoverRetireMarker
           \/ RecoverRetireUnlink \/ RecoverWorkspaceBack
           \/ RecoverClearMarker /\ pc # "forward_clear"
    PROVE  Sound'
<1>. USE DEF Sound, At, Goto
<1>1. /\ UNCHANGED <<pubJournal, empJournal, recorded, closed, opStatus, mode, built,
                     faults>>
      /\ pc \in {"recover", "back_clear", "back_unlink", "back_write"}
  BY DEF RecoverInconsistent, RecoverPointerBack, RecoverRetireMarker, RecoverRetireUnlink,
         RecoverWorkspaceBack, RecoverClearMarker, durable, lineage, journals, operations,
         budget, Recovering, Restoring, PivotSteps
<1>2. P \/ E
  BY <1>1 DEF RecoverInconsistent, RecoverPointerBack, RecoverRetireMarker,
         RecoverRetireUnlink, RecoverWorkspaceBack, RecoverClearMarker, Restoring, Recovering,
         NoOpenJournal, P, E, Frame, Control, BackSteps, PivotSteps
<1>3. InA
  BY <1>1, <1>2, EvidenceIsRight
     DEF RecoverInconsistent, RecoverPointerBack, RecoverRetireMarker, RecoverRetireUnlink,
         RecoverWorkspaceBack, RecoverClearMarker, Restoring, PivotSteps, BackSteps
<1>4. /\ ~InB /\ faults \in Nat
      /\ P => Open = pubJournal /\ ~E
      /\ E => Open = empJournal /\ ~P
  BY <1>2, <1>3, EvidenceIsRight, OpenFields, BoundsAssumption
     DEF Frame, TypeOK, Control
<1>5. ws' = ws
  BY <1>3 DEF InA, RecoverInconsistent, RecoverPointerBack, RecoverRetireMarker,
         RecoverRetireUnlink, RecoverWorkspaceBack, RecoverClearMarker, durable
<1>6. /\ Open' = Open /\ (P' <=> P) /\ (E' <=> E) /\ (InA' <=> InA) /\ (InB' <=> InB)
      /\ (NoOpenJournal' <=> NoOpenJournal)
  BY <1>1, <1>5, Untouched
<1>7. ~RecoverInconsistent
  BY <1>2, <1>4 DEF RecoverInconsistent, Pivot, P, E
<1>8. E => Open.prior.snapshot # NoSnapshot
  BY <1>2, <1>4 DEF Pivot, WellFormed
<1>9. pc' \in {"back_clear", "back_unlink", "back_write", "back_drop"}
  BY <1>1, <1>7 DEF RecoverPointerBack, RecoverRetireMarker, RecoverRetireUnlink,
               RecoverWorkspaceBack, RecoverClearMarker
<1>10. PivotSteps'
  BY <1>3, <1>6, <1>9 DEF PivotSteps, PubSteps, EmpSteps, BackSteps, ForwardSteps
<1>11. /\ pc' # "back_unlink" => pointer' = Open.prior.snapshot
       /\ pc' \in {"back_write", "back_drop"} => (retired' => pointer' = NoSnapshot)
       /\ pc' = "back_unlink" => Open.prior.snapshot = NoSnapshot
  <2>1. CASE RecoverPointerBack
    BY <2>1 DEF RecoverPointerBack
  <2>2. CASE RecoverRetireMarker
    BY <2>2 DEF RecoverRetireMarker
  <2>3. CASE RecoverRetireUnlink
    BY <1>1, <2>3 DEF RecoverRetireUnlink, Serving
  <2>4. CASE RecoverWorkspaceBack
    BY <2>4 DEF RecoverWorkspaceBack, Serving, publication
  <2>5. CASE RecoverClearMarker /\ pc # "forward_clear"
    <3>1. CASE pc = "back_clear"
      BY <2>5, <3>1 DEF RecoverClearMarker, Restoring, Recovering, Serving
    <3>2. CASE pc # "back_clear"
      <4>1. pointer' = pointer /\ ~retired' /\ pc' = "back_write"
            /\ IF Open.prior.snapshot = NoSnapshot
               THEN pointer = NoSnapshot
               ELSE ~P /\ pointer # NoSnapshot
        BY <2>5, <3>2 DEF RecoverClearMarker, P
      <4>2. E /\ pointer # NoSnapshot => pointer = Open.prior.snapshot
        BY <1>3, <1>4 DEF Serving
      <4>q. QED
        BY <1>2, <4>1, <4>2
    <3>q. QED
      BY <3>1, <3>2
  <2>q. QED
    BY <1>7, <2>1, <2>2, <2>3, <2>4, <2>5
<1>12. E => pointer' \in {empJournal.prior.snapshot, NoSnapshot}
  <2>1. E => pc' # "back_unlink"
    BY <1>8, <1>11
  <2>q. QED
    BY <1>4, <1>11, <2>1
<1>13. Serving'
  <2>1. empJournal' = empJournal /\ ~InB' /\ ~NoOpenJournal'
    BY <1>1, <1>2, <1>4, <1>6 DEF NoOpenJournal, P, E
  <2>q. QED
    BY <1>6, <1>9, <1>11, <1>12, <2>1 DEF Serving
<1>q. QED
  BY <1>1, <1>4, <1>5, <1>10, <1>13, SoundQuiet

\* Recovery to B saves the phase that a crash kept from being saved.
LEMMA SoundRepair ==
    ASSUME Frame, Sound, RecoverForward
    PROVE  Sound'
<1>. USE DEF Sound, At, Goto
<1>1. /\ pc = "forward" /\ pc' = "finish" /\ (P \/ E) /\ InB /\ mode # "run"
      /\ UNCHANGED <<ws, recorded, closed, opStatus, pointer, retired, built, mode, faults>>
  BY DEF RecoverForward, publication, lineage, operations, budget, Frame, Control,
         ForwardSteps, PivotSteps
<1>2. /\ TypeOK /\ mode \in Modes /\ faults \in Nat
      /\ P => Open = pubJournal /\ ~E /\ pubJournal.new # NoSnapshot
      /\ E => Open = empJournal /\ ~P
  BY <1>1, OpenFields, BoundsAssumption DEF Frame, TypeOK, Control, Pivot
<1>3. CASE P /\ pubJournal.phase \notin ForwardPhases
  <2>1. SetPhase("WORKSPACE_COMMITTED")
    BY <1>3 DEF RecoverForward, P
  <2>q. QED
    BY <1>1, <1>2, <1>3, <2>1, SoundPhase DEF PubPhases, ForwardPhases
<1>4. CASE ~(P /\ pubJournal.phase \notin ForwardPhases)
  <2>1. UNCHANGED <<pubJournal, empJournal>>
    BY <1>4 DEF RecoverForward, journals, P
  <2>2. /\ Open' = Open /\ (P' <=> P) /\ (E' <=> E) /\ (InA' <=> InA) /\ (InB' <=> InB)
        /\ (NoOpenJournal' <=> NoOpenJournal)
    BY <1>1, <2>1, Untouched
  <2>3. PivotSteps'
    BY <1>1, <1>4, <2>1, <2>2
       DEF PivotSteps, PubSteps, EmpSteps, BackSteps, ForwardSteps
  <2>4. Serving'
    BY <1>1, <2>1, <2>2 DEF Serving
  <2>5. \/ mode' = "startup"
        \/ mode' \in {"inner", "outer"} /\ faults' >= 1 /\ pc' # "fail_op"
        \/ faults' >= 2
    BY <1>1, <1>2 DEF Faults
  <2>q. QED
    BY <1>1, <1>2, <2>1, <2>3, <2>4, <2>5, SoundQuiet
<1>q. QED
  BY <1>3, <1>4

\* An outcome that is not SUCCEEDED is given to an operation without effect, unless
\* two faults gave up a mutation in B.
LEMMA SoundOutcome ==
    ASSUME Frame, Sound, NEW op \in Ops, NEW status \in {"FAILED", "INTERRUPTED"},
           opStatus' = [opStatus EXCEPT ![op] = status],
           UNCHANGED <<ws, pubJournal, empJournal, recorded, closed, pointer, retired, faults>>,
           PivotSteps', Serving',
           opStatus[op] # "SUCCEEDED",
           op \notin ws.effects \/ faults >= 2,
           (P \/ E) /\ InB => mode' = "startup" \/ faults >= 2
    PROVE  Sound'
<1>. USE DEF Sound
<1>1. /\ Open' = Open /\ (P' <=> P) /\ (E' <=> E) /\ (InA' <=> InA) /\ (InB' <=> InB)
      /\ (NoOpenJournal' <=> NoOpenJournal) /\ Pivot'
  BY Untouched
<1>2. /\ opStatus \in [Ops -> Statuses] /\ ws.effects \subseteq Ops /\ faults \in Nat
  BY WorkspaceFields, BoundsAssumption DEF Frame, TypeOK
<1>3. Sourced'
  BY <1>1 DEF Sourced, Describes
<1>4. Effects'
  BY <1>1, <1>2 DEF Effects, SucceededIsDurable, Terminal
<1>5. Faults'
  BY <1>1, <1>2 DEF Faults
<1>q. QED
  BY <1>1, <1>3, <1>4, <1>5

\* The end of a recovery, and of the startup.
LEMMA SoundEnd ==
    ASSUME Frame, Sound,
           RecoverInterrupt \/ RecoverClean \/ FailOperation \/ Interrupt \/ Ready
    PROVE  Sound'
<1>. USE DEF Sound, At
<1>1. /\ UNCHANGED <<ws, pubJournal, empJournal, recorded, closed, pointer, retired, faults>>
      /\ faults \in Nat /\ mode \in Modes /\ opStatus \in [Ops -> Statuses]
      /\ built' \in {built, NoSnapshot}
  BY BoundsAssumption
     DEF RecoverInterrupt, RecoverClean, FailOperation, Interrupt, Ready, Goto,
         ReleaseLease, durable, publication, lineage, journals, budget, Frame, TypeOK
<1>2. /\ Open' = Open /\ (P' <=> P) /\ (E' <=> E) /\ (InA' <=> InA) /\ (InB' <=> InB)
      /\ (NoOpenJournal' <=> NoOpenJournal)
  BY <1>1, Untouched
<1>3. NoOpenJournal <=> ~(P \/ E)
  BY DEF NoOpenJournal, P, E
<1>4. PivotSteps' /\ Serving'
  <2>1. /\ pc' \in {"idle", "back_drop", "fail_op", "interrupt"}
        /\ pc' = "back_drop" => pc = "back_drop"
    BY DEF RecoverInterrupt, RecoverClean, FailOperation, Interrupt, Ready, Goto,
           ReleaseLease
  <2>q. QED
    BY <1>1, <1>2, <2>1
       DEF PivotSteps, Serving, PubSteps, EmpSteps, BackSteps, ForwardSteps
<1>5. CASE RecoverInterrupt
  <2>1. /\ pc = "back_drop" /\ mode' = "startup" /\ Open.op \in Ops /\ InA /\ (P \/ E)
        /\ opStatus' = [opStatus EXCEPT ![Open.op] = "INTERRUPTED"]
        /\ opStatus[Open.op] \notin Terminal
    BY <1>5, OpenFields
       DEF RecoverInterrupt, Goto, SetStatus, Frame, Control, BackSteps, PivotSteps
  <2>2. Open.op \notin ws.effects
    BY <2>1, EvidenceIsRight
  <2>q. QED
    BY <1>1, <1>4, <2>1, <2>2, SoundOutcome DEF Terminal
<1>6. CASE FailOperation
  <2>1. /\ pc = "fail_op" /\ mode \in {"inner", "outer"} /\ cur \in Ops
        /\ mode' = "run" /\ pc' = "idle"
    BY <1>6 DEF FailOperation, ReleaseLease, Frame, Control
  <2>2. (P \/ E) /\ InB => faults >= 2
    BY <1>1, <2>1 DEF Faults
  <2>3. CASE opStatus[cur] \in Terminal
    <3>1. opStatus' = opStatus
      BY <1>6, <2>3 DEF FailOperation
    <3>q. QED
      BY <1>1, <1>4, <2>2, <3>1, SoundQuiet
  <2>4. CASE opStatus[cur] \notin Terminal
    <3>1. opStatus' = [opStatus EXCEPT ![cur] = "FAILED"]
      BY <1>6, <2>4 DEF FailOperation, SetStatus
    <3>2. cur \in ws.effects => faults >= 2
      BY <2>2, <2>4, EvidenceIsRight DEF Effects
    <3>q. QED
      BY <1>1, <1>4, <2>1, <2>2, <2>4, <3>1, <3>2, SoundOutcome DEF Terminal
  <2>q. QED
    BY <2>3, <2>4
<1>7. CASE Interrupt
  <2>1. NoOpenJournal
    BY <1>7 DEF Interrupt, Frame, Control
  <2>2. PICK op \in Ops : /\ opStatus[op] \notin Terminal \cup {"NONE"}
                          /\ opStatus' = [opStatus EXCEPT ![op] = "INTERRUPTED"]
    BY <1>7 DEF Interrupt, SetStatus
  <2>3. op \notin ws.effects
    BY <1>3, <2>1, <2>2 DEF Effects
  <2>q. QED
    BY <1>1, <1>3, <1>4, <2>1, <2>2, <2>3, SoundOutcome DEF Terminal
<1>8. CASE RecoverClean \/ Ready
  <2>1. NoOpenJournal /\ opStatus' = opStatus
    BY <1>8 DEF RecoverClean, Ready, Frame, Control, durable
  <2>q. QED
    BY <1>1, <1>3, <1>4, <2>1, SoundQuiet
<1>q. QED
  BY <1>5, <1>6, <1>7, <1>8

\* A journal dropped in A leaves the prior state and no trace of its operation.
LEMMA SoundDrop ==
    ASSUME Frame, Sound, DropRecovered
    PROVE  Sound'
<1>. USE DEF Sound, At
<1>1. /\ pc = "back_drop" /\ (P \/ E) /\ InA /\ mode # "run"
      /\ UNCHANGED <<ws, recorded, closed, pointer, retired, opStatus, faults>>
      /\ pc' \in {"recover", "fail_op"}
  BY DEF DropRecovered, AfterJournal, Goto, ReleaseLease, publication, lineage, operations,
         budget, Frame, Control, BackSteps, PivotSteps
<1>2. /\ Open.op \notin ws.effects /\ ws.status # "TOMBSTONED"
      /\ P => ~E
      /\ E => ~P
  BY <1>1, EvidenceIsRight DEF Frame, Control
<1>3. ~P' /\ ~E' /\ NoOpenJournal'
  BY <1>2 DEF DropRecovered, DropOpenJournal, P, E, NoOpenJournal
<1>4. Pivot' /\ PivotSteps'
  BY <1>1, <1>3 DEF Pivot, WellFormed, PivotSteps, PubSteps, EmpSteps, BackSteps, ForwardSteps
<1>5. /\ pointer = ws.snapshot /\ (retired => pointer = NoSnapshot)
      /\ Describes(ws.sources)
  BY <1>1 DEF Serving, Sourced, InA
<1>6. Serving'
  BY <1>1, <1>3, <1>5 DEF Serving
<1>7. Sourced'
  BY <1>1, <1>3, <1>5 DEF Sourced, Describes
<1>8. Effects' /\ Faults'
  BY <1>1, <1>2, <1>3 DEF Effects, Faults, SucceededIsDurable
<1>q. QED
  BY <1>4, <1>6, <1>7, <1>8

\* Crashes, restarts and I/O faults write nothing.
LEMMA SoundFaults ==
    ASSUME Frame, Sound,
           Crash \/ Restart \/ WorkerFault \/ HandlerWriteFault \/ HandlerReadFault
    PROVE  Sound'
<1>. USE DEF Sound, At
<1>1. /\ UNCHANGED <<ws, pubJournal, empJournal, recorded, closed, opStatus, pointer, retired>>
      /\ faults \in Nat /\ faults' \in Nat /\ faults' >= faults
      /\ pc' \in {"down", "recover", "idle", "fail_op"}
  BY BoundsAssumption
     DEF Crash, Restart, WorkerFault, HandlerWriteFault, HandlerReadFault, Goto, Handle,
         ReleaseLease, durable, budget, Frame, TypeOK
<1>2. /\ Open' = Open /\ (P' <=> P) /\ (E' <=> E) /\ (InA' <=> InA) /\ (InB' <=> InB)
      /\ (NoOpenJournal' <=> NoOpenJournal)
  BY <1>1, Untouched
<1>3. PivotSteps' /\ Serving'
  BY <1>1, <1>2 DEF PivotSteps, Serving, PubSteps, EmpSteps, BackSteps, ForwardSteps
<1>4. (P \/ E) /\ InB =>
                \/ mode' = "startup"
                \/ mode' \in {"inner", "outer"} /\ faults' >= 1 /\ pc' # "fail_op"
                \/ faults' >= 2
  <2>1. CASE Crash \/ Restart
    BY <2>1 DEF Crash, Restart, Goto, Frame, Control
  <2>2. CASE WorkerFault
    BY <1>1, <2>2 DEF WorkerFault, Handle
  <2>3. CASE HandlerWriteFault \/ HandlerReadFault
    <3>1. mode \in {"inner", "outer"} /\ faults' = faults + 1
      BY <2>3 DEF HandlerWriteFault, HandlerReadFault
    <3>2. (P \/ E) /\ InB => faults' >= 2
      BY <1>1, <3>1 DEF Faults
    <3>q. QED
      BY <3>2
  <2>q. QED
    BY <2>1, <2>2, <2>3
<1>q. QED
  BY <1>1, <1>3, <1>4, SoundQuiet

\* Nothing moves in a step that leaves every variable alone.
LEMMA SoundStutters ==
    ASSUME Frame, Sound, UNCHANGED vars
    PROVE  Sound'
<1>1. /\ UNCHANGED <<ws, pubJournal, empJournal, recorded, closed, opStatus, pointer, retired,
                     pc, mode, built, faults>>
      /\ faults \in Nat
  BY BoundsAssumption DEF vars, durable, control, budget, Frame, TypeOK
<1>2. /\ Open' = Open /\ (P' <=> P) /\ (E' <=> E) /\ (InA' <=> InA) /\ (InB' <=> InB)
      /\ (NoOpenJournal' <=> NoOpenJournal)
  BY <1>1, Untouched
<1>3. PivotSteps' /\ Serving'
  BY <1>1, <1>2 DEF Sound, PivotSteps, Serving
<1>q. QED
  BY <1>1, <1>2, <1>3, SoundQuiet DEF Sound, Faults

\* Every step that reads all the records it asks for keeps Sound.
LEMMA SoundSteps ==
    ASSUME Frame, Sound, Frame', [Next]_vars, unreadable' = unreadable
    PROVE  Sound'
<1>0. unreadable \in Nat
  BY BoundsAssumption DEF Frame, TypeOK
<1>1. CASE Accept
  BY <1>1, SoundAccept
<1>2. CASE PublicationStep
  BY <1>2, SoundBegin, SoundBuild, SoundObserved, SoundCommit, SoundMarks
     DEF PublicationStep
<1>3. CASE EmptyStep
  BY <1>3, SoundBegin, SoundBuild, SoundCommit, SoundMarks DEF EmptyStep
<1>4. CASE MarkRunning
  BY <1>4, SoundRunning
<1>5. CASE FinishStep
  BY <1>5, SoundFinish
<1>6. CASE RecoveryStep
  <2>1. ~RecoverUnreadable
    BY <1>0 DEF RecoverUnreadable
  <2>q. QED
    BY <1>6, <2>1, SoundForward, SoundBack, SoundRepair, SoundEnd, SoundDrop
       DEF RecoveryStep
<1>7. CASE Failure
  BY <1>7, SoundBuild DEF Failure
<1>8. CASE Environment
  BY <1>8, SoundStore, SoundFaults DEF Environment
<1>9. CASE Rest \/ UNCHANGED vars
  BY <1>9, SoundStutters DEF Rest
<1>q. QED
  BY <1>1, <1>2, <1>3, <1>4, <1>5, <1>6, <1>7, <1>8, <1>9 DEF Next, Step

\* A record that recovery could not read stays counted.
LEMMA UnreadableGrows ==
    ASSUME Frame, [Next]_vars
    PROVE  unreadable' = unreadable \/ unreadable' # 0
<1>1. unreadable \in Nat
  BY BoundsAssumption DEF Frame, TypeOK
<1>2. CASE UNCHANGED budget \/ UNCHANGED unreadable
  BY <1>2 DEF budget
<1>3. CASE unreadable' = unreadable + 1
  BY <1>1, <1>3
<1>4. ASSUME Next PROVE UNCHANGED unreadable \/ unreadable' = unreadable + 1
  <2>. USE DEF budget
  <2>1. CASE Accept
    BY <2>1 DEF Accept, Reserve, ReserveRefused, WorkerBegins, WorkerGivesUp
  <2>2. CASE PublicationStep \/ EmptyStep \/ MarkRunning \/ Failure
    BY <2>2 DEF PublicationStep, EmptyStep, MarkRunning, Failure, BeginPublication,
       WriteManifest, WritePointer, ClearMarker, MarkPublicationObserved, CommitWorkspace,
       MarkWorkspaceCommitted, BeginEmpty, WriteRetiredMarker, UnlinkPointer,
       MarkPublicationRetired, EmptyWorkspace, MarkWorkspaceEmptied, PlanFails, IngestFails,
       EmptyRefused
  <2>3. CASE FinishStep
    BY <2>3 DEF FinishStep, AppendHistory, SupersedeHistory, MarkLineage, MarkCommitted,
       Succeed, RecordSkipped, DropCommitted
  <2>4. CASE RecoveryStep
    BY <2>4 DEF RecoveryStep, RecoverPointerForward, RecoverRetireForward, RecoverForward,
       RecoverInconsistent, RecoverUnreadable, RecoverPointerBack, RecoverRetireMarker,
       RecoverRetireUnlink, RecoverClearMarker, RecoverWorkspaceBack, RecoverInterrupt,
       DropRecovered, RecoverClean, FailOperation, Interrupt, Ready
  <2>5. CASE Environment
    BY <2>5 DEF Environment, MetadataPatch, Tombstone, Crash, Restart, WorkerFault,
       HandlerWriteFault, HandlerReadFault
  <2>6. CASE Rest
    BY <2>6 DEF Rest, vars
  <2>q. QED
    BY <1>4, <2>1, <2>2, <2>3, <2>4, <2>5, <2>6 DEF Next, Step
<1>q. QED
  BY <1>1, <1>2, <1>3, <1>4 DEF vars

\* The inductive invariant.
LEMMA MutationInvariant == Spec => []Inv
<1>1. Init => Inv
  BY FrameStarts, SoundStarts DEF Inv
<1>2. Inv /\ Frame' /\ [Next]_vars => Inv'
  <2>1. ASSUME Frame, Frame', [Next]_vars, unreadable = 0 => Sound, unreadable' = 0
        PROVE  Sound'
    <3>1. unreadable' = unreadable
      BY <2>1, UnreadableGrows
    <3>q. QED
      BY <2>1, <3>1, SoundSteps
  <2>q. QED
    BY <2>1 DEF Inv
<1>q. QED
  BY <1>1, <1>2, FrameInvariant, PTL DEF Spec

-----------------------------------------------------------------------------
(* What the journals achieve as long as recovery can read the records.       *)

\* The workspace and its publication agree whenever nobody is in the middle of a
\* mutation, after any number of crashes, restarts and I/O faults.
THEOREM WorkspaceAgrees == Spec => [](unreadable = 0 => QuiescentAgreement)
<1>1. Inv => (unreadable = 0 => QuiescentAgreement)
  BY DEF Inv, Sound, Pivot, WellFormed, Serving, QuiescentAgreement, Quiescent
<1>q. QED
  BY <1>1, MutationInvariant, PTL

\* Once the record claims a mutation its publication is current and stays so until
\* the journal is gone: recovery to B never has to move the pointer.
THEOREM CommittedServed == Spec => [](unreadable = 0 => CommittedIsServed)
<1>1. Inv => (unreadable = 0 => CommittedIsServed)
  <2>. SUFFICES ASSUME Frame, Sound, ~NoOpenJournal, Forward PROVE pointer = Target
    BY DEF Inv, CommittedIsServed
  <2>1. P \/ E
    BY DEF NoOpenJournal, P, E
  <2>q. QED
    BY <2>1, EvidenceIsRight DEF Sound, Serving
<1>q. QED
  BY <1>1, MutationInvariant, PTL

\* The source history describes the active set whenever no journal is open: the
\* lineage commit is finished before the journal is dropped.
THEOREM HistoryAgrees == Spec => [](unreadable = 0 => LineageAgrees)
<1>1. Inv => (unreadable = 0 => LineageAgrees)
  BY DEF Inv, Sound, Sourced, Describes, Legacy, LineageAgrees
<1>q. QED
  BY <1>1, MutationInvariant, PTL

\* What the client was told has SUCCEEDED is in the workspace and stays there.
THEOREM SuccessIsDurable == Spec => [](unreadable = 0 => SucceededIsDurable)
<1>1. Inv => (unreadable = 0 => SucceededIsDurable)
  BY DEF Inv, Sound, Effects
<1>q. QED
  BY <1>1, MutationInvariant, PTL

\* With at most one I/O fault, what was reported FAILED or INTERRUPTED left no
\* trace once nothing is in progress.
THEOREM FailureLeavesNoTrace == Spec => [](unreadable = 0 => FailedLeftNoTrace)
<1>1. Inv => (unreadable = 0 => FailedLeftNoTrace)
  BY DEF Inv, Sound, Faults, FailedLeftNoTrace
<1>q. QED
  BY <1>1, MutationInvariant, PTL

\* As long as recovery can read what it needs, workspace, pointer, journals and
\* lineage agree through every crash and fault point of the publication protocol.
THEOREM RecordsHold == Spec => [](unreadable = 0 => RecordsAgree)
<1>1. TypeOK /\ (unreadable = 0 => QuiescentAgreement)
        /\ (unreadable = 0 => CommittedIsServed) /\ (unreadable = 0 => LineageAgrees)
      => (unreadable = 0 => RecordsAgree)
  BY DEF RecordsAgree
<1>q. QED
  BY <1>1, MutationTypes, WorkspaceAgrees, CommittedServed, HistoryAgrees, PTL

\* As long as recovery can read what it needs, a success on record is never taken
\* back and, with at most one I/O fault, a failure on record left nothing behind.
THEOREM OutcomesStand == Spec => [](unreadable = 0 => OutcomesHold)
<1>1. (unreadable = 0 => SucceededIsDurable) /\ (unreadable = 0 => FailedLeftNoTrace)
      => (unreadable = 0 => OutcomesHold)
  BY DEF OutcomesHold
<1>q. QED
  BY <1>1, SuccessIsDurable, FailureLeavesNoTrace, PTL

\* workspace.json changes by a patch, a tombstone or the pivot of a mutation; what
\* recovery to A writes is what is there.
LEMMA RecordSteps ==
    ASSUME Frame, Sound, [Next]_vars, unreadable' = unreadable
    PROVE  \/ ws' = ws
           \/ MetadataPatch \/ Tombstone \/ CommitWorkspace \/ EmptyWorkspace
<1>0. unreadable \in Nat
  BY BoundsAssumption DEF Frame, TypeOK
<1>. USE DEF durable
<1>1. CASE Accept
  BY <1>1 DEF Accept, Reserve, ReserveRefused, WorkerBegins, WorkerGivesUp
<1>2. CASE PublicationStep \/ EmptyStep \/ MarkRunning \/ Failure
  BY <1>2 DEF PublicationStep, EmptyStep, MarkRunning, Failure, BeginPublication,
     WriteManifest, WritePointer, ClearMarker, MarkPublicationObserved,
     MarkWorkspaceCommitted, BeginEmpty, WriteRetiredMarker, UnlinkPointer,
     MarkPublicationRetired, MarkWorkspaceEmptied, PlanFails, IngestFails, EmptyRefused
<1>3. CASE FinishStep
  BY <1>3 DEF FinishStep, AppendHistory, SupersedeHistory, MarkLineage, MarkCommitted,
     Succeed, RecordSkipped, DropCommitted
<1>4. CASE RecoverWorkspaceBack
  BY <1>4 DEF RecoverWorkspaceBack, At, Sound, PivotSteps, BackSteps, InA
<1>5. CASE RecoverUnreadable
  BY <1>0, <1>5 DEF RecoverUnreadable
<1>6. CASE RecoveryStep /\ ~RecoverWorkspaceBack /\ ~RecoverUnreadable
  BY <1>6 DEF RecoveryStep, RecoverPointerForward, RecoverRetireForward, RecoverForward,
     RecoverInconsistent, RecoverPointerBack, RecoverRetireMarker, RecoverRetireUnlink,
     RecoverClearMarker, RecoverInterrupt, DropRecovered, RecoverClean, FailOperation,
     Interrupt, Ready
<1>7. CASE Environment
  BY <1>7 DEF Environment, Crash, Restart, WorkerFault, HandlerWriteFault, HandlerReadFault
<1>8. CASE Rest \/ UNCHANGED vars
  BY <1>8 DEF Rest, vars
<1>q. QED
  BY <1>1, <1>2, <1>3, <1>4, <1>5, <1>6, <1>7, <1>8 DEF Next, Step

\* The pivot as a step of workspace.json alone.
LEMMA PivotStep ==
    ASSUME Frame, Sound, CommitWorkspace \/ EmptyWorkspace
    PROVE  /\ P \/ E
           /\ Open.op = cur /\ cur \in Ops /\ opStatus[cur] \notin Terminal
           /\ opStatus[cur] # "NONE" /\ cur \notin ws.effects
           /\ UNCHANGED <<pubJournal, empJournal, pointer, opStatus>>
           /\ ws.status # "TOMBSTONED"
           /\ PlanOf(Open) /\ Open.prior = ws
           /\ Open.desired \subseteq Version /\ Open.new \in Snapshots \cup {NoSnapshot}
           /\ Open.desired = {} <=> Open.new = NoSnapshot
           /\ ws' = After(Open)
<1>. USE DEF Sound
<1>1. CASE CommitWorkspace
  <2>1. /\ pc = "pub_observed" /\ P /\ ~E /\ Open = pubJournal /\ Open.op = cur
        /\ TypeOK /\ InA /\ cur \in Ops /\ opStatus[cur] \notin Terminal
        /\ opStatus[cur] # "NONE"
    BY <1>1, OpenFields
       DEF CommitWorkspace, At, Frame, Control, PubSteps, Records, PivotSteps
  <2>2. built = pubJournal.new /\ pubJournal.desired # {} /\ built # NoSnapshot
    BY <2>1 DEF Serving, Pivot
  <2>3. ws' = After(Open)
    BY <1>1, <2>1, <2>2 DEF CommitWorkspace, After
  <2>4. UNCHANGED <<pubJournal, empJournal, pointer, opStatus>>
    BY <1>1 DEF CommitWorkspace, publication, journals, operations
  <2>q. QED
    BY <2>1, <2>2, <2>3, <2>4, EvidenceIsRight, JournalFields DEF Pivot, InA
<1>2. CASE EmptyWorkspace
  <2>1. /\ pc = "emp_write" /\ E /\ ~P /\ Open = empJournal /\ Open.op = cur
        /\ TypeOK /\ InA /\ cur \in Ops /\ opStatus[cur] \notin Terminal
        /\ opStatus[cur] # "NONE"
    BY <1>2, OpenFields
       DEF EmptyWorkspace, At, Frame, Control, EmpSteps, Records, PivotSteps
  <2>2. empJournal.new = NoSnapshot /\ empJournal.desired = {}
    BY <2>1 DEF Pivot
  <2>3. ws' = After(Open)
    BY <1>2, <2>1, <2>2 DEF EmptyWorkspace, After
  <2>4. UNCHANGED <<pubJournal, empJournal, pointer, opStatus>>
    BY <1>2 DEF EmptyWorkspace, publication, journals, operations
  <2>q. QED
    BY <2>1, <2>2, <2>3, <2>4, EvidenceIsRight, JournalFields DEF Pivot, InA
<1>q. QED
  BY <1>1, <1>2

\* The revision clients pass back as If-Match never goes back, grows by one, and
\* grows whenever the content changes, recovery included.
THEOREM RevisionTells == Spec /\ [](unreadable = 0) => RevisionTellsContent
<1>. DEFINE content(w) == <<w.sources, w.snapshot, w.status>>
            Tells == /\ ws'.revision \in {ws.revision, ws.revision + 1}
                     /\ content(ws') # content(ws) => ws'.revision # ws.revision
<1>1. ASSUME Inv, [Next]_vars, unreadable = 0, unreadable' = 0
      PROVE  Tells
  <2>. USE <1>1
  <2>1. Frame /\ Sound /\ ws \in Workspace /\ ws.revision \in Nat
    BY WorkspaceFields DEF Inv, Frame, TypeOK
  <2>2. CASE ws' = ws
    BY <2>2
  <2>3. CASE MetadataPatch
    BY <2>1, <2>3 DEF MetadataPatch, Workspace
  <2>4. CASE Tombstone
    BY <2>1, <2>4 DEF Tombstone
  <2>5. CASE CommitWorkspace \/ EmptyWorkspace
    BY <2>1, <2>5, PivotStep DEF After
  <2>q. QED
    BY <2>1, <2>2, <2>3, <2>4, <2>5, RecordSteps
<1>2. Inv /\ [Next]_vars /\ unreadable = 0 /\ (unreadable = 0)' => [Tells]_vars
  BY <1>1
<1>q. QED
  BY <1>2, MutationInvariant, PTL DEF Spec, RevisionTellsContent

-----------------------------------------------------------------------------
(* The mutation implements the atomic one: with at most one I/O fault, every *)
(* step is a step of AtomicWorkspace or changes nothing a client can see.    *)

\* What is served is what the record says, except that a tombstone leaves the
\* pointer where it was.
ServedAsRecorded ==
    /\ ws.status # "TOMBSTONED" => Served = ws.snapshot
    /\ ws.status = "TOMBSTONED" => NoOpenJournal /\ Served = pointer

\* The invariant says what is served.
LEMMA ServedIsRecorded == Frame /\ Sound => ServedAsRecorded
<1>. SUFFICES ASSUME Frame, Sound PROVE ServedAsRecorded
  OBVIOUS
<1>. USE DEF Sound, ServedAsRecorded
<1>1. CASE NoOpenJournal
  BY <1>1 DEF Served, Serving
<1>2. CASE ~NoOpenJournal
  <2>1. P \/ E
    BY <1>2 DEF NoOpenJournal, P, E
  <2>2. InB => ws.snapshot = Open.new
    BY DEF InB, After
  <2>3. InA => ws.snapshot = Open.prior.snapshot
    BY DEF InA
  <2>q. QED
    BY <1>2, <2>1, <2>2, <2>3, EvidenceIsRight DEF Served
<1>q. QED
  BY <1>1, <1>2

\* The same of the next state.
LEMMA ServedIsRecordedNext == (Frame /\ Sound => ServedAsRecorded)'
BY ServedIsRecorded, PTL

\* Without an open journal nobody moves the pointer.
LEMMA PointerNeedsJournal ==
    ASSUME Frame, Next, NoOpenJournal
    PROVE  pointer' = pointer
<1>. USE DEF publication, durable
<1>1. CASE Accept
  BY <1>1 DEF Accept, Reserve, ReserveRefused, WorkerBegins, WorkerGivesUp
<1>2. CASE PublicationStep \/ EmptyStep \/ MarkRunning \/ Failure
  <2>1. ~WritePointer /\ ~UnlinkPointer
    BY DEF WritePointer, UnlinkPointer, At, Frame, Control, PubSteps, EmpSteps, P, E,
           NoOpenJournal
  <2>q. QED
    BY <1>2, <2>1 DEF PublicationStep, EmptyStep, MarkRunning, Failure, BeginPublication,
       WriteManifest, ClearMarker, MarkPublicationObserved, CommitWorkspace,
       MarkWorkspaceCommitted, BeginEmpty, WriteRetiredMarker,
       MarkPublicationRetired, EmptyWorkspace, MarkWorkspaceEmptied, PlanFails, IngestFails,
       EmptyRefused
<1>3. CASE FinishStep
  BY <1>3 DEF FinishStep, AppendHistory, SupersedeHistory, MarkLineage, MarkCommitted,
     Succeed, RecordSkipped, DropCommitted
<1>4. CASE RecoveryStep
  <2>1. pc \notin BackSteps \cup ForwardSteps /\ ~Recovering
    BY DEF Frame, Control, P, E, NoOpenJournal, Recovering
  <2>2. ~RecoverPointerForward /\ ~RecoverPointerBack /\ ~RecoverRetireUnlink
    BY <2>1 DEF RecoverPointerForward, RecoverPointerBack, RecoverRetireUnlink, Restoring,
                At, BackSteps, ForwardSteps
  <2>q. QED
    BY <1>4, <2>2 DEF RecoveryStep, RecoverRetireForward, RecoverForward,
       RecoverInconsistent, RecoverUnreadable, RecoverRetireMarker,
       RecoverClearMarker, RecoverWorkspaceBack, RecoverInterrupt,
       DropRecovered, RecoverClean, FailOperation, Interrupt, Ready
<1>5. CASE Environment
  BY <1>5 DEF Environment, MetadataPatch, Tombstone, Crash, Restart, WorkerFault,
     HandlerWriteFault, HandlerReadFault
<1>6. CASE Rest
  BY <1>6 DEF Rest, vars
<1>q. QED
  BY <1>1, <1>2, <1>3, <1>4, <1>5, <1>6 DEF Next, Step

Outcomes == [op \in Ops |-> Outcome(opStatus[op])]

\* How an operation record moves, as a client sees it: it is accepted or refused,
\* succeeds with its effect in the record, or is given up without one.
LEMMA OutcomeSteps ==
    ASSUME Frame, Sound, Next, faults <= 1, unreadable' = unreadable
    PROVE  \/ Outcomes' = Outcomes
           \/ \E op \in Ops :
                \/ /\ Outcomes[op] = "new"
                   /\ \E to \in {"accepted", "aborted"} :
                        Outcomes' = [Outcomes EXCEPT ![op] = to]
                   /\ ws' = ws
                \/ /\ Outcomes[op] = "accepted" /\ op \in ws.effects /\ ws' = ws
                   /\ Outcomes' = [Outcomes EXCEPT ![op] = "succeeded"]
                \/ /\ Outcomes[op] = "accepted" /\ op \notin ws.effects /\ ws' = ws
                   /\ Outcomes' = [Outcomes EXCEPT ![op] = "aborted"]
<1>0. opStatus \in [Ops -> Statuses] /\ faults \in Nat
  BY BoundsAssumption DEF Frame, TypeOK
<1>a. ASSUME opStatus' = opStatus PROVE Outcomes' = Outcomes
  BY <1>a DEF Outcomes
<1>b. ASSUME NEW op \in Ops, NEW status, opStatus' = [opStatus EXCEPT ![op] = status]
      PROVE  Outcomes' = [Outcomes EXCEPT ![op] = Outcome(status)]
  BY <1>0, <1>b DEF Outcomes
<1>c. ASSUME NEW op \in Ops, opStatus[op] \notin Terminal \cup {"NONE"}
      PROVE  Outcomes[op] = "accepted"
  BY <1>c DEF Outcomes, Outcome, Terminal
<1>d. /\ Outcome("PENDING") = "accepted" /\ Outcome("PREPARING") = "accepted"
      /\ Outcome("RUNNING") = "accepted" /\ Outcome("SUCCEEDED") = "succeeded"
      /\ Outcome("FAILED") = "aborted" /\ Outcome("INTERRUPTED") = "aborted"
  BY DEF Outcome
<1>1. CASE Accept
  <2>1. PICK op \in Ops : \/ Reserve(op) \/ ReserveRefused(op)
                          \/ WorkerBegins(op) \/ WorkerGivesUp(op)
    BY <1>1 DEF Accept
  <2>2. CASE Reserve(op) \/ ReserveRefused(op)
    <3>1. ws' = ws /\ Outcomes[op] = "new"
      BY <2>2 DEF Reserve, ReserveRefused, Outcomes, Outcome
    <3>2. Outcomes' = [Outcomes EXCEPT ![op] = "accepted"]
            \/ Outcomes' = [Outcomes EXCEPT ![op] = "aborted"]
      BY <1>b, <1>d, <2>2 DEF Reserve, ReserveRefused, SetStatus
    <3>q. QED
      BY <3>1, <3>2
  <2>3. CASE WorkerBegins(op)
    <3>1. Outcomes[op] = "accepted"
      BY <1>c, <2>3 DEF WorkerBegins, Frame, Records, Terminal
    <3>2. Outcomes' = [Outcomes EXCEPT ![op] = "accepted"]
      BY <1>b, <1>d, <2>3 DEF WorkerBegins, SetStatus
    <3>q. QED
      BY <3>1, <3>2 DEF Outcomes
  <2>4. CASE WorkerGivesUp(op)
    BY <1>a, <2>4 DEF WorkerGivesUp, durable
  <2>q. QED
    BY <2>1, <2>2, <2>3, <2>4
<1>2. CASE PublicationStep \/ EmptyStep \/ Failure
  BY <1>a, <1>2 DEF PublicationStep, EmptyStep, Failure, BeginPublication,
     WriteManifest, WritePointer, ClearMarker, MarkPublicationObserved, CommitWorkspace,
     MarkWorkspaceCommitted, BeginEmpty, WriteRetiredMarker, UnlinkPointer,
     MarkPublicationRetired, EmptyWorkspace, MarkWorkspaceEmptied, PlanFails, IngestFails,
     EmptyRefused, operations, durable
<1>3. CASE MarkRunning
  <2>1. cur \in Ops /\ opStatus[cur] \notin Terminal \cup {"NONE"}
    BY <1>3 DEF MarkRunning, At, Frame, Control, Records, PubSteps, EmpSteps
  <2>2. Outcomes' = [Outcomes EXCEPT ![cur] = "accepted"]
    BY <1>b, <1>d, <1>3, <2>1 DEF MarkRunning, SetStatus
  <2>q. QED
    BY <1>c, <2>1, <2>2 DEF Outcomes
<1>4. CASE FinishStep /\ ~Succeed
  BY <1>a, <1>4 DEF FinishStep, AppendHistory, SupersedeHistory, MarkLineage, MarkCommitted,
     RecordSkipped, DropCommitted, operations
<1>5. CASE Succeed
  <2>1. /\ (P \/ E) /\ InB /\ ws' = ws /\ opStatus[Open.op] \notin Terminal
        /\ opStatus' = [opStatus EXCEPT ![Open.op] = "SUCCEEDED"]
    BY <1>5 DEF Succeed, At, Sound, PivotSteps, Frame, Control, SetStatus
  <2>2. Open.op \in Ops /\ Open.op \in ws.effects
    BY <2>1, EvidenceIsRight DEF Sound
  <2>3. opStatus[Open.op] # "NONE"
    BY <2>1, OpenFields DEF Frame, Control, Records
  <2>4. Outcomes[Open.op] = "accepted"
    BY <1>c, <2>1, <2>2, <2>3
  <2>5. Outcomes' = [Outcomes EXCEPT ![Open.op] = "succeeded"]
    BY <1>0, <1>d, <2>1, <2>2, <2>3 DEF Outcomes
  <2>q. QED
    BY <2>1, <2>2, <2>3, <2>4, <2>5
<1>6. CASE RecoveryStep /\ ~RecoverInterrupt /\ ~FailOperation /\ ~Interrupt
  BY <1>a, <1>6 DEF RecoveryStep, RecoverPointerForward, RecoverRetireForward,
     RecoverForward, RecoverInconsistent, RecoverUnreadable, RecoverPointerBack,
     RecoverRetireMarker, RecoverRetireUnlink, RecoverClearMarker, RecoverWorkspaceBack,
     DropRecovered, RecoverClean, Ready, operations, durable
<1>7. CASE RecoverInterrupt
  <2>1. /\ (P \/ E) /\ InA /\ ws' = ws /\ opStatus[Open.op] \notin Terminal
        /\ opStatus' = [opStatus EXCEPT ![Open.op] = "INTERRUPTED"]
    BY <1>7 DEF RecoverInterrupt, At, Sound, PivotSteps, BackSteps, Frame, Control, SetStatus
  <2>2. Open.op \in Ops /\ Open.op \notin ws.effects
    BY <2>1, EvidenceIsRight DEF Sound
  <2>3. opStatus[Open.op] # "NONE"
    BY <2>1, OpenFields DEF Frame, Control, Records
  <2>4. Outcomes[Open.op] = "accepted"
    BY <1>c, <2>1, <2>2, <2>3
  <2>5. Outcomes' = [Outcomes EXCEPT ![Open.op] = "aborted"]
    BY <1>0, <1>d, <2>1, <2>2, <2>3 DEF Outcomes
  <2>q. QED
    BY <2>1, <2>2, <2>3, <2>4, <2>5
<1>8. CASE FailOperation
  <2>1. cur \in Ops /\ ws' = ws /\ pc = "fail_op" /\ mode \in {"inner", "outer"}
        /\ opStatus[cur] # "NONE"
    BY <1>8 DEF FailOperation, At, Frame, Control, Records
  <2>2. CASE opStatus[cur] \in Terminal
    BY <1>a, <1>8, <2>2 DEF FailOperation
  <2>3. CASE opStatus[cur] \notin Terminal
    <3>1. cur \notin ws.effects
      BY <1>0, <2>1, <2>3, EvidenceIsRight DEF Sound, Effects, Faults
    <3>2. opStatus' = [opStatus EXCEPT ![cur] = "FAILED"]
      BY <1>8, <2>3 DEF FailOperation, SetStatus
    <3>3. Outcomes[cur] = "accepted"
      BY <1>c, <2>1, <2>3, <3>1, <3>2
    <3>4. Outcomes' = [Outcomes EXCEPT ![cur] = "aborted"]
      BY <1>0, <1>d, <2>1, <2>3, <3>1, <3>2 DEF Outcomes
    <3>q. QED
      BY <2>1, <2>3, <3>1, <3>2, <3>3, <3>4
  <2>q. QED
    BY <2>2, <2>3
<1>9. CASE Interrupt
  <2>1. NoOpenJournal /\ ws' = ws
    BY <1>9 DEF Interrupt, At, Frame, Control
  <2>2. PICK op \in Ops : /\ opStatus[op] \notin Terminal \cup {"NONE"}
                          /\ opStatus' = [opStatus EXCEPT ![op] = "INTERRUPTED"]
    BY <1>9 DEF Interrupt, SetStatus
  <2>3. op \notin ws.effects
    BY <2>1, <2>2 DEF Sound, Effects, NoOpenJournal, P, E
  <2>4. Outcomes[op] = "accepted"
    BY <1>c, <2>1, <2>2, <2>3
  <2>5. Outcomes' = [Outcomes EXCEPT ![op] = "aborted"]
    BY <1>0, <1>d, <2>1, <2>2, <2>3 DEF Outcomes
  <2>q. QED
    BY <2>1, <2>2, <2>3, <2>4, <2>5
<1>10. CASE Environment
  BY <1>a, <1>10 DEF Environment, MetadataPatch, Tombstone, Crash, Restart, WorkerFault,
     HandlerWriteFault, HandlerReadFault, operations, durable
<1>11. CASE Rest
  BY <1>a, <1>11 DEF Rest, vars, durable
<1>q. QED
  BY <1>1, <1>2, <1>3, <1>4, <1>5, <1>6, <1>7, <1>8, <1>9, <1>10, <1>11 DEF Next, Step

\* The initial states are initial states of the atomic workspace.
LEMMA AtomicStarts == Init => Atomic!Init
<1>. SUFFICES ASSUME Init PROVE Atomic!Init
  OBVIOUS
<1>1. NoOpenJournal
  BY DEF Init, NoOpenJournal
<1>2. Served = pointer
  BY <1>1 DEF Served
<1>3. ws.revision = 1 /\ ws.effects = {}
  BY DEF Init, Empty1, Legacy1
<1>4. Outcomes = [op \in Ops |-> "new"]
  BY DEF Init, Outcomes, Outcome
<1>q. QED
  BY <1>2, <1>3, <1>4 DEF Init, Atomic!Init, Outcomes

\* What is served changes only with workspace.json, and not by a tombstone.
LEMMA ServedSteps ==
    ASSUME Frame, Sound, Frame', Sound', Next, ws' = ws \/ MetadataPatch \/ Tombstone
    PROVE  Served' = Served
<1>1. /\ ws.status # "TOMBSTONED" => Served = ws.snapshot
      /\ ws.status = "TOMBSTONED" => NoOpenJournal /\ Served = pointer
  BY ServedIsRecorded DEF ServedAsRecorded
<1>2. /\ (ws.status # "TOMBSTONED")' => Served' = ws'.snapshot
      /\ (ws.status = "TOMBSTONED")' => Served' = pointer'
  BY ServedIsRecordedNext DEF ServedAsRecorded
<1>3. CASE ws' = ws
  BY <1>1, <1>2, <1>3, PointerNeedsJournal
<1>4. CASE MetadataPatch
  BY <1>1, <1>2, <1>4 DEF MetadataPatch, Frame, TypeOK, Workspace
<1>5. CASE Tombstone
  <2>1. pointer' = pointer /\ NoOpenJournal /\ (ws.status = "TOMBSTONED")'
    BY <1>5 DEF Tombstone, publication
  <2>2. Served = pointer
    BY <2>1 DEF Served
  <2>q. QED
    BY <1>2, <2>1, <2>2
<1>q. QED
  BY <1>3, <1>4, <1>5

\* Every step is a step of the atomic workspace or a stutter.
LEMMA AtomicSteps ==
    ASSUME Frame, Sound, Frame', Sound', [Next]_vars, faults <= 1,
           unreadable' = unreadable
    PROVE  [Atomic!Next]_(Atomic!avars)
<1>1. CASE UNCHANGED vars
  <2>1. Served' = Served /\ ws' = ws /\ Outcomes' = Outcomes
    BY <1>1 DEF vars, durable, Served, NoOpenJournal, Forward, PublicationCommitted,
            EmptyCommitted, Target, Open, Outcomes
  <2>q. QED
    BY <2>1 DEF Atomic!avars, Outcomes
<1>2. CASE Next /\ ws' = ws
  <2>1. Served' = Served
    BY <1>2, ServedSteps
  <2>2. CASE Outcomes' = Outcomes
    BY <1>2, <2>1, <2>2 DEF Atomic!avars, Outcomes
  <2>3. CASE \E op \in Ops :
                /\ Outcomes[op] = "new"
                /\ \E to \in {"accepted", "aborted"} :
                        Outcomes' = [Outcomes EXCEPT ![op] = to]
    BY <1>2, <2>1, <2>3 DEF Atomic!Next, Atomic!Accept, Outcomes
  <2>4. CASE \E op \in Ops :
                /\ Outcomes[op] = "accepted" /\ op \in ws.effects
                /\ Outcomes' = [Outcomes EXCEPT ![op] = "succeeded"]
    BY <1>2, <2>1, <2>4 DEF Atomic!Next, Atomic!Succeed, Outcomes
  <2>5. CASE \E op \in Ops :
                /\ Outcomes[op] = "accepted" /\ op \notin ws.effects
                /\ Outcomes' = [Outcomes EXCEPT ![op] = "aborted"]
    BY <1>2, <2>1, <2>5 DEF Atomic!Next, Atomic!GiveUp, Outcomes
  <2>q. QED
    BY <1>2, <2>2, <2>3, <2>4, <2>5, OutcomeSteps
<1>3. CASE Next /\ (MetadataPatch \/ Tombstone)
  <2>1. Served' = Served
    BY <1>3, ServedSteps
  <2>2. Outcomes' = Outcomes
    BY <1>3 DEF MetadataPatch, Tombstone, operations, Outcomes
  <2>3. CASE MetadataPatch
    BY <2>1, <2>2, <2>3 DEF MetadataPatch, Atomic!Next, Atomic!Patch, Outcomes
  <2>4. CASE Tombstone
    BY <2>1, <2>2, <2>4 DEF Tombstone, Atomic!Next, Atomic!Tombstone, Outcomes
  <2>q. QED
    BY <1>3, <2>3, <2>4
<1>4. CASE CommitWorkspace \/ EmptyWorkspace
  <2>. DEFINE j == Open
  <2>1. /\ cur \in Ops /\ cur \notin ws.effects /\ ws.status # "TOMBSTONED"
        /\ j.op = cur /\ j.prior = ws /\ PlanOf(j)
        /\ j.desired \subseteq Version /\ j.new \in Snapshots \cup {NoSnapshot}
        /\ j.desired = {} <=> j.new = NoSnapshot
        /\ ws' = After(j)
        /\ opStatus' = opStatus /\ opStatus[cur] \notin Terminal \cup {"NONE"}
    BY <1>4, PivotStep
  <2>2. Outcomes' = Outcomes /\ Outcomes[cur] = "accepted"
    BY <2>1 DEF Outcomes, Outcome, Terminal
  <2>3. ws' = [revision |-> ws.revision + 1,
               status |-> IF j.desired = {} THEN "EMPTY" ELSE "ACTIVE",
               snapshot |-> j.new, sources |-> j.desired,
               effects |-> ws.effects \cup {cur}]
    BY <2>1 DEF After
  <2>4. Served' = j.new
    <3>1. (ws.status # "TOMBSTONED")' => Served' = ws'.snapshot
      BY ServedIsRecordedNext DEF ServedAsRecorded
    <3>q. QED
      BY <2>3, <3>1
  <2>5. j.desired # ws.sources
    BY <2>1 DEF PlanOf
  <2>6. Atomic!Commit(cur)
    <3>. HIDE DEF j
    <3>q. QED
      BY <2>1, <2>2, <2>3, <2>4, <2>5 DEF Atomic!Commit, Outcomes
  <2>q. QED
    BY <2>1, <2>6 DEF Atomic!Next
<1>q. QED
  BY <1>1, <1>2, <1>3, <1>4, RecordSteps

\* With at most one I/O fault and every record readable, the five files change as
\* one: the mutation, with its journals, crashes and recoveries, implements the
\* atomic workspace.
THEOREM MutationIsAtomic ==
    Spec /\ [](faults <= 1 /\ unreadable = 0) => ImplementsAtomic
<1>1. ASSUME Inv, Inv', [Next]_vars, faults <= 1 /\ unreadable = 0,
             (faults <= 1 /\ unreadable = 0)'
      PROVE  [Atomic!Next]_(Atomic!avars)
  BY <1>1, AtomicSteps DEF Inv
<1>2. Inv /\ Inv' /\ [Next]_vars /\ (faults <= 1 /\ unreadable = 0)
        /\ (faults <= 1 /\ unreadable = 0)' => [Atomic!Next]_(Atomic!avars)
  BY <1>1
<1>q. QED
  BY <1>2, AtomicStarts, MutationInvariant, PTL DEF Spec, ImplementsAtomic, Atomic!Spec


=============================================================================
