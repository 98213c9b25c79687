------------------------- MODULE WorkspaceMutation -------------------------
(***************************************************************************)
(* Scientific mutations of one workspace: source add / replace / remove    *)
(* through a full-replace publication, and removal of the final source     *)
(* through the EMPTY transition.  A mutation spans five durable records:   *)
(* workspace.json, product/current.json (the pointer), product/retired.json,*)
(* the source history, and the managed-operation record; two journals make *)
(* it recoverable.  Every action below is one durable write, so a crash    *)
(* (or an I/O fault) can fall between any two of them.                     *)
(*                                                                         *)
(* Sources: app/workspace/lifecycle.py, publication_journal.py, journal.py,*)
(* retirement.py, store.py, history.py, mutation_ops.py and                *)
(* app/publication.py.                                                     *)
(*                                                                         *)
(* The workspace lease is held by one thread at a time for a whole         *)
(* mutation, so one program counter describes its holder.                  *)
(***************************************************************************)
EXTENDS Naturals, FiniteSets

CONSTANTS
    Ops,            \* managed operations (one per accepted request)
    SourceIds,      \* logical sources
    Snapshots,      \* snapshot ids: content hashes, so an id may recur
    LegacySource,   \* a source of a workspace older than the source history
    LegacySnapshot, \* its snapshot
    MaxVersion,     \* bound on the versions of a source
    MaxRevision,    \* bound on the workspace revision
    MaxCrashes,     \* bound on process crashes
    MaxFaults,      \* bound on I/O faults of a live process
    MaxUnreadable,  \* bound on records recovery fails to read
    NoJournal       \* the journal file is absent

ASSUME BoundsAssumption ==
    /\ MaxVersion \in Nat \ {0} /\ MaxRevision \in Nat \ {0}
    /\ MaxCrashes \in Nat /\ MaxFaults \in Nat /\ MaxUnreadable \in Nat
    /\ IsFiniteSet(Ops) /\ IsFiniteSet(SourceIds)
    /\ LegacySource \in SourceIds
    /\ LegacySnapshot \in Snapshots

NoSnapshot == "no_snapshot"
NoOp == "no_op"
ASSUME NullAssumption == NoSnapshot \notin Snapshots /\ NoOp \notin Ops

VARIABLES
    ws,             \* workspace.json
    pointer,        \* product/current.json: a snapshot id, or absent
    retired,        \* does product/retired.json exist?
    manifests,      \* product/snapshots/*.json
    recorded,       \* source versions with a history record
    closed,         \* source versions whose history record is superseded
    pubJournal,     \* journal/publication_transition.json
    empJournal,     \* journal/empty_transition.json
    opStatus,       \* status of the managed-operation record
    expected,       \* its expected_revision
    launched,       \* operations with a worker thread that has not begun
    pc,             \* step of the holder of the workspace lease
    mode,           \* who holds it: a worker, a failure handler, the startup
    cur,            \* the operation it works for
    built,          \* snapshot id returned by the ingest
    crashes, faults, unreadable

durable == <<ws, pointer, retired, manifests, recorded, closed, pubJournal,
             empJournal, opStatus, expected>>
publication == <<pointer, retired, manifests>>
lineage == <<recorded, closed>>
journals == <<pubJournal, empJournal>>
operations == <<opStatus, expected>>
control == <<launched, pc, mode, cur, built>>
budget == <<crashes, faults, unreadable>>
vars == <<durable, control, budget>>

Version == SourceIds \X (1..MaxVersion)
Terminal == {"SUCCEEDED", "FAILED", "INTERRUPTED"}
Statuses == {"NONE", "PENDING", "PREPARING", "RUNNING"} \cup Terminal
ForwardPhases == {"WORKSPACE_COMMITTED", "LINEAGE_COMMITTED", "COMMITTED"}
PubPhases == {"INTENT_RECORDED", "PUBLICATION_OBSERVED"} \cup ForwardPhases
EmpPhases == {"INTENT_RECORDED", "PUBLICATION_RETIRED", "WORKSPACE_EMPTIED",
              "COMMITTED"}
Modes == {"run", "inner", "outer", "startup"}

\* effects is a history field: the operations whose mutation the record
\* contains.  Rewriting a prior record takes them back with it.
Workspace == [revision : 1..MaxRevision,
              status : {"EMPTY", "ACTIVE", "TOMBSTONED"},
              snapshot : Snapshots \cup {NoSnapshot}, sources : SUBSET Version,
              effects : SUBSET Ops]

\* In the EMPTY journal lineage_closed is set together with the phase
\* COMMITTED, so the phase stands for both.
Journal(phases) == [op : Ops, prior : Workspace, appended : SUBSET Version,
                    superseded : SUBSET Version, desired : SUBSET Version,
                    new : Snapshots \cup {NoSnapshot}, phase : phases]

ASSUME NoJournalAssumption == NoJournal \notin Journal(PubPhases \cup EmpPhases)

Empty1 == [revision |-> 1, status |-> "EMPTY", snapshot |-> NoSnapshot,
           sources |-> {}, effects |-> {}]
Legacy1 == [revision |-> 1, status |-> "ACTIVE", snapshot |-> LegacySnapshot,
            sources |-> {<<LegacySource, 1>>}, effects |-> {}]

\* A workspace just created, or one with a source from before the history.
Init ==
    /\ ws \in {Empty1, Legacy1}
    /\ pointer = ws.snapshot
    /\ manifests = IF ws = Legacy1 THEN {LegacySnapshot} ELSE {}
    /\ retired = FALSE
    /\ recorded = {} /\ closed = {}
    /\ pubJournal = NoJournal /\ empJournal = NoJournal
    /\ opStatus = [op \in Ops |-> "NONE"]
    /\ expected = [op \in Ops |-> 0]
    /\ launched = {}
    /\ pc = "idle" /\ mode = "run" /\ cur = NoOp /\ built = NoSnapshot
    /\ crashes = 0 /\ faults = 0 /\ unreadable = 0

-----------------------------------------------------------------------------
(* Helpers.                                                                  *)

\* The open journal.  publication.begin and the EMPTY path each refuse to start
\* while the other journal exists.
Open == IF pubJournal # NoJournal THEN pubJournal ELSE empJournal

NoOpenJournal == pubJournal = NoJournal /\ empJournal = NoJournal

SetPhase(phase) ==
    IF pubJournal # NoJournal
    THEN /\ pubJournal' = [pubJournal EXCEPT !.phase = phase]
         /\ UNCHANGED empJournal
    ELSE /\ empJournal' = [empJournal EXCEPT !.phase = phase]
         /\ UNCHANGED pubJournal

SetStatus(op, status) == opStatus' = [opStatus EXCEPT ![op] = status]

Goto(to) == pc' = to /\ UNCHANGED <<launched, mode, cur, built>>

At(step) == pc = step

\* The failure handler nearest to the step: inside the corpus lease first, else
\* the one around the whole mutation.
Handle(handler) ==
    /\ pc' = "recover" /\ mode' = handler
    /\ UNCHANGED <<launched, cur, built>>

\* The lease is released and the thread is gone.
ReleaseLease ==
    /\ pc' = "idle" /\ mode' = "run" /\ cur' = NoOp /\ built' = NoSnapshot
    /\ UNCHANGED launched

-----------------------------------------------------------------------------
(* Reservation and launch.                                                   *)

\* reserve_and_admit_scientific with a new key whose revision matches: the
\* record is PENDING, then the worker is handed to the executor.
Reserve(op) ==
    /\ At("idle")
    /\ opStatus[op] = "NONE"
    /\ ws.status # "TOMBSTONED"
    /\ SetStatus(op, "PENDING")
    /\ expected' = [expected EXCEPT ![op] = ws.revision]
    /\ launched' = launched \cup {op}
    /\ UNCHANGED <<ws, publication, lineage, journals, pc, mode, cur, built,
                   budget>>

\* The capacity gate or the drain refuses the handle: the record is FAILED.
ReserveRefused(op) ==
    /\ At("idle")
    /\ opStatus[op] = "NONE"
    /\ ws.status # "TOMBSTONED"
    /\ SetStatus(op, "FAILED")
    /\ expected' = [expected EXCEPT ![op] = ws.revision]
    /\ UNCHANGED <<ws, publication, lineage, journals, control, budget>>

\* _run_managed_mutation takes the workspace lease without waiting.
WorkerBegins(op) ==
    /\ At("idle")
    /\ op \in launched
    /\ launched' = launched \ {op}
    /\ SetStatus(op, "PREPARING")
    /\ pc' = "prepared" /\ mode' = "run" /\ cur' = op
    /\ UNCHANGED <<ws, publication, lineage, journals, expected, built, budget>>

\* The worker raises before it has touched the record: the lease is busy (with
\* another worker, or for the length of a reserve, replay or patch request,
\* which are single steps here), or the runtime is draining.
WorkerGivesUp(op) ==
    /\ ~At("down") /\ mode # "startup"
    /\ op \in launched
    /\ launched' = launched \ {op}
    /\ UNCHANGED <<durable, pc, mode, cur, built, budget>>

-----------------------------------------------------------------------------
(* WorkspaceStore mutations outside the scientific path.                     *)

\* apply_metadata_patch: fenced by both journals.
MetadataPatch ==
    /\ At("idle")
    /\ NoOpenJournal
    /\ ws.status # "TOMBSTONED"
    /\ ws.revision < MaxRevision
    /\ ws' = [ws EXCEPT !.revision = @ + 1]
    /\ UNCHANGED <<publication, lineage, journals, operations, control, budget>>

\* tombstone: the publication pointer is left as it is.
Tombstone ==
    /\ At("idle")
    /\ NoOpenJournal
    /\ ws.status # "TOMBSTONED"
    /\ ws.revision < MaxRevision
    /\ ws' = [revision |-> ws.revision + 1, status |-> "TOMBSTONED",
              snapshot |-> NoSnapshot, sources |-> ws.sources,
              effects |-> ws.effects]
    /\ UNCHANGED <<publication, lineage, journals, operations, control, budget>>

-----------------------------------------------------------------------------
(* Planning: the desired active set and its lineage delta.                   *)

VersionsOf(s) == {v \in recorded \cup ws.sources : v[1] = s}

\* An uploaded source gets a fresh id, hence version 1.
AddPlans ==
    {[desired |-> ws.sources \cup new, appended |-> new, superseded |-> {}] :
        new \in {N \in SUBSET {<<s, 1>> : s \in SourceIds} :
                    N # {} /\ \A v \in N : VersionsOf(v[1]) = {}}}

\* The next version is one above the highest of the active and the recorded
\* ones: a set of one, or of none past the bound.
NextVersion(s) ==
    LET used == {v[2] : v \in VersionsOf(s)}
    IN {<<s, n>> : n \in {k \in 1..MaxVersion :
                            k - 1 \in used /\ \A m \in used : m < k}}

Replacement(v, next) ==
    [desired |-> (ws.sources \ {v}) \cup {next}, appended |-> {next},
     superseded |-> {v}]

ReplacePlans ==
    UNION {{Replacement(v, next) : next \in NextVersion(v[1])} : v \in ws.sources}

RemovePlans ==
    {[desired |-> ws.sources \ {v}, appended |-> {}, superseded |-> {v}] :
        v \in ws.sources}

Plans == AddPlans \cup ReplacePlans \cup RemovePlans

NewJournal(plan) ==
    [op |-> cur, prior |-> ws, appended |-> plan.appended,
     superseded |-> plan.superseded, desired |-> plan.desired,
     new |-> NoSnapshot, phase |-> "INTENT_RECORDED"]

\* The plan passed the capacity and integrity gates and its uploads are in the
\* vault: publication.begin records the prior state.
BeginPublication ==
    /\ At("prepared")
    /\ ws.status # "TOMBSTONED"
    /\ ws.revision = expected[cur]
    /\ ws.revision < MaxRevision
    /\ NoOpenJournal
    /\ \E plan \in Plans : /\ plan.desired # {}
                           /\ pubJournal' = NewJournal(plan)
    /\ Goto("pub_begun")
    /\ UNCHANGED <<ws, publication, lineage, empJournal, operations, budget>>

\* No source is left: the EMPTY transition, never an empty ingest.
BeginEmpty ==
    /\ At("prepared")
    /\ ws.status = "ACTIVE"
    /\ ws.revision = expected[cur]
    /\ ws.revision < MaxRevision
    /\ NoOpenJournal
    /\ \E plan \in Plans : /\ plan.desired = {}
                           /\ empJournal' = NewJournal(plan)
    /\ Goto("emp_begun")
    /\ UNCHANGED <<ws, publication, lineage, pubJournal, operations, budget>>

\* A stale revision, a tombstone, an unknown source, a refused plan or a journal
\* that is still there.
PlanFails ==
    /\ At("prepared")
    /\ Handle("outer")
    /\ UNCHANGED <<durable, budget>>

MarkRunning ==
    /\ \/ At("pub_begun") /\ Goto("pub_building")
       \/ At("emp_begun") /\ Goto("emp_running")
    /\ SetStatus(cur, "RUNNING")
    /\ UNCHANGED <<ws, publication, lineage, journals, expected, budget>>

-----------------------------------------------------------------------------
(* The publication path, under the corpus lease.                             *)

\* Mutant: the manifest is not made durable before the pointer.
WriteNoManifest ==
    /\ At("pub_building")
    /\ \E s \in Snapshots : built' = s
    /\ pc' = "pub_manifest"
    /\ UNCHANGED <<launched, mode, cur, ws, publication, lineage, journals,
                   operations, budget>>

\* The candidate was ingested, chunked, indexed and validated: publish writes
\* the immutable manifest if it is absent.  Identical content gives an id that
\* exists, even the current one.
WriteManifest ==
    /\ At("pub_building")
    /\ \E s \in Snapshots : built' = s /\ manifests' = manifests \cup {s}
    /\ pc' = "pub_manifest"
    /\ UNCHANGED <<launched, mode, cur, ws, pointer, retired, lineage, journals,
                   operations, budget>>

WritePointer ==
    /\ At("pub_manifest")
    /\ pointer' = built
    /\ Goto("pub_pointer")
    /\ UNCHANGED <<ws, retired, manifests, lineage, journals, operations, budget>>

ClearMarker ==
    /\ At("pub_pointer")
    /\ retired' = FALSE
    /\ Goto("pub_published")
    /\ UNCHANGED <<ws, pointer, manifests, lineage, journals, operations, budget>>

\* A stage fails, a checkpoint sees the shutdown, the publication is refused.
\* What fails before the corpus lease is taken is seen by the outer handler only.
IngestFails ==
    /\ \/ pc \in {"pub_building", "pub_manifest"} /\ Handle("inner")
       \/ At("pub_building") /\ Handle("outer")
    /\ UNCHANGED <<durable, budget>>

MarkPublicationObserved ==
    /\ At("pub_published")
    /\ pubJournal' = [op |-> pubJournal.op, prior |-> pubJournal.prior,
                      appended |-> pubJournal.appended,
                      superseded |-> pubJournal.superseded,
                      desired |-> pubJournal.desired,
                      new |-> built, phase |-> "PUBLICATION_OBSERVED"]
    /\ Goto("pub_observed")
    /\ UNCHANGED <<ws, publication, lineage, empJournal, operations, budget>>

\* _committed_record and the write of commit_workspace: the A/B pivot.
CommitWorkspace ==
    /\ At("pub_observed")
    /\ ws' = [revision |-> pubJournal.prior.revision + 1, status |-> "ACTIVE",
              snapshot |-> built, sources |-> pubJournal.desired,
              effects |-> pubJournal.prior.effects \cup {pubJournal.op}]
    /\ Goto("pub_committed")
    /\ UNCHANGED <<publication, lineage, journals, operations, budget>>

MarkWorkspaceCommitted ==
    /\ At("pub_committed")
    /\ SetPhase("WORKSPACE_COMMITTED")
    /\ Goto("finish")
    /\ UNCHANGED <<ws, publication, lineage, operations, budget>>

-----------------------------------------------------------------------------
(* The EMPTY path, under the corpus lease.                                   *)

\* checkpoint and enter_publication raise on a shutdown.
EmptyRefused ==
    /\ At("emp_running")
    /\ Handle("inner")
    /\ UNCHANGED <<durable, budget>>

\* retire_current_publication writes the marker before it unlinks the pointer.
WriteRetiredMarker ==
    /\ At("emp_running")
    /\ retired' = TRUE
    /\ Goto("emp_marked")
    /\ UNCHANGED <<ws, pointer, manifests, lineage, journals, operations, budget>>

UnlinkPointer ==
    /\ At("emp_marked")
    /\ pointer' = NoSnapshot
    /\ Goto("emp_retired")
    /\ UNCHANGED <<ws, retired, manifests, lineage, journals, operations, budget>>

MarkPublicationRetired ==
    /\ At("emp_retired")
    /\ SetPhase("PUBLICATION_RETIRED")
    /\ Goto("emp_write")
    /\ UNCHANGED <<ws, publication, lineage, operations, budget>>

EmptyWorkspace ==
    /\ At("emp_write")
    /\ ws' = [revision |-> empJournal.prior.revision + 1, status |-> "EMPTY",
              snapshot |-> NoSnapshot, sources |-> {},
              effects |-> empJournal.prior.effects \cup {empJournal.op}]
    /\ Goto("emp_written")
    /\ UNCHANGED <<publication, lineage, journals, operations, budget>>

MarkWorkspaceEmptied ==
    /\ At("emp_written")
    /\ SetPhase("WORKSPACE_EMPTIED")
    /\ Goto("finish")
    /\ UNCHANGED <<ws, publication, lineage, operations, budget>>

-----------------------------------------------------------------------------
(* The way to B, taken by the worker and by recovery: lineage, COMMITTED,    *)
(* operation SUCCEEDED, journal dropped, in this order.                      *)

LineageDue ==
    IF pubJournal # NoJournal
    THEN pubJournal.phase = "WORKSPACE_COMMITTED"
    ELSE empJournal.phase # "COMMITTED"

\* history.append of an appended version, or of a superseded one that has no
\* record yet (backfilled from the prior workspace record).
AppendHistory ==
    /\ At("finish") /\ LineageDue
    /\ \E v \in (Open.appended \cup Open.superseded) \ recorded :
            /\ v \in Open.superseded => Open.appended \subseteq recorded
            /\ recorded' = recorded \cup {v}
    /\ Goto("finish")
    /\ UNCHANGED <<ws, publication, closed, journals, operations, budget>>

SupersedeHistory ==
    /\ At("finish") /\ LineageDue
    /\ Open.appended \cup Open.superseded \subseteq recorded
    /\ \E v \in Open.superseded \ closed : closed' = closed \cup {v}
    /\ Goto("finish")
    /\ UNCHANGED <<ws, publication, recorded, journals, operations, budget>>

MarkLineage ==
    /\ At("finish") /\ LineageDue
    /\ Open.appended \cup Open.superseded \subseteq recorded
    /\ Open.superseded \subseteq closed
    /\ SetPhase(IF pubJournal # NoJournal
                THEN "LINEAGE_COMMITTED" ELSE "COMMITTED")
    /\ Goto("finish")
    /\ UNCHANGED <<ws, publication, lineage, operations, budget>>

MarkCommitted ==
    /\ At("finish")
    /\ pubJournal # NoJournal
    /\ pubJournal.phase = "LINEAGE_COMMITTED"
    /\ SetPhase("COMMITTED")
    /\ Goto("finish")
    /\ UNCHANGED <<ws, publication, lineage, operations, budget>>

\* A terminal record is left as it is.
Succeed ==
    /\ At("finish")
    /\ Open.phase = "COMMITTED"
    /\ opStatus[Open.op] \notin Terminal
    /\ SetStatus(Open.op, "SUCCEEDED")
    /\ Goto("finish")
    /\ UNCHANGED <<ws, publication, lineage, journals, expected, budget>>

\* What follows the end of a journal: the worker returns, a failure handler
\* goes on to fail the operation, the startup looks for the next journal.
AfterJournal ==
    \/ mode = "run" /\ ReleaseLease
    \/ mode = "startup" /\ Goto("recover")
    \/ mode \in {"inner", "outer"} /\ Goto("fail_op")

DropOpenJournal ==
    IF pubJournal # NoJournal
    THEN pubJournal' = NoJournal /\ UNCHANGED empJournal
    ELSE empJournal' = NoJournal /\ UNCHANGED pubJournal

\* Recovery cannot read the operation record: it drops the journal without an
\* outcome, SUCCEEDED on the way to B or INTERRUPTED on the way to A.
RecordSkipped ==
    /\ \/ At("finish") /\ mode # "run" /\ Open.phase = "COMMITTED"
       \/ At("back_drop") /\ mode = "startup"
    /\ unreadable < MaxUnreadable
    /\ opStatus[Open.op] \notin Terminal
    /\ unreadable' = unreadable + 1
    /\ DropOpenJournal
    /\ AfterJournal
    /\ UNCHANGED <<ws, publication, lineage, operations, crashes, faults>>

DropCommitted ==
    /\ At("finish")
    /\ Open.phase = "COMMITTED"
    /\ opStatus[Open.op] \in Terminal
    /\ DropOpenJournal
    /\ AfterJournal
    /\ UNCHANGED <<ws, publication, lineage, operations, budget>>

-----------------------------------------------------------------------------
(* Recovery of the open journal: publication first, then EMPTY.              *)

\* Mutant: only the phase counts.
PublicationCommittedByPhase == pubJournal.phase \in ForwardPhases

\* Mutant: the snapshot id alone is taken as evidence.
PublicationCommittedById ==
    \/ pubJournal.phase \in ForwardPhases
    \/ /\ pubJournal.new # NoSnapshot
       /\ ws.snapshot = pubJournal.new

\* _workspace_committed: the phase, or the durable evidence in workspace.json.
\* The revision matters because a snapshot id may equal the prior one.
PublicationCommitted ==
    \/ pubJournal.phase \in ForwardPhases
    \/ /\ pubJournal.new # NoSnapshot
       /\ ws.snapshot = pubJournal.new
       /\ ws.revision > pubJournal.prior.revision

\* For EMPTY the status is the evidence, or the phase before COMMITTED.
EmptyCommitted ==
    ws.status = "EMPTY" \/ empJournal.phase = "WORKSPACE_EMPTIED"

Forward == IF pubJournal # NoJournal THEN PublicationCommitted ELSE EmptyCommitted

Recovering == At("recover") /\ ~NoOpenJournal

\* What is current in B.
Target == IF pubJournal # NoJournal THEN pubJournal.new ELSE NoSnapshot

\* B: the target is made current, then the marker cleared.
RecoverPointerForward ==
    /\ Recovering /\ Forward
    /\ pubJournal # NoJournal \/ pointer = NoSnapshot
    /\ pointer' = Target
    /\ Goto("forward_clear")
    /\ UNCHANGED <<ws, retired, manifests, lineage, journals, operations, budget>>

\* B: repair the phase that the crash kept from being saved.
RecoverForward ==
    /\ At("forward")
    /\ IF pubJournal # NoJournal /\ pubJournal.phase \notin ForwardPhases
       THEN SetPhase("WORKSPACE_COMMITTED")
       ELSE UNCHANGED journals
    /\ Goto("finish")
    /\ UNCHANGED <<ws, publication, lineage, operations, budget>>

\* B of EMPTY: what is still current is retired.
RecoverRetireForward ==
    /\ Recovering /\ Forward
    /\ pubJournal = NoJournal /\ pointer # NoSnapshot
    /\ retired' = TRUE
    /\ Goto("forward_unlink")
    /\ UNCHANGED <<ws, pointer, manifests, lineage, journals, operations, budget>>

\* EMPTY is COMMITTED but the workspace is not: the journal is dropped as A with
\* nothing restored.
RecoverInconsistent ==
    /\ Recovering /\ ~Forward
    /\ pubJournal = NoJournal /\ empJournal.phase = "COMMITTED"
    /\ Goto("back_drop")
    /\ UNCHANGED <<durable, budget>>

\* workspace.json cannot be read: recovery takes the way to A whatever the phase
\* says.  EMPTY recovery rewrites the record first.
RecoverUnreadable ==
    /\ Recovering
    /\ unreadable < MaxUnreadable
    /\ unreadable' = unreadable + 1
    /\ ws' = IF pubJournal # NoJournal THEN ws ELSE empJournal.prior
    /\ Goto("back")
    /\ UNCHANGED <<publication, lineage, journals, operations, crashes, faults>>

Restoring ==
    \/ At("back")
    \/ /\ Recovering /\ ~Forward
       /\ pubJournal = NoJournal => empJournal.phase # "COMMITTED"

\* Mutant: the pointer is not restored.
RecoverPointerKept ==
    /\ Restoring
    /\ Open.prior.snapshot # NoSnapshot
    /\ pubJournal # NoJournal \/ pointer = NoSnapshot
    /\ Goto("back_clear")
    /\ UNCHANGED <<ws, publication, lineage, journals, operations, budget>>

\* A: the prior publication becomes current again.  Publication recovery always
\* rewrites the pointer; EMPTY recovery only a missing one.
RecoverPointerBack ==
    /\ Restoring
    /\ Open.prior.snapshot # NoSnapshot
    /\ pubJournal # NoJournal \/ pointer = NoSnapshot
    /\ Open.prior.snapshot \in manifests
    /\ pointer' = Open.prior.snapshot
    /\ Goto("back_clear")
    /\ UNCHANGED <<ws, retired, manifests, lineage, journals, operations, budget>>

\* A, and the workspace was EMPTY: retire what the mutation published.
RecoverRetireMarker ==
    /\ Restoring
    /\ Open.prior.snapshot = NoSnapshot
    /\ pointer # NoSnapshot
    /\ retired' = TRUE
    /\ Goto("back_unlink")
    /\ UNCHANGED <<ws, pointer, manifests, lineage, journals, operations, budget>>

RecoverRetireUnlink ==
    /\ \/ At("back_unlink") /\ Goto("back_write")
       \/ At("forward_unlink") /\ Goto("forward")
    /\ pointer' = NoSnapshot
    /\ UNCHANGED <<ws, retired, manifests, lineage, journals, operations, budget>>

RecoverClearMarker ==
    /\ \/ At("forward_clear") /\ Goto("forward")
       \/ At("back_clear") /\ Goto("back_write")
       \/ /\ Restoring
          /\ IF Open.prior.snapshot = NoSnapshot
             THEN pointer = NoSnapshot
             ELSE pubJournal = NoJournal /\ pointer # NoSnapshot
          /\ Goto("back_write")
    /\ retired' = FALSE
    /\ UNCHANGED <<ws, pointer, manifests, lineage, journals, operations, budget>>

RecoverWorkspaceBack ==
    /\ At("back_write")
    /\ ws' = Open.prior
    /\ Goto("back_drop")
    /\ UNCHANGED <<publication, lineage, journals, operations, budget>>

\* Startup recovery terminalizes the operation; a failure handler leaves that
\* to its caller.
RecoverInterrupt ==
    /\ At("back_drop")
    /\ mode = "startup"
    /\ opStatus[Open.op] \notin Terminal
    /\ SetStatus(Open.op, "INTERRUPTED")
    /\ Goto("back_drop")
    /\ UNCHANGED <<ws, publication, lineage, journals, expected, budget>>

\* Mutant: the journal is left for another round.
DropRecoveredNot ==
    /\ At("back_drop")
    /\ mode = "startup" => opStatus[Open.op] \in Terminal
    /\ AfterJournal
    /\ UNCHANGED <<durable, budget>>

DropRecovered ==
    /\ At("back_drop")
    /\ mode = "startup" => opStatus[Open.op] \in Terminal
    /\ DropOpenJournal
    /\ AfterJournal
    /\ UNCHANGED <<ws, publication, lineage, operations, budget>>

\* There is no journal (left): "clean".
RecoverClean ==
    /\ At("recover") /\ NoOpenJournal
    /\ Goto(IF mode = "startup" THEN "interrupt" ELSE "fail_op")
    /\ UNCHANGED <<durable, budget>>

\* The end of _fail_operation: a terminal record, SUCCEEDED by recovery to B,
\* is left as it is.
FailOperation ==
    /\ At("fail_op")
    /\ IF opStatus[cur] \in Terminal
       THEN UNCHANGED opStatus
       ELSE SetStatus(cur, "FAILED")
    /\ ReleaseLease
    /\ UNCHANGED <<ws, publication, lineage, journals, expected, budget>>

\* interrupt_all_nonterminal, one record at a time, then READY.
Interrupt ==
    /\ At("interrupt")
    /\ \E op \in Ops : /\ opStatus[op] \notin Terminal \cup {"NONE"}
                       /\ SetStatus(op, "INTERRUPTED")
    /\ Goto("interrupt")
    /\ UNCHANGED <<ws, publication, lineage, journals, expected, budget>>

Ready ==
    /\ At("interrupt")
    /\ \A op \in Ops : opStatus[op] \in Terminal \cup {"NONE"}
    /\ ReleaseLease
    /\ UNCHANGED <<durable, budget>>

-----------------------------------------------------------------------------
(* Faults and crashes.                                                       *)

\* Steps of a live failure handler.
Handling == {"recover", "forward_unlink", "forward_clear", "forward", "finish",
             "back", "back_clear", "back_unlink", "back_write", "back_drop",
             "fail_op"}

\* A write of the worker fails.  Outside the corpus lease only the outer
\* handler sees it.
WorkerFault ==
    /\ faults < MaxFaults
    /\ mode = "run" /\ pc # "idle" /\ pc # "down"
    /\ faults' = faults + 1
    /\ Handle(IF pc \in {"prepared", "pub_begun", "emp_begun"}
              THEN "outer" ELSE "inner")
    /\ UNCHANGED <<durable, crashes, unreadable>>

\* A write of a failure handler fails with an OSError.  The inner handler
\* propagates to the outer one, which runs unless the record is terminal; the
\* outer one gives up and the worker dies with the journal and record as they are.
HandlerWriteFault ==
    /\ faults < MaxFaults
    /\ mode \in {"inner", "outer"} /\ pc \in Handling
    /\ faults' = faults + 1
    /\ IF mode = "inner" /\ opStatus[cur] \notin Terminal
       THEN Handle("outer")
       ELSE ReleaseLease
    /\ UNCHANGED <<durable, crashes, unreadable>>

\* A read of recovery fails: an AppError, swallowed into the recovery note; the
\* operation is failed and the journal stays.
HandlerReadFault ==
    /\ faults < MaxFaults
    /\ mode \in {"inner", "outer"} /\ pc \in {"recover", "finish"}
    /\ faults' = faults + 1
    /\ Goto("fail_op")
    /\ UNCHANGED <<durable, crashes, unreadable>>

\* The process dies, or a startup fault leaves it NOT_READY until it is
\* restarted: only what is on disk remains.
Crash ==
    /\ crashes < MaxCrashes
    /\ ~At("down")
    /\ crashes' = crashes + 1
    /\ pc' = "down" /\ mode' = "startup" /\ cur' = NoOp /\ built' = NoSnapshot
    /\ launched' = {}
    /\ UNCHANGED <<durable, faults, unreadable>>

Restart ==
    /\ At("down")
    /\ Goto("recover")
    /\ UNCHANGED <<durable, budget>>

-----------------------------------------------------------------------------

Accept == \E op \in Ops : \/ Reserve(op) \/ ReserveRefused(op)
                          \/ WorkerBegins(op) \/ WorkerGivesUp(op)

PublicationStep ==
    \/ BeginPublication \/ WriteManifest \/ WritePointer \/ ClearMarker
    \/ MarkPublicationObserved \/ CommitWorkspace \/ MarkWorkspaceCommitted

EmptyStep ==
    \/ BeginEmpty \/ WriteRetiredMarker \/ UnlinkPointer
    \/ MarkPublicationRetired \/ EmptyWorkspace \/ MarkWorkspaceEmptied

FinishStep ==
    \/ AppendHistory \/ SupersedeHistory \/ MarkLineage \/ MarkCommitted
    \/ Succeed \/ RecordSkipped \/ DropCommitted

RecoveryStep ==
    \/ RecoverPointerForward \/ RecoverRetireForward \/ RecoverForward
    \/ RecoverInconsistent \/ RecoverUnreadable \/ RecoverPointerBack
    \/ RecoverRetireMarker \/ RecoverRetireUnlink \/ RecoverClearMarker
    \/ RecoverWorkspaceBack \/ RecoverInterrupt \/ DropRecovered
    \/ RecoverClean \/ FailOperation \/ Interrupt \/ Ready

Failure == PlanFails \/ IngestFails \/ EmptyRefused

\* The thread that holds the workspace lease, or the startup, takes a step.
Step == PublicationStep \/ EmptyStep \/ MarkRunning \/ FinishStep
            \/ RecoveryStep \/ Failure

Environment == MetadataPatch \/ Tombstone \/ Crash \/ Restart
                   \/ WorkerFault \/ HandlerWriteFault \/ HandlerReadFault

\* The service may rest when it is idle.
Rest == At("idle") /\ UNCHANGED vars

Next == Accept \/ Step \/ Environment \/ Rest

Fairness == WF_vars(Step)

Spec == Init /\ [][Next]_vars /\ Fairness

-----------------------------------------------------------------------------
(* Properties.                                                               *)

\* Every record, journal and control variable keeps its shape.
TypeOK ==
    /\ ws \in Workspace
    /\ pointer \in Snapshots \cup {NoSnapshot}
    /\ retired \in BOOLEAN
    /\ manifests \subseteq Snapshots
    /\ recorded \subseteq Version /\ closed \subseteq Version
    /\ pubJournal = NoJournal \/ pubJournal \in Journal(PubPhases)
    /\ empJournal = NoJournal \/ empJournal \in Journal(EmpPhases)
    /\ opStatus \in [Ops -> Statuses]
    /\ expected \in [Ops -> 0..MaxRevision]
    /\ launched \subseteq Ops
    /\ mode \in Modes
    /\ cur \in Ops \cup {NoOp}
    /\ built \in Snapshots \cup {NoSnapshot}
    /\ crashes \in 0..MaxCrashes /\ faults \in 0..MaxFaults
    /\ unreadable \in 0..MaxUnreadable

\* The workspace and its publication agree whenever nobody is in the middle of
\* a mutation: an ACTIVE workspace is served exactly its snapshot, an EMPTY one
\* is served nothing, and no retirement marker contradicts a live pointer.
\* This must survive every crash and fault point and both recoveries.
Quiescent == At("idle") /\ NoOpenJournal

QuiescentAgreement ==
    Quiescent =>
        /\ ws.status # "TOMBSTONED" => pointer = ws.snapshot
        /\ ws.status = "ACTIVE" <=> ws.snapshot # NoSnapshot
        /\ ws.sources = {} => ws.status # "ACTIVE"
        /\ retired => pointer = NoSnapshot

\* At every instant, mid-transition ones included, what the pointer or the
\* workspace names is a snapshot whose manifest is durable.
NoDanglingSnapshot ==
    {pointer, ws.snapshot} \ {NoSnapshot} \subseteq manifests

\* Once the workspace record claims the mutation, the publication it claims is
\* already current and stays so until the journal is gone, so that recovery to
\* B never has to move the pointer (its repair of one is a safety net).
CommittedIsServed ==
    (~NoOpenJournal /\ Forward) => pointer = Target

\* When no journal is open, the source history describes the active set: what
\* is superseded is not active, what is recorded and not superseded is active,
\* and only sources older than the history have no record.
LineageAgrees ==
    (NoOpenJournal /\ ws.status # "TOMBSTONED") =>
        /\ closed \subseteq recorded
        /\ closed \cap ws.sources = {}
        /\ recorded \ closed \subseteq ws.sources
        /\ ws.sources \ recorded \subseteq {<<LegacySource, 1>>}

\* An operation the client was told has SUCCEEDED is in the workspace, and no
\* later crash, fault or recovery of any operation takes it back.
SucceededIsDurable ==
    \A op \in Ops : opStatus[op] = "SUCCEEDED" => op \in ws.effects

\* With at most one I/O fault: an operation reported FAILED or INTERRUPTED left
\* no trace once nothing is in progress, so that a retry under a new key is safe.
\* (A second fault, in the failure handler, leaves a FAILED operation and an open
\* journal, which the next startup completes.)
FailedLeftNoTrace ==
    (Quiescent /\ faults <= 1) =>
        \A op \in Ops :
            opStatus[op] \in {"FAILED", "INTERRUPTED"} => op \notin ws.effects

\* "no durable queue; admitted work starts immediately"
\* (slice16b_workspace_lifecycle_api.md, contract 12): an accepted operation
\* that has not begun has a worker that will begin it.
AdmittedWorkIsOwned ==
    mode # "startup" =>
        \A op \in Ops : opStatus[op] = "PENDING" => op \in launched

\* The revision that clients pass back as If-Match tells what they saw: it never
\* goes back, not even when recovery to A rewrites the prior record, and the
\* content never changes under a revision.
RevisionTellsContent ==
    [][LET content(w) == <<w.sources, w.snapshot, w.status>>
       IN /\ ws'.revision \in {ws.revision, ws.revision + 1}
          /\ content(ws') # content(ws) => ws'.revision # ws.revision]_vars

\* A terminal operation record never changes: the answer a poll saw is final.
TerminalIsFinal ==
    [][\A op \in Ops :
            opStatus[op] \in Terminal => opStatus'[op] = opStatus[op]]_vars

\* The detailed mutation implements the atomic one.  What is served is mapped to
\* what recovery would make current: the target once the record claims it, the
\* prior publication before.
Served ==
    IF NoOpenJournal THEN pointer
    ELSE IF Forward THEN Target ELSE Open.prior.snapshot

Outcome(status) ==
    IF status = "NONE" THEN "new"
    ELSE IF status = "SUCCEEDED" THEN "succeeded"
    ELSE IF status \in {"FAILED", "INTERRUPTED"} THEN "aborted" ELSE "accepted"

Atomic == INSTANCE AtomicWorkspace WITH
    Versions <- Version,
    content <- ws,
    published <- Served,
    outcome <- [op \in Ops |-> Outcome(opStatus[op])]

\* The journals make five files change as one, through every crash and any
\* single fault.
ImplementsAtomic == Atomic!Spec

\* A restarted process that is not killed again becomes ready, and then no
\* operation accepted before is left without an outcome.
StartupTerminates ==
    (mode = "startup" /\ ~At("down")) ~> (At("idle") \/ At("down"))

\* Through every crash and fault point and both recoveries the records of the
\* mutation agree: pointer and workspace whenever nobody is in the middle of
\* one, target and pointer once the workspace claims the mutation, source
\* history and active set whenever no journal is open.
RecordsAgree ==
    TypeOK /\ QuiescentAgreement /\ CommittedIsServed /\ LineageAgrees

\* What clients are told is what happened: success is never taken back, and a
\* failure leaves nothing behind.
OutcomesHold == SucceededIsDurable /\ FailedLeftNoTrace
=============================================================================
