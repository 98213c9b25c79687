---------------------------- MODULE SyncMutation ----------------------------
(***************************************************************************)
(* Synchronous mutations of one workspace: metadata patches and the        *)
(* tombstone, made crash-atomic by journal/sync_mutation.json.  The exact  *)
(* success receipt is durable before workspace.json is written, and        *)
(* recovery matches the live record against it.                            *)
(*                                                                         *)
(* Sources: app/workspace/sync_journal.py, lifecycle.py (the patch and     *)
(* tombstone operations), store.py, mutation_ops.py.  A scientific         *)
(* mutation is one step here; WorkspaceMutation has its inside.  A client  *)
(* that got an error may send the same request (the same operation) again. *)
(***************************************************************************)
EXTENDS Naturals, FiniteSets

CONSTANTS
    Ops,            \* requests, each with an idempotency key of its own
    Deletes,        \* those that tombstone the workspace
    NoJournal,      \* the journal file is absent
    MaxRevision,    \* bound on the workspace revision
    MaxCrashes,     \* bound on process crashes
    MaxFaults       \* bound on I/O faults of a live process

ASSUME SyncAssumption ==
    /\ Deletes \subseteq Ops /\ IsFiniteSet(Ops)
    /\ MaxRevision \in Nat \ {0} /\ MaxCrashes \in Nat /\ MaxFaults \in Nat

NoOp == "no_op"
ASSUME NoOpAssumption == NoOp \notin Ops

VARIABLES
    ws,         \* workspace.json
    fenced,     \* is a publication or EMPTY journal left open?
    journal,    \* journal/sync_mutation.json
    opStatus,   \* status of the managed-operation record
    expected,   \* its expected_revision (0: not yet reserved)
    applied,    \* how often the operation has written workspace.json (history)
    pc,         \* step of the holder of the workspace lease
    mode,       \* who it is: a request, its error handler, the startup
    cur,        \* the operation of the request
    crashes, faults

records == <<ws, fenced, journal, opStatus, expected, applied>>
control == <<pc, mode, cur>>
budget == <<crashes, faults>>
vars == <<records, control, budget>>

Terminal == {"SUCCEEDED", "FAILED", "INTERRUPTED"}
Statuses == {"NONE", "PENDING", "RUNNING"} \cup Terminal

\* writer stands for what a write leaves in the record (title, names,
\* updated_at): equal records are the same write.
Workspace == [revision : 1..MaxRevision, deleted : BOOLEAN,
              writer : Ops \cup {NoOp}]

Journal == [op : Ops, expected : 1..MaxRevision, receipt : Workspace,
            phase : {"INTENT_RECORDED", "WORKSPACE_COMMITTED"}]

ASSUME NoJournalAssumption == NoJournal \notin Journal

Init ==
    /\ ws = [revision |-> 1, deleted |-> FALSE, writer |-> NoOp]
    /\ fenced = FALSE
    /\ journal = NoJournal
    /\ opStatus = [op \in Ops |-> "NONE"]
    /\ expected = [op \in Ops |-> 0]
    /\ applied = [op \in Ops |-> 0]
    /\ pc = "idle" /\ mode = "run" /\ cur = NoOp
    /\ crashes = 0 /\ faults = 0

-----------------------------------------------------------------------------

At(step) == pc = step

Goto(to) == pc' = to /\ UNCHANGED <<mode, cur>>

Handle == pc' = "error" /\ mode' = "handler" /\ UNCHANGED cur

ReleaseLease == pc' = "idle" /\ mode' = "run" /\ cur' = NoOp

SetStatus(op, status) == opStatus' = [opStatus EXCEPT ![op] = status]

\* The record the request will write.
Prepared(op) ==
    [revision |-> ws.revision + 1, deleted |-> op \in Deletes, writer |-> op]

-----------------------------------------------------------------------------
(* The request.                                                              *)

\* Mutant: the key is not looked up, so every request is reserved anew.
RequestAnew(op) ==
    /\ At("idle")
    /\ SetStatus(op, "PENDING")
    /\ \E r \in 1..ws.revision : /\ r < MaxRevision
                                 /\ expected' = [expected EXCEPT ![op] = r]
    /\ pc' = "begun" /\ mode' = "run" /\ cur' = op
    /\ UNCHANGED <<ws, fenced, journal, applied, budget>>

\* operations.begin: a new key is reserved PENDING with the revision the client
\* read, maybe long ago; a known key continues unless it is terminal.
Request(op) ==
    /\ At("idle")
    /\ \/ /\ opStatus[op] = "NONE"
          /\ SetStatus(op, "PENDING")
          /\ \E r \in 1..ws.revision : /\ r < MaxRevision
                                       /\ expected' = [expected EXCEPT ![op] = r]
       \/ /\ opStatus[op] \in {"PENDING", "RUNNING"}
          /\ UNCHANGED <<opStatus, expected>>
    /\ pc' = "begun" /\ mode' = "run" /\ cur' = op
    /\ UNCHANGED <<ws, fenced, journal, applied, budget>>

Acceptable == ~ws.deleted /\ ws.revision = expected[cur]

WriteIntent ==
    /\ At("begun")
    /\ Acceptable
    /\ journal = NoJournal
    /\ journal' = [op |-> cur, expected |-> expected[cur],
                   receipt |-> Prepared(cur), phase |-> "INTENT_RECORDED"]
    /\ Goto("intent")
    /\ UNCHANGED <<ws, fenced, opStatus, expected, applied, budget>>

\* The workspace is gone, the revision is stale, or a journal is in the way.
Refuse ==
    /\ At("begun")
    /\ ~Acceptable \/ journal # NoJournal
    /\ Handle
    /\ UNCHANGED <<records, budget>>

\* store.save is fenced by the publication and EMPTY journals.
SaveWorkspace ==
    /\ At("intent")
    /\ ~fenced
    /\ ws' = journal.receipt
    /\ applied' = [applied EXCEPT ![cur] = @ + 1]
    /\ Goto("saved")
    /\ UNCHANGED <<fenced, journal, opStatus, expected, budget>>

SaveRefused ==
    /\ At("intent")
    /\ fenced
    /\ Handle
    /\ UNCHANGED <<records, budget>>

MarkWorkspaceCommitted ==
    /\ At("saved")
    /\ journal' = [journal EXCEPT !.phase = "WORKSPACE_COMMITTED"]
    /\ Goto("finish")
    /\ UNCHANGED <<ws, fenced, opStatus, expected, applied, budget>>

\* A read after the intent is durable fails: an AppError, so the handler runs.
RequestReadFault ==
    /\ faults < MaxFaults
    /\ mode = "run" /\ pc \in {"saved", "finish"}
    /\ faults' = faults + 1
    /\ Handle
    /\ UNCHANGED <<records, crashes>>

-----------------------------------------------------------------------------
(* Completion to B, by the request, its handler or the startup: the          *)
(* operation of the journal goes through RUNNING to SUCCEEDED, then the      *)
(* journal is dropped.                                                       *)

MarkRunning ==
    /\ At("finish")
    /\ opStatus[journal.op] = "PENDING"
    /\ SetStatus(journal.op, "RUNNING")
    /\ UNCHANGED <<ws, fenced, journal, expected, applied, control, budget>>

MarkSucceeded ==
    /\ At("finish")
    /\ opStatus[journal.op] = "RUNNING"
    /\ SetStatus(journal.op, "SUCCEEDED")
    /\ UNCHANGED <<ws, fenced, journal, expected, applied, control, budget>>

DropCommitted ==
    /\ At("finish")
    /\ opStatus[journal.op] \in Terminal
    /\ journal' = NoJournal
    /\ Goto(IF mode = "startup" THEN "interrupt" ELSE "return")
    /\ UNCHANGED <<ws, fenced, opStatus, expected, applied, budget>>

\* The answer to the request is built from the operation's own record.
Return ==
    /\ At("return")
    /\ ReleaseLease
    /\ UNCHANGED <<records, budget>>

-----------------------------------------------------------------------------
(* reconcile, called by the handler of an AppError and by the startup.       *)

\* workspace_matches_expected_result.
MatchesReceipt == ws = journal.receipt

IsB == journal.phase = "WORKSPACE_COMMITTED" \/ MatchesReceipt

IsA == /\ ws.revision = journal.expected
       /\ journal.op \in Deletes => ~ws.deleted

Reconciling == At("error") /\ journal # NoJournal

ReconcileB ==
    /\ Reconciling /\ IsB
    /\ Goto("finish")
    /\ UNCHANGED <<records, budget>>

\* The handler fails the operation, the startup interrupts it.
ReconcileA ==
    /\ Reconciling /\ ~IsB /\ IsA
    /\ IF opStatus[journal.op] \in Terminal
       THEN UNCHANGED opStatus
       ELSE SetStatus(journal.op,
                      IF mode = "startup" THEN "INTERRUPTED" ELSE "FAILED")
    /\ Goto("drop")
    /\ UNCHANGED <<ws, fenced, journal, expected, applied, budget>>

DropAbandoned ==
    /\ At("drop")
    /\ journal' = NoJournal
    /\ IF mode = "startup" THEN Goto("interrupt") ELSE ReleaseLease
    /\ UNCHANGED <<ws, fenced, opStatus, expected, applied, budget>>

\* Neither: the journal is kept; the request fails, the startup refuses.
Ambiguous ==
    /\ Reconciling /\ ~IsB /\ ~IsA
    /\ IF mode = "startup" THEN Goto("refused") ELSE ReleaseLease
    /\ UNCHANGED <<records, budget>>

\* No journal: ordinary FAILED for a request, nothing to do for the startup.
ReconcileClean ==
    /\ At("error") /\ journal = NoJournal
    /\ IF mode = "startup"
       THEN Goto("interrupt") /\ UNCHANGED opStatus
       ELSE ReleaseLease /\ SetStatus(cur, "FAILED")
    /\ UNCHANGED <<ws, fenced, journal, expected, applied, budget>>

Interrupt ==
    /\ At("interrupt")
    /\ \E op \in Ops : /\ opStatus[op] \in {"PENDING", "RUNNING"}
                       /\ SetStatus(op, "INTERRUPTED")
    /\ UNCHANGED <<ws, fenced, journal, expected, applied, control, budget>>

Ready ==
    /\ At("interrupt")
    /\ \A op \in Ops : opStatus[op] \notin {"PENDING", "RUNNING"}
    /\ ReleaseLease
    /\ UNCHANGED <<records, budget>>

-----------------------------------------------------------------------------
(* The scientific path, faults and crashes.                                  *)

\* A whole scientific mutation: it does not look at the sync journal.
Publication ==
    /\ At("idle")
    /\ ~fenced /\ ~ws.deleted
    /\ ws.revision < MaxRevision
    /\ ws' = [revision |-> ws.revision + 1, deleted |-> FALSE, writer |-> NoOp]
    /\ UNCHANGED <<fenced, journal, opStatus, expected, applied, control, budget>>

\* A scientific mutation fails and its recovery fails too: its journal stays.
PublicationStuck ==
    /\ At("idle")
    /\ ~fenced /\ ~ws.deleted
    /\ faults < MaxFaults
    /\ faults' = faults + 1
    /\ fenced' = TRUE
    /\ UNCHANGED <<ws, journal, opStatus, expected, applied, control, crashes>>

\* A write fails with an OSError: no handler of the request catches it, the
\* lease is released and everything on disk stays.
WriteFault ==
    /\ faults < MaxFaults
    /\ mode # "startup"
    /\ pc \in {"begun", "intent", "saved", "finish", "error", "drop"}
    /\ faults' = faults + 1
    /\ ReleaseLease
    /\ UNCHANGED <<records, crashes>>

Crash ==
    /\ crashes < MaxCrashes
    /\ ~At("down")
    /\ crashes' = crashes + 1
    /\ pc' = "down" /\ mode' = "startup" /\ cur' = NoOp
    /\ UNCHANGED <<records, faults>>

\* The publication and EMPTY journals are recovered before the sync journal.
Restart ==
    /\ At("down")
    /\ fenced' = FALSE
    /\ Goto("error")
    /\ UNCHANGED <<ws, journal, opStatus, expected, applied, budget>>

-----------------------------------------------------------------------------

Step ==
    \/ WriteIntent \/ Refuse \/ SaveWorkspace \/ SaveRefused
    \/ MarkWorkspaceCommitted \/ MarkRunning \/ MarkSucceeded \/ DropCommitted
    \/ Return \/ ReconcileB \/ ReconcileA \/ DropAbandoned \/ Ambiguous
    \/ ReconcileClean \/ Interrupt \/ Ready

Environment ==
    \/ \E op \in Ops : Request(op)
    \/ Publication \/ PublicationStuck \/ RequestReadFault \/ WriteFault
    \/ Crash \/ Restart

\* The service may rest; a refused startup waits for its operator.
Rest == pc \in {"idle", "refused"} /\ UNCHANGED vars

Next == Step \/ Environment \/ Rest

Fairness == WF_vars(Step)

Spec == Init /\ [][Next]_vars /\ Fairness

-----------------------------------------------------------------------------
(* Properties.                                                               *)

\* Every record and control variable keeps its shape.
TypeOK ==
    /\ ws \in Workspace
    /\ fenced \in BOOLEAN
    /\ journal = NoJournal \/ journal \in Journal
    /\ opStatus \in [Ops -> Statuses]
    /\ expected \in [Ops -> 0..MaxRevision]
    /\ applied \in [Ops -> Nat]
    /\ pc \in {"idle", "begun", "intent", "saved", "finish", "return", "error",
               "drop", "interrupt", "refused", "down"}
    /\ mode \in {"run", "handler", "startup"}
    /\ cur \in Ops \cup {NoOp}
    /\ crashes \in 0..MaxCrashes /\ faults \in 0..MaxFaults

\* A patch is applied at most once, however often its request is sent again and
\* whatever fault or crash cut the earlier attempts short.
AppliedAtMostOnce == \A op \in Ops : applied[op] <= 1

\* The outcome on record is what happened: SUCCEEDED always means applied, and
\* with no journal open FAILED or INTERRUPTED means not applied.
OutcomeIsTrue ==
    \A op \in Ops :
        /\ opStatus[op] = "SUCCEEDED" => applied[op] = 1
        /\ (opStatus[op] \in {"FAILED", "INTERRUPTED"} /\ journal = NoJournal)
                => applied[op] = 0

\* An applied patch without an outcome is never without its journal: only the
\* journal can still tell it from one that was never applied.
AppliedIsRemembered ==
    \A op \in Ops :
        (applied[op] = 1 /\ opStatus[op] # "SUCCEEDED") =>
            journal # NoJournal /\ journal.op = op

\* Every request gives the workspace lease back and every startup comes to its
\* end, ready or refused.
LeaseIsReturned == (~At("idle")) ~> (pc \in {"idle", "refused", "down"})

\* "Startup recovers B to exact SUCCEEDED from the frozen result, and A to
\* INTERRUPTED" (sync_journal.py): the startup never meets a journal it cannot
\* place.
StartupConverges == ~At("refused")

\* "operation SUCCEEDED with frozen receipt; journal dropped; caller returns
\* success" (slice16b_workspace_lifecycle_api.md): the request that reconciled
\* a journal to B has a receipt to return.
CallerReturnsSuccess == At("return") => opStatus[cur] = "SUCCEEDED"

\* A patch or a delete is applied at most once, its outcome on record is what
\* happened, and until it has one the journal remembers it: through retries,
\* faults and crashes at every point of the protocol.
AppliedAsRecorded ==
    TypeOK /\ AppliedAtMostOnce /\ OutcomeIsTrue /\ AppliedIsRemembered
=============================================================================
