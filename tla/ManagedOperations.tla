-------------------------- MODULE ManagedOperations --------------------------
(***************************************************************************)
(* Scientific source mutations of one workspace as their clients see them: *)
(* the upload is spooled, the operation reserved under an idempotency key  *)
(* (three writes), its worklist frozen, capacity admitted, 202 answered,   *)
(* and a detached worker plans, admits the desired set, fills the vault    *)
(* and publishes.  The route is a coroutine that takes the workspace lease *)
(* blockingly, so the event loop is a resource of the model.  Publication  *)
(* is one step here; WorkspaceMutation opens it.  A source is known by the *)
(* document it holds, a document by its content hash.                      *)
(***************************************************************************)
EXTENDS Naturals, FiniteSets, FiniteSetsExt

CONSTANTS
    Requests,       \* HTTP requests, each used once
    Keys,           \* idempotency keys
    Docs,           \* contents
    OpIds,          \* operation ids new_operation_id may return
    Size,           \* Size[d]: bytes of document d
    IngestSlots,    \* ingest capacity
    SourceCeiling,  \* max_active_sources_per_workspace
    ByteCeiling,    \* max_active_source_bytes_per_workspace
    MaxPatches,     \* bound on metadata patches, which move the revision
    MaxManagedCrashes,     \* bound on crashes
    MaxManagedFaults,      \* bound on failing writes
    Nobody          \* no request, key or operation

VARIABLES
    ops,        \* operation records on disk, by id (Nobody: no record)
    locator,    \* ids with a global locator file
    idem,       \* key -> id in the workspace's idempotency index
    record,         \* workspace.json: revision, and the vault object of each active document
    vaultObj,   \* vault objects <<op, doc>> whose bytes are on disk
    vaultMeta,  \* vault objects with metadata
    spool,      \* where the bytes of a request's upload are
    lease,      \* owner of the workspace lease
    loop,       \* the request whose coroutine keeps the event loop
    req,        \* requests
    work,       \* detached workers, by operation
    up,         \* is the process serving, down or in startup
    ran,        \* history: operations whose mutation was begun
    accepted,   \* history: operations some client was told of
    launched,   \* history: operations a worker was started for
    refused,    \* history: operations whose worker was refused the lease
    managedCrashes, managedFaults, patches

disk == <<ops, locator, idem, record, vaultObj, vaultMeta>>
history == <<ran, accepted, launched, refused>>
bounds == <<managedCrashes, managedFaults, patches>>
managedVars == <<disk, spool, lease, loop, req, work, up, history, bounds>>

Kinds == {"add", "replace", "remove"}
OperationStatuses == {"PENDING", "PREPARING", "RUNNING", "SUCCEEDED", "FAILED", "INTERRUPTED"}
TerminalStatuses == {"SUCCEEDED", "FAILED", "INTERRUPTED"}

\* _LEGAL_TRANSITIONS
Legal(s) == {t \in OperationStatuses :
                \/ s = "PENDING" /\ t \notin {"PENDING", "SUCCEEDED"}
                \/ s = "PREPARING" /\ t \in {"RUNNING", "FAILED", "INTERRUPTED"}
                \/ s = "RUNNING" /\ t \in TerminalStatuses}

\* What a client asks for: new documents, the document they take the place of
\* (Nobody for an add), and the revision of If-Match.
Envelopes == [kind: Kinds, new: SUBSET Docs, old: Docs \cup {Nobody}, rev: Nat]
WellFormed(e) ==
    /\ e.kind = "add" => e.new # {} /\ e.old = Nobody
    /\ e.kind = "replace" => Cardinality(e.new) = 1 /\ e.old # Nobody
    /\ e.kind = "remove" => e.new = {} /\ e.old # Nobody

OperationRecords ==
    [key: Keys, env: Envelopes, status: OperationStatuses, frozen: BOOLEAN]
RequestSteps == {"idle", "spooled", "waiting", "holding", "locator", "index", "freeze",
                 "admit", "done"}

ASSUME ManagedAssumption ==
    /\ Requests \cap OpIds = {}
    /\ Nobody \notin Requests \cup Keys \cup OpIds \cup Docs
    /\ Nobody \notin Envelopes /\ Nobody \notin OperationRecords

Active == DOMAIN record.src
Bytes(D) == MapThenSumSet(LAMBDA d : Size[d], D)
Idle == [pc |-> "idle", key |-> Nobody, env |-> Nobody, op |-> Nobody]

ManagedTypeOK ==
    /\ ops \in [OpIds -> OperationRecords \cup {Nobody}]
    /\ locator \subseteq OpIds
    /\ idem \in [Keys -> OpIds \cup {Nobody}]
    /\ record = [rev |-> record.rev, src |-> record.src]
    /\ record.rev \in Nat /\ Active \subseteq Docs /\ record.src \in [Active -> OpIds]
    /\ vaultObj \subseteq OpIds \X Docs /\ vaultMeta \subseteq OpIds \X Docs
    /\ spool \in [Requests -> {"none", "staged", "quarantined"}]
    /\ lease \in Requests \cup OpIds \cup {Nobody}
    /\ loop \in Requests \cup {Nobody}
    /\ req \in [Requests -> [pc: RequestSteps, key: Keys \cup {Nobody},
                             env: Envelopes \cup {Nobody}, op: OpIds \cup {Nobody}]]
    /\ work \in [OpIds -> {"none", "queued", "leased", "plan", "vault", "publish", "ending"}]
    /\ up \in {"serving", "down", "starting"}
    /\ ran \cup accepted \cup launched \cup refused \subseteq OpIds

ManagedInit ==
    /\ ops = [o \in OpIds |-> Nobody]
    /\ locator = {}
    /\ idem = [k \in Keys |-> Nobody]
    /\ record = [rev |-> 1, src |-> [d \in {} |-> Nobody]]
    /\ vaultObj = {} /\ vaultMeta = {}
    /\ spool = [r \in Requests |-> "none"]
    /\ lease = Nobody /\ loop = Nobody
    /\ req = [r \in Requests |-> Idle]
    /\ work = [o \in OpIds |-> "none"]
    /\ up = "serving"
    /\ ran = {} /\ accepted = {} /\ launched = {} /\ refused = {}
    /\ managedCrashes = 0 /\ managedFaults = 0 /\ patches = 0

-----------------------------------------------------------------------------
(* The request                                                             *)

InUse == {o \in OpIds : work[o] # "none"}
Fresh == {o \in OpIds : ops[o] = Nobody}
\* One that was never used; which one does not matter.
new_operation_id == CHOOSE o \in Fresh : TRUE
\* The request whose upload the operation's worker reads.
UploadOf(o) == {r \in Requests : req[r].op = o /\ req[r].pc = "done" /\ req[r].env.new # {}}
\* Mutant: whatever was staged under the key is removed
MutDiscard(r) == [x \in Requests |-> IF req[x].key = req[r].key /\ spool[x] = "staged"
                                    THEN "none" ELSE spool[x]]
Discard(r) == [spool EXCEPT ![r] = IF @ = "staged" THEN "none" ELSE @]

\* The request goes on to step pc, working for operation o.
Proceed(r, pc, o) ==
    req' = [req EXCEPT ![r] = [pc |-> pc, key |-> req[r].key, env |-> req[r].env, op |-> o]]

\* spool_workspace_multipart: the files are on disk before the route goes on.
\* A remove has no upload.
Spool(r, k, e) ==
    /\ up = "serving" /\ req[r].pc = "idle" /\ loop = Nobody
    /\ WellFormed(e)
    /\ req' = [req EXCEPT ![r] = [pc |-> "spooled", key |-> k, env |-> e, op |-> Nobody]]
    /\ spool' = [spool EXCEPT ![r] = IF e.new = {} THEN "none" ELSE "staged"]
    /\ UNCHANGED <<disk, lease, loop, work, up, history, bounds>>

\* The coroutine calls reserve_and_admit_scientific and stays on the loop until
\* it returns: from here to End nothing else runs on the loop.
Enter(r) ==
    /\ up = "serving" /\ req[r].pc = "spooled" /\ loop = Nobody
    /\ loop' = r
    /\ Proceed(r, "waiting", req[r].op)
    /\ UNCHANGED <<disk, spool, lease, work, up, history, bounds>>

\* lease.acquire(blocking=True)
Acquire(r) ==
    /\ req[r].pc = "waiting" /\ lease = Nobody
    /\ lease' = r
    /\ Proceed(r, "holding", req[r].op)
    /\ UNCHANGED <<disk, spool, loop, work, up, history, bounds>>

\* The route's end: the lease and the loop are given back.
End(r, o) ==
    /\ Proceed(r, "done", o)
    /\ lease' = Nobody /\ loop' = Nobody

\* An error of any kind, or an operation that is already there: the spool of
\* this request is removed and no worker is started.
EndWithoutWorker(r) ==
    /\ End(r, Nobody)
    /\ spool' = Discard(r)
    /\ UNCHANGED <<work, up>>

SameEnvelope(o, r) == ops[o].env = req[r].env

\* find_by_idempotency with a matching envelope: a terminal or projected
\* operation is returned as it is.
ReturnExisting(r) ==
    /\ req[r].pc = "holding"
    /\ LET o == idem[req[r].key] IN
        /\ o # Nobody
        /\ SameEnvelope(o, r) /\ (ops[o].status \in TerminalStatuses \/ ops[o].frozen)
        /\ accepted' = accepted \cup {o}
    /\ EndWithoutWorker(r)
    /\ UNCHANGED <<disk, ran, launched, refused, bounds>>

\* idempotency_identity_mismatch; an operation that progressed without a
\* projection (admission_projection_ownership_ambiguous); a projection that
\* cannot be rebuilt because the revision moved.
RejectExisting(r) ==
    /\ req[r].pc = "holding"
    /\ LET o == idem[req[r].key] IN
        /\ o # Nobody
        /\ \/ ~SameEnvelope(o, r)
           \/ /\ ops[o].status \notin TerminalStatuses /\ ~ops[o].frozen
              /\ ops[o].status # "PENDING" \/ record.rev # ops[o].env.rev
    /\ EndWithoutWorker(r)
    /\ UNCHANGED <<disk, history, bounds>>

\* _resolve_missing_admission_projection of a PENDING reservation.
Repairable(o) == ops[o].status = "PENDING" /\ ~ops[o].frozen /\ record.rev = ops[o].env.rev

Repair(r) ==
    /\ req[r].pc = "holding"
    /\ LET o == idem[req[r].key] IN
        /\ o # Nobody /\ SameEnvelope(o, r) /\ Repairable(o)
        /\ Proceed(r, "freeze", o)
    /\ UNCHANGED <<disk, spool, lease, loop, work, up, history, bounds>>

\* A new key whose preconditions fail: stale If-Match, unknown source.
RejectNew(r) ==
    /\ req[r].pc = "holding" /\ idem[req[r].key] = Nobody
    /\ \/ record.rev # req[r].env.rev
       \/ req[r].env.old # Nobody /\ req[r].env.old \notin Active
    /\ EndWithoutWorker(r)
    /\ UNCHANGED <<disk, history, bounds>>

\* Mutant: the key is not looked up again
MutWriteRecord(r) ==
    /\ req[r].pc = "holding"
    /\ record.rev = req[r].env.rev
    /\ Fresh # {}
    /\ ops' = [ops EXCEPT ![new_operation_id] = [key |-> req[r].key, env |-> req[r].env,
                                                 status |-> "PENDING", frozen |-> FALSE]]
    /\ Proceed(r, "locator", new_operation_id)
    /\ UNCHANGED <<locator, idem, record, vaultObj, vaultMeta, spool, lease, loop, work, up,
                   history, bounds>>

\* ManagedOperationStore.reserve: the record first, then the two indexes.
WriteRecord(r) ==
    /\ req[r].pc = "holding" /\ idem[req[r].key] = Nobody
    /\ record.rev = req[r].env.rev
    /\ req[r].env.old = Nobody \/ req[r].env.old \in Active
    /\ Fresh # {}
    /\ ops' = [ops EXCEPT ![new_operation_id] = [key |-> req[r].key, env |-> req[r].env,
                                                 status |-> "PENDING", frozen |-> FALSE]]
    /\ Proceed(r, "locator", new_operation_id)
    /\ UNCHANGED <<locator, idem, record, vaultObj, vaultMeta, spool, lease, loop, work, up,
                   history, bounds>>

WriteLocator(r) ==
    /\ req[r].pc = "locator"
    /\ locator' = locator \cup {req[r].op}
    /\ Proceed(r, "index", req[r].op)
    /\ UNCHANGED <<ops, idem, record, vaultObj, vaultMeta, spool, lease, loop, work, up,
                   history, bounds>>

WriteIndex(r) ==
    /\ req[r].pc = "index"
    /\ idem' = [idem EXCEPT ![req[r].key] = req[r].op]
    /\ Proceed(r, "freeze", req[r].op)
    /\ UNCHANGED <<ops, locator, record, vaultObj, vaultMeta, spool, lease, loop, work, up,
                   history, bounds>>

\* _freeze_admission_observability: metrics and worklist in one write.
Freeze(r) ==
    /\ req[r].pc = "freeze"
    /\ ops' = [ops EXCEPT ![req[r].op].frozen = TRUE]
    /\ Proceed(r, "admit", req[r].op)
    /\ UNCHANGED <<locator, idem, record, vaultObj, vaultMeta, spool, lease, loop, work, up,
                   history, bounds>>

\* A failing write of the request: the error propagates, nothing is undone.
RequestFault(r) ==
    /\ req[r].pc \in {"holding", "locator", "index", "freeze"} /\ managedFaults < MaxManagedFaults
    /\ managedFaults' = managedFaults + 1
    /\ EndWithoutWorker(r)
    /\ UNCHANGED <<disk, history, managedCrashes, patches>>

\* _admit_scientific_handle: without capacity the operation is FAILED.
Overloaded(r) ==
    /\ req[r].pc = "admit" /\ Cardinality(InUse) >= IngestSlots
    /\ ops' = [ops EXCEPT ![req[r].op].status = "FAILED"]
    /\ EndWithoutWorker(r)
    /\ UNCHANGED <<locator, idem, record, vaultObj, vaultMeta, history, bounds>>

\* Admitted: lease.release, run_in_executor, 202.
Launch(r) ==
    /\ req[r].pc = "admit" /\ Cardinality(InUse) < IngestSlots
    /\ work' = [work EXCEPT ![req[r].op] = "queued"]
    /\ accepted' = accepted \cup {req[r].op}
    /\ launched' = launched \cup {req[r].op}
    /\ End(r, req[r].op)
    /\ UNCHANGED <<disk, spool, up, ran, refused, bounds>>

-----------------------------------------------------------------------------
(* The worker of operation o                                               *)

MoveStatus(o, s) == ops' = [ops EXCEPT ![o].status = IF s \in Legal(@) THEN s ELSE @]
\* Mutant: the lease is kept
MutFinish(o) == work' = [work EXCEPT ![o] = "ending"] /\ UNCHANGED lease
Finish(o) == /\ work' = [work EXCEPT ![o] = "ending"]
             /\ lease' = Nobody

\* The lease of the worker does not wait.
WorkerLease(o) ==
    /\ work[o] = "queued"
    /\ \/ /\ lease = Nobody
          /\ lease' = o
          /\ work' = [work EXCEPT ![o] = "leased"]
          /\ UNCHANGED refused
       \/ /\ lease # Nobody
          /\ work' = [work EXCEPT ![o] = "ending"]
          /\ refused' = refused \cup {o}
          /\ UNCHANGED lease
    /\ UNCHANGED <<disk, spool, loop, req, up, ran, accepted, launched, bounds>>

\* begin() recovers the operation by its key; a terminal one is returned.
Begin(o) ==
    /\ work[o] = "leased"
    /\ IF ops[o].status \in TerminalStatuses
       THEN Finish(o) /\ UNCHANGED <<ops, ran>>
       ELSE /\ MoveStatus(o, "PREPARING")
            /\ ran' = ran \cup {o}
            /\ work' = [work EXCEPT ![o] = "plan"]
            /\ UNCHANGED lease
    /\ UNCHANGED <<locator, idem, record, vaultObj, vaultMeta, spool, loop, req, up, accepted,
                   launched, refused, bounds>>

\* The desired set after the mutation.
Desired(o) == (Active \ {ops[o].env.old}) \cup ops[o].env.new

\* _plan_add refuses a document that is active; a replacement by one is found
\* when the desired set is spooled.
Conflicts(o) == ops[o].env.new \cap (Active \ {ops[o].env.old}) # {}

\* enforce_workspace_active_source_capacity and _bytes: a removal is exempt.
WithinCeilings(o) ==
    \/ ops[o].env.kind = "remove"
    \/ Cardinality(Desired(o)) <= SourceCeiling /\ Bytes(Desired(o)) <= ByteCeiling

Planned(o) ==
    /\ record.rev = ops[o].env.rev
    /\ ops[o].env.old = Nobody \/ ops[o].env.old \in Active
    /\ ops[o].env.kind = "add" => ~Conflicts(o)
    /\ Desired(o) # {} => WithinCeilings(o)

\* _fail_operation records FAILED; the worker's finally clause follows.
FailOperation(o) ==
    /\ MoveStatus(o, "FAILED")
    /\ Finish(o)

Plan(o) ==
    /\ work[o] = "plan"
    /\ IF Planned(o)
       THEN /\ work' = [work EXCEPT ![o] = "vault"]
            /\ UNCHANGED <<ops, lease>>
       ELSE FailOperation(o)
    /\ UNCHANGED <<locator, idem, record, vaultObj, vaultMeta, spool, loop, req, up, history, bounds>>

\* RawSourceVault.put_path: bytes of one document from the spool, linked in ...
PutObject(o) ==
    /\ work[o] = "vault"
    /\ \E d \in ops[o].env.new :
        /\ <<o, d>> \notin vaultObj
        /\ \E r \in UploadOf(o) : spool[r] = "staged"
        /\ vaultObj \cap ({o} \X Docs) \subseteq vaultMeta
        /\ vaultObj' = vaultObj \cup {<<o, d>>}
    /\ UNCHANGED <<ops, locator, idem, record, vaultMeta, spool, lease, loop, req, work, up,
                   history, bounds>>

\* ... and its metadata; when that write fails the object is unlinked.
PutMeta(o) ==
    /\ work[o] = "vault"
    /\ \E x \in vaultObj \ vaultMeta :
        /\ x[1] = o
        /\ vaultMeta' = vaultMeta \cup {x}
    /\ UNCHANGED <<ops, locator, idem, record, vaultObj, spool, lease, loop, req, work, up,
                   history, bounds>>

\* A failing write of the worker; put_path unlinks an object without metadata.
WorkerFault(o) ==
    /\ work[o] \in {"vault", "publish"} /\ managedFaults < MaxManagedFaults
    /\ managedFaults' = managedFaults + 1
    /\ FailOperation(o)
    /\ vaultObj' = {x \in vaultObj : x[1] = o => x \in vaultMeta}
    /\ UNCHANGED <<locator, idem, record, vaultMeta, spool, loop, req, up, history, managedCrashes, patches>>

\* The journal is begun and the operation RUNNING once every upload is vaulted.
Vaulted(o) == {o} \X ops[o].env.new \subseteq vaultMeta

BeginPublication(o) ==
    /\ work[o] = "vault" /\ Vaulted(o)
    /\ MoveStatus(o, "RUNNING")
    /\ work' = [work EXCEPT ![o] = "publish"]
    /\ UNCHANGED <<locator, idem, record, vaultObj, vaultMeta, spool, lease, loop, req, up,
                   history, bounds>>

\* materialize_desired_sources verifies every desired object, spool_local_files
\* refuses equal documents, the ingest may fail; then the mutation is published
\* and the operation SUCCEEDED.
Publish(o) ==
    /\ work[o] = "publish"
    /\ \/ /\ ~Conflicts(o)
          /\ \A d \in Active \ {ops[o].env.old} : <<record.src[d], d>> \in vaultMeta
          /\ record' = [rev |-> record.rev + 1,
                    src |-> [d \in Desired(o) |-> IF d \in ops[o].env.new THEN o ELSE record.src[d]]]
          /\ MoveStatus(o, "SUCCEEDED")
          /\ Finish(o)
       \/ /\ FailOperation(o)
          /\ UNCHANGED record
    /\ UNCHANGED <<locator, idem, vaultObj, vaultMeta, spool, loop, req, up, history, bounds>>

\* The finally clause: the handle is released and the spool removed.
WorkerExit(o) ==
    /\ work[o] = "ending"
    /\ work' = [work EXCEPT ![o] = "none"]
    /\ spool' = [r \in Requests |-> IF r \in UploadOf(o) THEN Discard(r)[r] ELSE spool[r]]
    /\ UNCHANGED <<disk, lease, loop, req, up, history, bounds>>

-----------------------------------------------------------------------------
(* The rest of the world                                                   *)

\* A metadata patch, in a thread of its own under the lease.
Patch ==
    /\ up = "serving" /\ lease = Nobody /\ patches < MaxPatches
    /\ patches' = patches + 1
    /\ record' = [record EXCEPT !.rev = @ + 1]
    /\ UNCHANGED <<ops, locator, idem, vaultObj, vaultMeta, spool, lease, loop, req, work, up,
                   history, managedCrashes, managedFaults>>

ManagedCrash ==
    /\ up # "down" /\ managedCrashes < MaxManagedCrashes
    /\ managedCrashes' = managedCrashes + 1
    /\ up' = "down" /\ lease' = Nobody /\ loop' = Nobody
    /\ work' = [o \in OpIds |-> "none"]
    /\ req' = [r \in Requests |->
                 IF req[r].pc \in {"idle", "done"} THEN req[r] ELSE [req[r] EXCEPT !.pc = "done"]]
    /\ UNCHANGED <<disk, spool, history, managedFaults, patches>>

\* recover_workspace_journals sets orphaned uploads aside ...
Quarantine ==
    /\ up = "down"
    /\ spool' = [r \in Requests |-> IF spool[r] = "staged" THEN "quarantined" ELSE spool[r]]
    /\ up' = "starting"
    /\ UNCHANGED <<disk, lease, loop, req, work, history, bounds>>

\* ... and interrupt_all_nonterminal ends what has no worker any more.

InterruptOne(o) ==
    /\ up = "starting" /\ ops[o] # Nobody /\ ops[o].status \notin TerminalStatuses
    /\ MoveStatus(o, "INTERRUPTED")
    /\ UNCHANGED <<locator, idem, record, vaultObj, vaultMeta, spool, lease, loop, req, work, up,
                   history, bounds>>

ManagedReady ==
    /\ up = "starting"
    /\ \A o \in OpIds : ops[o] # Nobody => ops[o].status \in TerminalStatuses
    /\ up' = "serving"
    /\ UNCHANGED <<disk, spool, lease, loop, req, work, history, bounds>>

RequestStep(r) ==
    \/ Acquire(r) \/ ReturnExisting(r) \/ RejectExisting(r) \/ Repair(r) \/ RejectNew(r)
    \/ WriteRecord(r) \/ WriteLocator(r) \/ WriteIndex(r) \/ Freeze(r)
    \/ Overloaded(r) \/ Launch(r)

WorkerStep(o) ==
    \/ WorkerLease(o) \/ Begin(o) \/ Plan(o) \/ PutObject(o) \/ PutMeta(o)
    \/ BeginPublication(o) \/ Publish(o) \/ WorkerExit(o)

StartupStep == Quarantine \/ ManagedReady \/ \E o \in OpIds : InterruptOne(o)

AskedRevisions == 1 .. record.rev
ManagedNext ==
    \/ \E r \in Requests : \/ RequestStep(r) \/ Enter(r) \/ RequestFault(r)
                           \/ \E k \in Keys, kind \in Kinds, new \in SUBSET Docs,
                                 old \in Docs \cup {Nobody}, rev \in AskedRevisions :
                                Spool(r, k, [kind |-> kind, new |-> new, old |-> old, rev |-> rev])
    \/ \E o \in OpIds : WorkerStep(o) \/ WorkerFault(o)
    \/ Patch \/ ManagedCrash \/ StartupStep

\* The coroutine on the loop, the executor's threads and the startup go on.
ManagedFairness ==
    /\ \A r \in Requests : WF_managedVars(RequestStep(r))
    /\ \A o \in OpIds : WF_managedVars(WorkerStep(o))
    /\ WF_managedVars(StartupStep)

ManagedSpec == ManagedInit /\ [][ManagedNext]_managedVars /\ ManagedFairness

-----------------------------------------------------------------------------
(* Properties                                                              *)

\* A key names one mutation: whatever crashes and retries leave behind, at most
\* one operation of a key is ever begun, and the index leads to it.
OneRunPerKey ==
    \A o, p \in ran : /\ ops[o].key = ops[p].key => o = p
                      /\ idem[ops[o].key] = o

\* The indexes never point at nothing, and an operation a client was told of is
\* found by its id and by its key after any crash.
IndexNeverDangles ==
    /\ \A k \in Keys : idem[k] # Nobody => /\ ops[idem[k]] # Nobody
                                           /\ ops[idem[k]].key = k
                                           /\ idem[k] \in locator
    /\ \A o \in locator : ops[o] # Nobody
    /\ \A o \in accepted : o \in locator /\ idem[ops[o].key] = o

\* A worker belongs to an operation a client was told of, with its worklist
\* frozen, and between begin and its end it alone has the workspace.
WorkersAreAdmitted ==
    \A o \in InUse : /\ o \in accepted /\ ops[o].frozen
                     /\ work[o] \in {"plan", "vault", "publish"} => lease = o

\* The bytes of an accepted upload are not lost while the operation may still
\* need them: they are in the spool, in quarantine after a crash, or in the vault.
AcceptedBytesKept ==
    \A o \in launched \ refused :
        ops[o].status \in {"PENDING", "PREPARING", "RUNNING", "INTERRUPTED"} =>
            \/ Vaulted(o)
            \/ \E r \in UploadOf(o) : spool[r] # "none"

\* What the workspace serves can be rebuilt: every active document has its bytes
\* and metadata in the vault.
ActiveIsVaulted ==
    \A d \in Active : <<record.src[d], d>> \in vaultObj \cap vaultMeta

\* No operation ends twice: a terminal status never changes.
TerminalStays ==
    [][\A o \in OpIds : (ops[o] # Nobody /\ ops[o].status \in TerminalStatuses)
                           => ops'[o] = ops[o]]_managedVars

\* The blocking acquire on the event loop always ends: whoever holds the lease
\* does not need the loop to go on.
LoopIsFreed == \A r \in Requests : (loop = r) ~> (loop # r)

\* Admission is exact: one run for a key, indexes that lead to every operation a
\* client was told of, workers for those only.
AdmissionIsExact ==
    ManagedTypeOK /\ OneRunPerKey /\ IndexNeverDangles /\ WorkersAreAdmitted

\* Bytes are never lost: neither those of an upload that was accepted nor those
\* of a document the workspace serves.
BytesAreKept == AcceptedBytesKept /\ ActiveIsVaulted
=============================================================================
