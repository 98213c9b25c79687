------------------------- MODULE OperationRegistry -------------------------
(***************************************************************************)
(* The process runtime: admission of operations under capacity gates, the  *)
(* per-operation cancellation handle, the corpus mutation lease, and the   *)
(* start / drain / finalize life of the runtime that owns the shared       *)
(* resources.  Sources: app/operations.py, app/capacity.py,                *)
(* app/runtime.py, app/leases.py, api/workers.py, api/ingest.py,           *)
(* api/query.py and the control skeleton of app/ingest.py.                 *)
(*                                                                         *)
(* An operation is a request slot: after its handle is released the slot   *)
(* may carry a new request with a fresh handle.  Every request targets the *)
(* same corpus, so that the corpus lease is contended.                     *)
(***************************************************************************)
EXTENDS Naturals, FiniteSets

CONSTANTS
    Query,          \* slots of POST /v1/query requests
    Ingest,         \* slots of synchronous POST /v1/ingest requests
    Managed,        \* slots of detached workspace mutations (202)
    Bootstrap,      \* slots of Gold Lab baseline bootstraps
    MaxConcurrent   \* capacity of each class: settings.api.max_concurrent_*

Ops == Query \cup Ingest \cup Managed \cup Bootstrap
Classes == {"query", "ingest", "bootstrap"}

ASSUME SlotsAssumption ==
    /\ IsFiniteSet(Ops)
    /\ Query \cap (Ingest \cup Managed \cup Bootstrap) = {}
    /\ Ingest \cap (Managed \cup Bootstrap) = {}
    /\ Managed \cap Bootstrap = {}

\* CapacityGate.__post_init__ rejects max_concurrent < 1.
ASSUME CapacityAssumption == MaxConcurrent \in [Classes -> Nat \ {0}]

NoOp == "no_op"
ASSUME NoOpAssumption == NoOp \notin Ops

VARIABLES
    active,         \* OperationRegistry._active
    held,           \* CapacityGate._held of each class
    draining,       \* OperationRegistry._draining
    graceExhausted, \* OperationRegistry.grace_exhausted
    lifecycle,      \* OperationHandle.ingest_lifecycle
    reason,         \* OperationHandle.cancel_reason (cancel_event: not NONE)
    expired,        \* has the handle's monotonic deadline passed?
    pc,             \* where the request thread / worker of the slot is
    outcome,        \* how the slot's last work ended
    lease,          \* owner of the corpus mutation lease
    runtime,        \* ApplicationRuntime.state
    resources,      \* ApplicationRuntime.resources is not None
    drainPc,        \* where the drain is
    toCancel        \* handles snapshotted by signal_shutdown, not yet signalled

registryVars == <<active, held, draining, graceExhausted>>
handleVars == <<lifecycle, reason, expired>>
workerVars == <<pc, outcome, lease>>
runtimeVars == <<runtime, resources, drainPc, toCancel>>
vars == <<registryVars, handleVars, workerVars, runtimeVars>>

Lifecycles == {"NONE", "PRE_LEASE", "POST_LEASE", "PUBLICATION", "TERMINAL"}
Reasons == {"NONE", "CLIENT_DISCONNECT", "SHUTDOWN"}
Outcomes == {"none", "ok", "aborted", "failed"}
RuntimeStates ==
    {"NOT_STARTED", "STARTING", "READY", "NOT_READY", "DRAINING", "STOPPED"}
Steps == {"new", "checked", "admitted", "validated", "leased", "staging",
          "publishing", "unwinding", "exited"}
DrainSteps == {"idle", "signalling", "waiting", "closing"}

\* Ingest and managed ingest share one capacity gate.
Class(op) == CASE op \in Query -> "query"
               [] op \in Ingest \cup Managed -> "ingest"
               [] OTHER -> "bootstrap"

InClass(c) == {op \in active : Class(op) = c}

Init ==
    /\ active = {}
    /\ held = [c \in Classes |-> 0]
    /\ draining = FALSE
    /\ graceExhausted = FALSE
    /\ lifecycle = [op \in Ops |-> "NONE"]
    /\ reason = [op \in Ops |-> "NONE"]
    /\ expired = [op \in Ops |-> FALSE]
    /\ pc = [op \in Ops |-> "new"]
    /\ outcome = [op \in Ops |-> "none"]
    /\ lease = NoOp
    /\ runtime = "NOT_STARTED"
    /\ resources = FALSE
    /\ drainPc = "idle"
    /\ toCancel = {}

-----------------------------------------------------------------------------
(* The handle: signal_cancel, checkpoint, complete_lease_acquire and         *)
(* enter_publication each run under the handle's own lock.                   *)

\* Mutant: a shutdown is accepted inside the publication critical section.
SignalIgnoredLess(op, r) ==
    \/ r = "CLIENT_DISCONNECT" /\ op \in Managed \cup Bootstrap
    \/ /\ r = "CLIENT_DISCONNECT" /\ op \in Ingest
       /\ lifecycle[op] \in {"POST_LEASE", "PUBLICATION", "TERMINAL"}

SignalIgnored(op, r) ==
    \/ r = "SHUTDOWN" /\ op \notin Query /\ lifecycle[op] = "PUBLICATION"
    \/ r = "CLIENT_DISCONNECT" /\ op \in Managed \cup Bootstrap
    \/ /\ r = "CLIENT_DISCONNECT" /\ op \in Ingest
       /\ lifecycle[op] \in {"POST_LEASE", "PUBLICATION", "TERMINAL"}

\* The first accepted reason wins.
SignalCancel(op, r) ==
    reason' = IF SignalIgnored(op, r) \/ reason[op] # "NONE"
              THEN reason
              ELSE [reason EXCEPT ![op] = r]

CheckpointRaises(op) ==
    CASE op \in Query -> reason[op] # "NONE" \/ expired[op]
      [] op \in Ingest ->
            IF reason[op] = "CLIENT_DISCONNECT"
            THEN lifecycle[op] = "PRE_LEASE"
            ELSE /\ reason[op] = "SHUTDOWN" \/ expired[op]
                 /\ lifecycle[op] # "PUBLICATION"
      [] OTHER -> reason[op] = "SHUTDOWN" /\ lifecycle[op] # "PUBLICATION"

LeaseAcquireRaises(op) ==
    /\ lifecycle[op] = "PRE_LEASE"
    /\ \/ reason[op] # "NONE"
       \/ op \in Ingest /\ expired[op]

EnterPublicationRaises(op) ==
    /\ lifecycle[op] \notin {"TERMINAL", "PUBLICATION"}
    /\ \/ reason[op] = "SHUTDOWN"
       \/ op \in Ingest /\ expired[op]

\* complete_lease_acquire and enter_publication when they do not raise.
CompleteLeaseAcquire(op) ==
    lifecycle' = IF lifecycle[op] = "PRE_LEASE"
                 THEN [lifecycle EXCEPT ![op] = "POST_LEASE"]
                 ELSE lifecycle

EnterPublication(op) ==
    lifecycle' = IF lifecycle[op] = "TERMINAL"
                 THEN lifecycle
                 ELSE [lifecycle EXCEPT ![op] = "PUBLICATION"]

-----------------------------------------------------------------------------
(* Request thread: readiness check, admission, release.                      *)

IsReady == runtime = "READY" /\ ~draining

\* require_ready() at the route.  It is not atomic with the admission.
CheckReady(op) ==
    /\ pc[op] = "new"
    /\ IsReady
    /\ pc' = [pc EXCEPT ![op] = "checked"]
    /\ UNCHANGED <<registryVars, handleVars, outcome, lease, runtimeVars>>

\* Mutant: admission relies on the readiness check of the route.
AdmitUnchecked(op) ==
    /\ pc[op] = "checked"
    /\ held[Class(op)] < MaxConcurrent[Class(op)]
    /\ held' = [held EXCEPT ![Class(op)] = @ + 1]
    /\ active' = active \cup {op}
    /\ lifecycle' = [lifecycle EXCEPT
                        ![op] = IF op \in Query THEN "NONE" ELSE "PRE_LEASE"]
    /\ pc' = [pc EXCEPT ![op] = "admitted"]
    /\ UNCHANGED <<draining, graceExhausted, reason, expired, outcome, lease,
                   runtimeVars>>

\* OperationRegistry._admit: one critical section under the drain lock.
Admit(op) ==
    /\ pc[op] = "checked"
    /\ ~draining
    /\ held[Class(op)] < MaxConcurrent[Class(op)]
    /\ held' = [held EXCEPT ![Class(op)] = @ + 1]
    /\ active' = active \cup {op}
    /\ lifecycle' = [lifecycle EXCEPT
                        ![op] = IF op \in Query THEN "NONE" ELSE "PRE_LEASE"]
    /\ pc' = [pc EXCEPT ![op] = "admitted"]
    /\ UNCHANGED <<draining, graceExhausted, reason, expired, outcome, lease,
                   runtimeVars>>

\* Mutant: a rejected request runs the release of its finally clause.
RejectReleases(op) ==
    /\ pc[op] = "checked"
    /\ draining \/ held[Class(op)] >= MaxConcurrent[Class(op)]
    /\ held' = [held EXCEPT ![Class(op)] = @ - 1]
    /\ pc' = [pc EXCEPT ![op] = "new"]
    /\ UNCHANGED <<active, draining, graceExhausted, handleVars, outcome, lease,
                   runtimeVars>>

\* RUNTIME_NOT_READY or SERVICE_OVERLOADED: nothing was acquired.
Reject(op) ==
    /\ pc[op] = "checked"
    /\ draining \/ held[Class(op)] >= MaxConcurrent[Class(op)]
    /\ pc' = [pc EXCEPT ![op] = "new"]
    /\ UNCHANGED <<registryVars, handleVars, outcome, lease, runtimeVars>>

\* OperationRegistry.release, reached from the route's finally only after the
\* worker has terminated.  The handle is garbage afterwards: its fields take the
\* values the slot's next handle starts from.
Release(op) ==
    /\ pc[op] = "exited"
    /\ active' = active \ {op}
    /\ held' = [held EXCEPT ![Class(op)] = @ - 1]
    /\ lifecycle' = IF op \in Query
                    THEN lifecycle
                    ELSE [lifecycle EXCEPT ![op] = "TERMINAL"]
    /\ reason' = [reason EXCEPT ![op] = "NONE"]
    /\ expired' = [expired EXCEPT ![op] = FALSE]
    /\ outcome' = [outcome EXCEPT ![op] = "none"]
    /\ pc' = [pc EXCEPT ![op] = "new"]
    /\ UNCHANGED <<draining, graceExhausted, lease, runtimeVars>>

-----------------------------------------------------------------------------
(* Worker thread.                                                            *)

Goto(op, from, to) ==
    /\ pc[op] = from
    /\ pc' = [pc EXCEPT ![op] = to]

\* The worker ends with an error; its finally clauses still have to run.
Unwinds(op, how) ==
    /\ pc' = [pc EXCEPT ![op] = "unwinding"]
    /\ outcome' = [outcome EXCEPT ![op] = how]
    /\ UNCHANGED <<registryVars, handleVars, lease, runtimeVars>>

\* Every worker but the bootstrap's re-checks readiness before it does anything.
StartWorker(op) ==
    /\ op \notin Bootstrap
    /\ IsReady
    /\ op \in Query \cup Ingest => ~CheckpointRaises(op)
    /\ Goto(op, "admitted", "validated")
    /\ UNCHANGED <<registryVars, handleVars, outcome, lease, runtimeVars>>

\* Mutant: the lease is taken over from whoever holds it.
AcquireCorpusLeaseOver(op) ==
    /\ op \in Ingest \cup Managed
    /\ op \in Ingest => ~CheckpointRaises(op)
    /\ Goto(op, "validated", "leased")
    /\ lease' = op
    /\ UNCHANGED <<registryVars, handleVars, outcome, runtimeVars>>

\* The synchronous ingest passes a checkpoint before it takes the corpus lease;
\* the managed mutation takes the lease before it enters the ingest.
AcquireCorpusLease(op) ==
    /\ op \in Ingest \cup Managed
    /\ op \in Ingest => ~CheckpointRaises(op)
    /\ lease = NoOp
    /\ Goto(op, "validated", "leased")
    /\ lease' = op
    /\ UNCHANGED <<registryVars, handleVars, outcome, runtimeVars>>

\* PRE_LEASE -> POST_LEASE; only then may a candidate be written.
BeginCandidate(op) ==
    /\ op \in Managed => IsReady /\ ~CheckpointRaises(op)
    /\ ~LeaseAcquireRaises(op)
    /\ IF op \in Bootstrap
       THEN Goto(op, "admitted", "staging")
       ELSE Goto(op, "leased", "staging")
    /\ CompleteLeaseAcquire(op)
    /\ UNCHANGED <<registryVars, reason, expired, outcome, lease, runtimeVars>>

\* Final checkpoint passed, then the gate into the publication critical section.
BeginPublication(op) ==
    /\ op \notin Bootstrap => ~CheckpointRaises(op)
    /\ ~EnterPublicationRaises(op)
    /\ Goto(op, "staging", "publishing")
    /\ EnterPublication(op)
    /\ UNCHANGED <<registryVars, reason, expired, outcome, lease, runtimeVars>>

\* Removing the final source publishes nothing: it enters the critical section
\* straight from PRE_LEASE to retire the publication.
BeginRetirement(op) ==
    /\ op \in Managed
    /\ ~CheckpointRaises(op)
    /\ ~EnterPublicationRaises(op)
    /\ Goto(op, "leased", "publishing")
    /\ EnterPublication(op)
    /\ UNCHANGED <<registryVars, reason, expired, outcome, lease, runtimeVars>>

Publish(op) ==
    /\ Goto(op, "publishing", "unwinding")
    /\ outcome' = [outcome EXCEPT ![op] = "ok"]
    /\ UNCHANGED <<registryVars, handleVars, lease, runtimeVars>>

FinishQuery(op) ==
    /\ op \in Query
    /\ ~CheckpointRaises(op)
    /\ Goto(op, "validated", "unwinding")
    /\ outcome' = [outcome EXCEPT ![op] = "ok"]
    /\ UNCHANGED <<registryVars, handleVars, lease, runtimeVars>>

\* A checkpoint or one of the two lifecycle gates raises.  A managed mutation
\* meets its first checkpoint with the corpus lease held.
Abort(op) ==
    /\ \/ /\ pc[op] \in {"admitted", "validated"} /\ op \in Query \cup Ingest
          /\ CheckpointRaises(op)
       \/ /\ pc[op] = "leased"
          /\ LeaseAcquireRaises(op) \/ (op \in Managed /\ CheckpointRaises(op))
       \/ /\ pc[op] = "admitted" /\ op \in Bootstrap
          /\ LeaseAcquireRaises(op)
       \/ /\ pc[op] = "staging"
          /\ CheckpointRaises(op) \/ EnterPublicationRaises(op)
    /\ Unwinds(op, "aborted")

\* Everything else that ends the work early: not ready any more, corpus busy,
\* a failing stage, a publication fault.
Fail(op) ==
    /\ pc[op] \in {"admitted", "validated", "leased", "staging", "publishing"}
    /\ Unwinds(op, "failed")

\* The finally clauses of the worker: release the corpus lease if it was taken.
Unwind(op) ==
    /\ Goto(op, "unwinding", "exited")
    /\ lease' = IF lease = op THEN NoOp ELSE lease
    /\ UNCHANGED <<registryVars, handleVars, outcome, runtimeVars>>

-----------------------------------------------------------------------------
(* The client and the clock.                                                 *)

\* The disconnect watcher of run_owned_worker; only the two attached kinds of
\* request have one.
Disconnect(op) ==
    /\ op \in active \cap (Query \cup Ingest)
    /\ SignalCancel(op, "CLIENT_DISCONNECT")
    /\ UNCHANGED <<registryVars, lifecycle, expired, workerVars, runtimeVars>>

DeadlinePasses(op) ==
    /\ op \in active \cap (Query \cup Ingest)
    /\ ~expired[op]
    /\ expired' = [expired EXCEPT ![op] = TRUE]
    /\ UNCHANGED <<registryVars, lifecycle, reason, workerVars, runtimeVars>>

-----------------------------------------------------------------------------
(* ApplicationRuntime: start, drain, finalize.                               *)

\* prepare_for_start refuses while operations are active, else reopens the
\* registry; only then does the state become STARTING.  The lifespan starts a
\* runtime that has not run yet or was stopped by its drain.
StartBegin ==
    /\ runtime \in {"NOT_STARTED", "STOPPED"}
    /\ active = {}
    /\ draining' = FALSE
    /\ graceExhausted' = FALSE
    /\ runtime' = "STARTING"
    /\ UNCHANGED <<active, held, handleVars, workerVars, resources, drainPc,
                   toCancel>>

StartReady ==
    /\ runtime = "STARTING"
    /\ runtime' = "READY"
    /\ resources' = TRUE
    /\ UNCHANGED <<registryVars, handleVars, workerVars, drainPc, toCancel>>

\* Any startup fault fails closed.
StartFail ==
    /\ runtime = "STARTING"
    /\ runtime' = "NOT_READY"
    /\ resources' = FALSE
    /\ UNCHANGED <<registryVars, handleVars, workerVars, drainPc, toCancel>>

\* signal_shutdown: close admission and snapshot the handles in one critical
\* section; the handles are signalled afterwards, outside the registry lock.
BeginDrain ==
    /\ runtime \in {"READY", "NOT_READY"}
    /\ drainPc = "idle"
    /\ draining' = TRUE
    /\ toCancel' = active
    /\ drainPc' = "signalling"
    /\ UNCHANGED <<active, held, graceExhausted, handleVars, workerVars,
                   runtime, resources>>

\* Signalling a handle that was released meanwhile has no effect.
SignalShutdown(op) ==
    /\ drainPc = "signalling"
    /\ op \in toCancel
    /\ toCancel' = toCancel \ {op}
    /\ IF op \in active THEN SignalCancel(op, "SHUTDOWN") ELSE UNCHANGED reason
    /\ UNCHANGED <<registryVars, lifecycle, expired, workerVars, runtime,
                   resources, drainPc>>

EnterDraining ==
    /\ drainPc = "signalling"
    /\ toCancel = {}
    /\ runtime' = "DRAINING"
    /\ drainPc' = "waiting"
    /\ UNCHANGED <<registryVars, handleVars, workerVars, resources, toCancel>>

\* Mutant: the drain is called off when the grace period is exhausted.
GraceExpiresReopens ==
    /\ drainPc = "waiting"
    /\ active # {}
    /\ ~graceExhausted
    /\ graceExhausted' = TRUE
    /\ draining' = FALSE
    /\ runtime' = "READY"
    /\ drainPc' = "idle"
    /\ UNCHANGED <<active, held, handleVars, workerVars, resources, toCancel>>

\* wait_until_idle timed out: remember it and go on waiting.
GraceExpires ==
    /\ drainPc = "waiting"
    /\ active # {}
    /\ ~graceExhausted
    /\ graceExhausted' = TRUE
    /\ UNCHANGED <<active, held, draining, handleVars, workerVars, runtimeVars>>

\* Mutant: the resources are closed whoever is still working.
FinalizeUnchecked ==
    /\ drainPc = "waiting"
    /\ drainPc' = "closing"
    /\ UNCHANGED <<registryVars, handleVars, workerVars, runtime, resources,
                   toCancel>>

\* finalize_shutdown: the active count is read first, the close follows.
FinalizeCheck ==
    /\ drainPc = "waiting"
    /\ active = {}
    /\ drainPc' = "closing"
    /\ UNCHANGED <<registryVars, handleVars, workerVars, runtime, resources,
                   toCancel>>

FinalizeClose ==
    /\ drainPc = "closing"
    /\ resources' = FALSE
    /\ runtime' = "STOPPED"
    /\ drainPc' = "idle"
    /\ UNCHANGED <<registryVars, handleVars, workerVars, toCancel>>

-----------------------------------------------------------------------------

WorkerStep(op) ==
    \/ StartWorker(op) \/ AcquireCorpusLease(op) \/ BeginCandidate(op)
    \/ BeginPublication(op) \/ BeginRetirement(op) \/ Publish(op)
    \/ FinishQuery(op) \/ Abort(op) \/ Fail(op) \/ Unwind(op) \/ Release(op)

RequestStep(op) == CheckReady(op) \/ Admit(op) \/ Reject(op)

DrainStep ==
    \/ \E op \in Ops : SignalShutdown(op)
    \/ EnterDraining \/ GraceExpires \/ FinalizeCheck \/ FinalizeClose

Next ==
    \/ \E op \in Ops : \/ RequestStep(op) \/ WorkerStep(op)
                       \/ Disconnect(op) \/ DeadlinePasses(op)
    \/ StartBegin \/ StartReady \/ StartFail \/ BeginDrain \/ DrainStep

\* Threads that can run do run: workers are ordinary threads, and the drain
\* is awaited by the lifespan.  Requests, clients and restarts owe nothing.
Fairness ==
    /\ \A op \in Ops : WF_vars(WorkerStep(op))
    /\ WF_vars(DrainStep)

Spec == Init /\ [][Next]_vars /\ Fairness

-----------------------------------------------------------------------------
(* Properties.                                                               *)

\* Registry, handles, workers and runtime keep their types.
TypeOK ==
    /\ active \subseteq Ops
    /\ held \in [Classes -> Nat]
    /\ draining \in BOOLEAN
    /\ graceExhausted \in BOOLEAN
    /\ lifecycle \in [Ops -> Lifecycles]
    /\ reason \in [Ops -> Reasons]
    /\ expired \in [Ops -> BOOLEAN]
    /\ pc \in [Ops -> Steps]
    /\ outcome \in [Ops -> Outcomes]
    /\ lease \in Ops \cup {NoOp}
    /\ runtime \in RuntimeStates
    /\ resources \in BOOLEAN
    /\ drainPc \in DrainSteps
    /\ toCancel \subseteq Ops

\* No slot of a capacity gate is leaked or released twice: what a gate counts
\* is exactly the live operations of its class, never above the limit, whatever
\* mixture of rejections, aborts, faults and releases came before.
CapacityExact ==
    \A c \in Classes : /\ held[c] = Cardinality(InClass(c))
                       /\ held[c] <= MaxConcurrent[c]

\* An operation inside the publication critical section has accepted no cancel
\* (a signal racing enter_publication either aborts it before, or is ignored),
\* and a synchronous ingest past its lease carries no disconnect that would
\* mask the drain's shutdown signal (first reason wins).
PublicationIsUncancelled ==
    \A op \in Ops \ Query :
        /\ lifecycle[op] = "PUBLICATION" => reason[op] = "NONE"
        /\ lifecycle[op] = "POST_LEASE" => reason[op] # "CLIENT_DISCONNECT"

\* Nothing escapes the drain: once the handles of the snapshot are signalled,
\* every live operation has either accepted a cancel or is past the point where
\* a cancel may stop it.  In particular no operation was admitted after the
\* snapshot by a request that had passed require_ready before it.
NothingEscapesDrain ==
    drainPc \in {"waiting", "closing"} =>
        \A op \in active : \/ reason[op] # "NONE"
                           \/ lifecycle[op] = "PUBLICATION"

\* The shared resources are there for every worker that re-checked readiness,
\* as long as it works: finalize never closes them under a live worker, and a
\* request that slips into a restarting runtime does not start to work.
ResourcesUnderWork ==
    \A op \in Ops \ Bootstrap :
        pc[op] \in {"validated", "leased", "staging", "publishing"} => resources

\* One writer per corpus: whoever builds or publishes holds the lease, and a
\* slot that is not working holds nothing.
LeaseOwnerWorks ==
    /\ \A op \in Ingest \cup Managed :
            pc[op] \in {"leased", "staging", "publishing"} => lease = op
    /\ lease # NoOp =>
            pc[lease] \in {"leased", "staging", "publishing", "unwinding"}

\* A drain that began ends in STOPPED: workers finish or abort, and the wait
\* does not give up when the grace period is exhausted.
DrainCompletes == (drainPc = "signalling") ~> (runtime = "STOPPED")

=============================================================================
