-------------------------- MODULE EmbeddingProvision -------------------------
(***************************************************************************)
(* Installing the embedding model (dense/embedding_bundle_provision): a    *)
(* transaction under the model root's lock publishes immutable instance    *)
(* directories and then selects them by replacing one bundle manifest,     *)
(* which it puts back when anything fails after the replacement.           *)
(***************************************************************************)
EXTENDS Integers, Sequences, FiniteSets, FiniteSetsExt

CONSTANTS
  Writers,       \* provisioning processes
  MaxInstances,  \* bound on instance directories
  MaxFaults      \* bound on crashes and damaged directories

ASSUME ProvisionAssumption == MaxInstances \in Nat /\ MaxFaults \in Nat

VARIABLES
  bundle,    \* the manifest as read now; synced: as it survives a power loss
  synced,
  legacy,    \* the torch files in the model root itself: absent, ready, invalid
  instances, \* the instance directories: id, representation, intact
  tx,        \* each writer's transaction
  faults

provisionVars == <<bundle, synced, legacy, instances, tx, faults>>

Representations == {"torch_st_v1", "onnx_fp32_v1"}
NoTx == [at |-> "rest"]

(* A manifest: no file, one that does not parse, or a pointer per             *)
(* representation: none (0), the model root (-1) or an instance.              *)
NoPointers == [r \in Representations |-> 0]
Manifest(kind, ptr) == [kind |-> kind, ptr |-> ptr]

(* --- inspect_representation ------------------------------------------------ *)

InstanceReadiness(rep, ptr) ==
  IF ptr = -1 THEN legacy
  ELSE IF \E i \in instances : i.id = ptr /\ i.rep = rep
       THEN IF \E i \in instances : i.id = ptr /\ i.intact THEN "ready" ELSE "invalid"
       ELSE "absent"
ByPointer(rep) == bundle.kind = "present" /\ bundle.ptr[rep] # 0
Inspect(rep) ==
  IF bundle.kind = "malformed" THEN "invalid"
  ELSE IF ByPointer(rep) THEN InstanceReadiness(rep, bundle.ptr[rep])
  ELSE IF rep = "torch_st_v1" THEN legacy ELSE "absent"
LegacyTorchReady == bundle.kind # "malformed" /\ ~ByPointer("torch_st_v1") /\ legacy = "ready"

(* --- _run_transaction ------------------------------------------------------ *)

NeedBundle(requested, force) ==
  \/ "onnx_fp32_v1" \in requested \/ bundle.kind = "present"
  \/ \E r \in requested : Inspect(r) # "ready" \/ force

PlanOf(rep, requested, force) ==
  CASE Inspect(rep) = "ready" /\ ~force ->
         IF rep = "torch_st_v1" /\ NeedBundle(requested, force) /\ LegacyTorchReady THEN "adopt_legacy" ELSE "preserve"
    [] Inspect(rep) = "absent" -> "install"
    [] OTHER -> "replace"

(* Beside what is requested, a torch in the model root is adopted with ONNX.  *)
Plans(requested, force) ==
  LET adopts == "onnx_fp32_v1" \in requested /\ bundle.kind = "absent" /\ LegacyTorchReady
  IN [r \in requested \cup {x \in {"torch_st_v1"} : adopts} |->
        IF r \in requested THEN PlanOf(r, requested, force) ELSE "adopt_legacy"]
ToInstall(plans) == {r \in DOMAIN plans : plans[r] \in {"install", "replace"}}

(* The pointers the transaction starts from: those of the previous manifest.  *)
StartPointers(plans) ==
  [r \in Representations |->
     IF r \in DOMAIN plans /\ plans[r] = "adopt_legacy" THEN -1
     ELSE IF bundle.kind = "present" THEN bundle.ptr[r] ELSE 0]

Unlocked == \A w \in Writers : tx[w].at = "rest"

(* Under the lock: inspect, plan, and go on only when there is something to   *)
(* do and what it takes is there.  Otherwise nothing is touched.              *)
BeginTransaction(w, requested, force, source) ==
  LET plans == Plans(requested, force) IN
  /\ Unlocked /\ bundle.kind # "malformed" /\ \E r \in DOMAIN plans : plans[r] # "preserve"
  /\ "onnx_fp32_v1" \in ToInstall(plans) => source
  /\ ~(requested = {"torch_st_v1"} /\ ~force /\ bundle.kind = "absent" /\ Inspect("torch_st_v1") = "ready")
  /\ tx' = [tx EXCEPT ![w] =
       [at |-> "staging", requested |-> requested, todo |-> ToInstall(plans), previous |-> bundle,
        ptr |-> StartPointers(plans)]]
  /\ UNCHANGED <<bundle, synced, legacy, instances, faults>>

NextId == Cardinality(instances) + 1

(* A name of its own: an instance is never reused or removed. *)
WithInstance(rep) == instances \cup {[id |-> NextId, rep |-> rep, intact |-> TRUE]}

(* Download or copy into staging, digests checked, files synced; then rename. *)
InstallInstance(w, rep) ==
  LET t == tx[w] IN
  /\ t.at = "staging" /\ rep \in t.todo /\ NextId <= MaxInstances
  /\ instances' = WithInstance(rep)
  /\ tx' = [tx EXCEPT ![w] = [t EXCEPT !.todo = t.todo \ {rep}, !.ptr = [t.ptr EXCEPT ![rep] = NextId]]]
  /\ UNCHANGED <<bundle, synced, legacy, faults>>

ReplaceBundle(w) ==
  /\ tx[w].at = "staging" /\ tx[w].todo = {}
  /\ bundle' = Manifest("present", tx[w].ptr) /\ tx' = [tx EXCEPT ![w].at = "replaced"]
  /\ UNCHANGED <<synced, legacy, instances, faults>>
SyncBundle(w) ==
  /\ tx[w].at = "replaced" /\ synced' = bundle /\ tx' = [tx EXCEPT ![w].at = "durable"]
  /\ UNCHANGED <<bundle, legacy, instances, faults>>

(* Every requested representation is inspected once more. *)
ValidateSelection(w) ==
  /\ tx[w].at = "durable"
  /\ tx' = [tx EXCEPT ![w] = IF \A r \in tx[w].requested : Inspect(r) = "ready" THEN NoTx ELSE [tx[w] EXCEPT !.at = "restoring"]]
  /\ UNCHANGED <<bundle, synced, legacy, instances, faults>>

(* Mutant: only a publication that was confirmed is taken back. *)
ConfirmedOnly(at) == at = "durable"
selection_may_be_live(at) == at \in {"replaced", "durable"}
TransactionFails(w) ==
  /\ tx[w].at \in {"staging", "replaced", "durable"}
  /\ tx' = [tx EXCEPT ![w] = IF selection_may_be_live(tx[w].at) THEN [tx[w] EXCEPT !.at = "restoring"] ELSE NoTx]
  /\ UNCHANGED <<bundle, synced, legacy, instances, faults>>

(* The bytes that were there, or no file. *)
RestoreBundle(w) ==
  /\ tx[w].at = "restoring" /\ bundle' = tx[w].previous /\ tx' = [tx EXCEPT ![w].at = "restored"]
  /\ UNCHANGED <<synced, legacy, instances, faults>>
SyncRestored(w) ==
  /\ tx[w].at = "restored" /\ synced' = bundle /\ tx' = [tx EXCEPT ![w] = NoTx]
  /\ UNCHANGED <<bundle, legacy, instances, faults>>
(* rollback_failed: reported as such, with what is observed. *)
RestoreFails(w) ==
  /\ tx[w].at \in {"restoring", "restored"} /\ faults < MaxFaults /\ faults' = faults + 1
  /\ tx' = [tx EXCEPT ![w] = NoTx]
  /\ UNCHANGED <<bundle, synced, legacy, instances>>

(* --- Faults ---------------------------------------------------------------- *)

(* The machine stops: what was not synced may be lost. *)
PowerLoss ==
  /\ faults < MaxFaults /\ faults' = faults + 1
  /\ \E b \in {bundle, synced} : bundle' = b /\ synced' = b
  /\ tx' = [w \in Writers |-> NoTx] /\ UNCHANGED <<legacy, instances>>
DamageInstance(i) ==
  /\ faults < MaxFaults /\ faults' = faults + 1 /\ i.intact
  /\ instances' = (instances \ {i}) \cup {[i EXCEPT !.intact = FALSE]}
  /\ UNCHANGED <<bundle, synced, legacy, tx>>

ProvisionInit ==
  /\ bundle \in {Manifest("absent", NoPointers), Manifest("malformed", NoPointers)}
  /\ synced = bundle /\ legacy \in {"absent", "ready", "invalid"}
  /\ instances = {} /\ tx = [w \in Writers |-> NoTx] /\ faults = 0

ProvisionNext ==
  \/ \E w \in Writers :
       \/ \E requested \in (SUBSET Representations) \ {{}}, force, source \in BOOLEAN :
            BeginTransaction(w, requested, force, source)
       \/ \E rep \in Representations : InstallInstance(w, rep)
       \/ ReplaceBundle(w) \/ SyncBundle(w) \/ ValidateSelection(w) \/ TransactionFails(w)
       \/ RestoreBundle(w) \/ SyncRestored(w) \/ RestoreFails(w)
  \/ PowerLoss
  \/ \E i \in instances : DamageInstance(i)

(* --- Properties ------------------------------------------------------------ *)

(* Whatever stops a transaction, and whatever a power loss brings back, the   *)
(* manifest names directories that are there (embedding_bundle_provision).    *)
SelectionIsInstalled ==
  \A m \in {bundle, synced} : m.kind = "present" =>
    \A r \in Representations : m.ptr[r] > 0 => \E i \in instances : i.id = m.ptr[r] /\ i.rep = r

(* No step of a transaction changes how ready a representation it was not     *)
(* asked for is: selecting ONNX keeps the torch that was in use.              *)
UnrequestedIsKept ==
  \A w \in Writers : tx[w].at # "rest" /\ tx'[w].at # "rest" /\ faults' = faults =>
    \A r \in Representations \ tx[w].requested : Inspect(r)' = Inspect(r)

(* A transaction that fails after the manifest was replaced puts the previous *)
(* one back, durably, wherever between replacement and validation it failed;  *)
(* only success, a crash or a reported rollback failure leaves the new one.   *)
FailureRestores ==
  \A w \in Writers : tx[w].at # "rest" /\ tx'[w].at = "rest" /\ faults' = faults =>
    \/ tx[w].at = "durable" /\ \A r \in tx[w].requested : Inspect(r) = "ready"
    \/ bundle' = tx[w].previous /\ (tx[w].at = "staging" \/ synced' = tx[w].previous)
=============================================================================
