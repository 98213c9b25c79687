----------------------------- MODULE MCWorkshop -----------------------------
(***************************************************************************)
(* The offline workshop in one run: authoring of Gold, provisioning and    *)
(* use of the embedding runtime, and performance runs.  "part" says which  *)
(* of them this behaviour is about; they share no state, and a part that   *)
(* is not chosen stays in one initial state.                               *)
(***************************************************************************)
EXTENDS GoldAuthoring, EmbeddingRuntime, PerformanceRuns, TLC

VARIABLE part

MCDocumentSets == {[i \in 1..20 |-> IF i = 10 THEN 5 ELSE 1]}
MCLadder == <<8, 4>>
MCQueries == <<"q1", "q2">>

MCSym == Permutations(Jobs) \cup Permutations(Finalizers)

(* The embedder is loaded from a legacy installation, or from what a       *)
(* transaction without faults made of it.                                  *)
BundleAndEmbedderInit ==
  /\ bundle \in {Manifest("absent", NoPointers), Manifest("malformed", NoPointers)}
  /\ legacy \in {"absent", "ready", "invalid"} /\ synced = bundle
  /\ instances = {} /\ tx = [w \in Writers |-> NoTx]
  /\ emb = NoEmbedder /\ call = [c \in Callers |-> NoCall] /\ calls = 0
  /\ part # "provision" => bundle.kind = "absent" /\ legacy = "ready"
  /\ faults = IF part = "embedder" THEN MaxFaults ELSE 0
BundleOrEmbedderNext ==
  \/ emb.state \in {"none", "UNLOADED"} /\ ProvisionNext /\ UNCHANGED runtimeVars
  \/ part = "embedder" /\ EmbedNext

Init ==
  /\ part \in {"authoring", "provision", "embedder", "performance"}
  /\ AuthorInit /\ BundleAndEmbedderInit /\ PerfInit
  /\ part # "performance" => kind = "14B"
Next ==
  /\ UNCHANGED part
  /\ \/ part = "authoring" /\ AuthorNext /\ UNCHANGED <<embeddingVars, perfVars>>
     \/ /\ part \in {"provision", "embedder"} /\ BundleOrEmbedderNext
        /\ UNCHANGED <<authorVars, perfVars>>
     \/ part = "performance" /\ PerfNext /\ UNCHANGED <<authorVars, embeddingVars>>
vars == <<part, authorVars, embeddingVars, perfVars>>
Spec == Init /\ [][Next]_vars

(* No step undoes what others rely on: a reviewer's decisions, a published  *)
(* dataset, a representation nobody asked to change, the manifest before a  *)
(* failed transaction, the end of an embedder and the batch it has learnt.  *)
NothingIsUndone ==
  [][/\ JobLeavesReviews /\ DatasetSurvives /\ UnrequestedIsKept
     /\ FailureRestores /\ EndIsFinal /\ BatchOnlyShrinks]_vars
=============================================================================
