------------------------- MODULE SufficiencyEvidence ------------------------
(***************************************************************************)
(* How evidence for a sufficiency gate is gathered.  Path A asks whether   *)
(* old artifacts already hold it for every frozen case; path B measures    *)
(* every case once on the live index and writes snapshots and a manifest;  *)
(* the 11B analysis joins an authoritative manifest with Gold and reports  *)
(* the one-feature rules that separate answerable from unanswerable cases. *)
(* The index can move between two cases, files can be edited, Gold can be  *)
(* exported again and a capture can die and be started over.               *)
(***************************************************************************)
EXTENDS Integers, Sequences, FiniteSets, SequencesExt

CONSTANTS
  SuffCases,     \* the frozen cases, in order
  HumanReviewed, \* the cases the adjudication map calls human_reviewed
  GoldPositives, \* case |-> its Gold positive chunks
  SuffContexts,  \* what the assembler can return: [anchors, units]
  Indexes,       \* lineages the live stack can have: [chunks, index]
  Artifacts,     \* historical artifacts for path A
  MaxArtifacts, MaxSuffEvents    \* bounds

VARIABLES
  pathA,      \* the artifacts inspected so far and the assessment per case
  capture,    \* the path-B run in memory
  suffFiles,  \* snapshot id |-> the snapshot its file holds
  manifests,  \* the manifests on disk
  analysis,   \* the last 11B analysis, or NoAnalysis
  suffIndex,  \* lineage of the live stack
  goldChunks, \* the chunk set Gold was exported for
  suffEvents  \* events of the world so far

suffVars == <<pathA, capture, suffFiles, manifests, analysis, suffIndex, goldChunks, suffEvents>>

CaseSet == ToSet(SuffCases)
NoLineage == [chunks |-> "none", index |-> "none"]

(***************************************************************************)
(* Observations.                                                           *)
(***************************************************************************)

(* An assembled context can be turned into provenance: ranks are list      *)
(* positions, chunks are distinct and scores do not increase.              *)
_validate_anchors(a) ==
  /\ \A i, j \in DOMAIN a : i # j => a[i].chunk # a[j].chunk
  /\ \A i \in DOMAIN a : i > 1 => a[i].score <= a[i - 1].score
_validate_evidence_units(u) == \A i, j \in DOMAIN u : i # j => u[i].id # u[j].id
ValidProvenance(c) == _validate_anchors(c.anchors) /\ _validate_evidence_units(c.units)

FEATURE_NAMES == {"empty_context", "top_reranker_score", "top1_top2_margin",
                  "top_anchor_cross_retriever_support", "anchor_count",
                  "distinct_document_count", "distinct_section_count"}
BOOLEAN_FEATURES == {"empty_context", "top_anchor_cross_retriever_support"}
Bit(b) == IF b THEN 1 ELSE 0

(* Each feature as the set of its value; the empty set is None.            *)
_derive_features(c) ==
  LET a == c.anchors  u == c.units
  IN [empty_context |-> {Bit(u = <<>>)},
      top_reranker_score |-> IF a = <<>> THEN {} ELSE {a[1].score},
      top1_top2_margin |-> IF Len(a) < 2 THEN {} ELSE {a[1].score - a[2].score},
      top_anchor_cross_retriever_support |-> IF a = <<>> THEN {} ELSE {Bit(a[1].dense /\ a[1].lexical)},
      anchor_count |-> {Len(a)},
      distinct_document_count |-> {Cardinality({u[i].doc : i \in DOMAIN u})},
      distinct_section_count |-> {Cardinality({<<u[i].doc, u[i].section>> : i \in DOMAIN u})}]

evidence_surface_chunk_ids(c) ==
  {c.anchors[i].chunk : i \in DOMAIN c.anchors} \cup {c.units[i].chunk : i \in DOMAIN c.units}

(***************************************************************************)
(* Path A: may history stand in for a measurement?                         *)
(***************************************************************************)

Unseen == [status |-> "unseen", query |-> "none", conflict |-> FALSE, missing |-> {}]

(* What a sighting lacks: the intended query, a complete lineage.          *)
_binding_matches(query) == query = "intended"
_lineage_complete(lineage) == lineage # "partial"
BasicMissing(a, c) ==
  (IF _binding_matches(a.cases[c]) THEN {} ELSE {"binding"})
  \cup (IF _lineage_complete(a.lineage) THEN {} ELSE {"lineage"})

(* A retrieval-evaluation report never holds full provenance.              *)
_missing_for_retrieval_eval_case(a, c) == BasicMissing(a, c) \cup {"provenance"}
(* A context dump does when a snapshot can be built from it.               *)
assess_hybrid_rerank_context_result_for_path_a(a, c) ==
  BasicMissing(a, c) \cup (IF a.whole THEN {} ELSE {"provenance"})

Assess(a, c) ==
  LET missing == IF a.kind = "eval" THEN _missing_for_retrieval_eval_case(a, c)
                 ELSE assess_hybrid_rerank_context_result_for_path_a(a, c)
  IN [status |-> IF missing = {} THEN "qualified" ELSE "not_qualified",
      query |-> a.cases[c], conflict |-> FALSE, missing |-> missing]

(* Two sightings of a case.  Different queries are a conflict that no      *)
(* later sighting clears.                                                  *)
_merge_case_assessment(prior, new) ==
  LET differ == prior.query # "none" /\ new.query # "none" /\ prior.query # new.query
      query == IF prior.query # "none" THEN prior.query ELSE new.query
  IN IF prior.status = "unseen" THEN new
     ELSE IF prior.conflict \/ new.conflict \/ differ
     THEN [status |-> "not_qualified", query |-> query, conflict |-> TRUE,
           missing |-> prior.missing \cup new.missing \cup {"binding"}]
     ELSE IF new.status = "qualified" THEN new
     ELSE IF prior.status = "qualified" THEN prior
     ELSE [prior EXCEPT !.missing = @ \cup new.missing, !.query = query]

InspectArtifact(a) ==
  /\ Len(pathA.seen) < MaxArtifacts
  /\ pathA' = [seen |-> Append(pathA.seen, a),
               cases |-> [c \in CaseSet |->
                 IF a.kind # "unsupported" /\ c \in DOMAIN a.cases
                 THEN _merge_case_assessment(pathA.cases[c], Assess(a, c))
                 ELSE pathA.cases[c]]]
  /\ UNCHANGED <<capture, suffFiles, manifests, analysis, suffIndex, goldChunks, suffEvents>>

(* All views complete and equal; an unsupported artifact has none.         *)
_merge_lineage_views(seen) ==
  /\ seen # <<>>
  /\ \A i \in DOMAIN seen : seen[i].lineage # "partial" /\ seen[i].lineage = seen[1].lineage

run_path_a_preflight ==
  /\ _merge_lineage_views(pathA.seen)
  /\ \A c \in CaseSet : /\ pathA.cases[c].status = "qualified" /\ pathA.cases[c].missing = {}
                        /\ pathA.cases[c].query = "intended"

(***************************************************************************)
(* Path B: measure once.                                                   *)
(***************************************************************************)

FreshCapture == [state |-> "running", next |-> 1, lineage |-> NoLineage, snapshots |-> {}, failures |-> {}]

(* A snapshot is named by its content: its id is the snapshot.             *)
SnapshotOf(c, context) == [case |-> c, lineage |-> suffIndex, context |-> context]

(* An existing file under the same name must load and say the same.        *)
persist_sufficiency_snapshot(s) == s \in DOMAIN suffFiles => suffFiles[s] = s
SuffWritten(s) == [x \in DOMAIN suffFiles \cup {s} |-> IF x = s THEN s ELSE suffFiles[x]]

(* One case: the assembler fails, or answers from the index as it is now.  *)
(* The first lineage seen is the run's; a case of another one fails, and   *)
(* so does one whose context cannot be observed or whose file cannot be    *)
(* written.  A failed case is not tried again.                             *)
MeasureCase(ok, context) ==
  LET c == SuffCases[capture.next]
      s == SnapshotOf(c, context)
      admitted == IF capture.lineage = NoLineage THEN suffIndex ELSE capture.lineage
      good == /\ ok /\ suffIndex = admitted
              /\ ValidProvenance(context) /\ persist_sufficiency_snapshot(s)
  IN /\ capture.state = "running" /\ capture.next <= Len(SuffCases)
     /\ capture' = [capture EXCEPT
          !.next = @ + 1,
          !.lineage = IF ok THEN admitted ELSE @,
          !.snapshots = IF good THEN @ \cup {s} ELSE @,
          !.failures = IF good THEN @ ELSE @ \cup {c}]
     /\ suffFiles' = IF good THEN SuffWritten(s) ELSE suffFiles
     /\ UNCHANGED <<pathA, manifests, analysis, suffIndex, goldChunks, suffEvents>>

(* Mutant: enough that every case was attempted. *)
AttemptedAccounting(snapshots, failures) == Cardinality(snapshots) + Cardinality(failures) = Len(SuffCases)
(* The manifest is authoritative when every expected case succeeded and    *)
(* none failed.                                                            *)
derive_manifest_accounting(snapshots, failures) ==
  {s.case : s \in snapshots} = CaseSet /\ failures = {}

build_sufficiency_manifest(snapshots, failures) ==
  [groups |-> snapshots, failures |-> failures,
   lineage |-> IF snapshots = {} THEN capture.lineage ELSE (CHOOSE s \in snapshots : TRUE).lineage,
   authoritative |-> derive_manifest_accounting(snapshots, failures)]

(* One attempt group per case, no case both measured and failed, one       *)
(* lineage; anything else refuses the manifest.                            *)
validate_sufficiency_manifest(m) ==
  /\ \A s, t \in m.groups : s.lineage = t.lineage /\ (s.case = t.case => s = t)
  /\ {s.case : s \in m.groups} \cap m.failures = {}
  /\ {s.case : s \in m.groups} \cup m.failures \subseteq CaseSet
  /\ m.lineage # NoLineage

(* Without a snapshot or a lineage there is nothing to write.              *)
FinishCapture ==
  LET m == build_sufficiency_manifest(capture.snapshots, capture.failures)
  IN /\ capture.state = "running" /\ capture.next > Len(SuffCases)
     /\ manifests' = IF validate_sufficiency_manifest(m) THEN manifests \cup {m} ELSE manifests
     /\ capture' = [FreshCapture EXCEPT !.state = "ended"]
     /\ UNCHANGED <<pathA, suffFiles, analysis, suffIndex, goldChunks, suffEvents>>

(***************************************************************************)
(* The 11B analysis.                                                       *)
(***************************************************************************)

NoAnalysis == [manifest |-> {}, labels |-> {}, recommended |-> {}]

(* A snapshot loads when its observation and its id recompute.             *)
load_sufficiency_snapshot(s) == s \in DOMAIN suffFiles /\ suffFiles[s] = s

require_gold_manifest_lineage(m) == m.lineage.chunks = goldChunks

join_authoritative_labels(m) ==
  /\ validate_sufficiency_manifest(m) /\ m.authoritative /\ m.failures = {}
  /\ require_gold_manifest_lineage(m)
  /\ \A s \in m.groups : load_sufficiency_snapshot(s)

assign_threshold_cohort(c, context) ==
  IF GoldPositives[c] \cap evidence_surface_chunk_ids(context) # {} THEN "A" ELSE "B"

(* An assistant-only case has no cohort. *)
_load_and_bind_case(s) ==
  LET body == suffFiles[s]
      human == s.case \in HumanReviewed
  IN [case |-> s.case, eligible |-> human,
      cohort |-> IF human THEN assign_threshold_cohort(s.case, body.context) ELSE "none",
      features |-> _derive_features(body.context)]

(* Only human-reviewed cases count for rules.                              *)
_threshold_labels(labels) == {l \in labels : l.eligible}

Population(labels, k) == {l \in _threshold_labels(labels) : l.cohort = k}
Values(labels, f) == UNION {l.features[f] : l \in _threshold_labels(labels)}
Rules(labels) ==
  UNION {[feature : {f}, threshold : Values(labels, f),
          op : IF f \in BOOLEAN_FEATURES THEN {"=="} ELSE {"<", "<=", ">", ">="}] : f \in FEATURE_NAMES}

(* None satisfies no rule.                                                 *)
_apply_numeric_rule(v, r) ==
  CASE r.op = "<" -> v < r.threshold [] r.op = "<=" -> v <= r.threshold
    [] r.op = ">" -> v > r.threshold [] r.op = ">=" -> v >= r.threshold [] OTHER -> v = r.threshold
Gates(r, l) == \E v \in l.features[r.feature] : _apply_numeric_rule(v, r)

_eligibility(labels, r) ==
  LET human == _threshold_labels(labels)
      gated == {l \in human : Gates(r, l)}
  IN /\ Population(labels, "A") # {} /\ Population(labels, "B") # {}
     /\ Cardinality(Values(labels, r.feature)) > 1
     /\ gated # {} /\ gated # human
     /\ gated \cap Population(labels, "A") = {}
     /\ gated \cap Population(labels, "B") # {}

enumerate_threshold_evaluations(labels) == {r \in Rules(labels) : _eligibility(labels, r)}

run_11b_analysis(m) ==
  LET labels == {_load_and_bind_case(s) : s \in m.groups}
  IN /\ m \in manifests /\ join_authoritative_labels(m)
     /\ analysis' = [manifest |-> {m}, labels |-> labels,
                     recommended |-> enumerate_threshold_evaluations(labels)]
     /\ UNCHANGED <<pathA, capture, suffFiles, manifests, suffIndex, goldChunks, suffEvents>>

(***************************************************************************)
(* The world.                                                              *)
(***************************************************************************)
SuffEvent == suffEvents < MaxSuffEvents /\ suffEvents' = suffEvents + 1

MoveIndex(l) ==
  /\ SuffEvent /\ l # suffIndex /\ suffIndex' = l
  /\ UNCHANGED <<pathA, capture, suffFiles, manifests, analysis, goldChunks>>
EditSnapshot(s, context) ==
  /\ SuffEvent /\ s \in DOMAIN suffFiles /\ context # suffFiles[s].context
  /\ suffFiles' = [suffFiles EXCEPT ![s].context = context]
  /\ UNCHANGED <<pathA, capture, manifests, analysis, suffIndex, goldChunks>>
ExportGold(l) ==
  /\ SuffEvent /\ l.chunks # goldChunks /\ goldChunks' = l.chunks
  /\ UNCHANGED <<pathA, capture, suffFiles, manifests, analysis, suffIndex>>
(* A capture dies, or is started again over the same artifacts.            *)
StartCapture ==
  /\ SuffEvent /\ capture' = FreshCapture
  /\ UNCHANGED <<pathA, suffFiles, manifests, analysis, suffIndex, goldChunks>>

SuffInit ==
  /\ pathA = [seen |-> <<>>, cases |-> [c \in CaseSet |-> Unseen]]
  /\ capture = FreshCapture
  /\ suffFiles = <<>> /\ manifests = {} /\ analysis = NoAnalysis
  /\ suffIndex \in Indexes /\ goldChunks = suffIndex.chunks
  /\ suffEvents = 0

SuffNext ==
  \/ capture = FreshCapture /\ suffFiles = <<>> /\ suffEvents = 0 /\ \E a \in Artifacts : InspectArtifact(a)
  \/ pathA.seen = <<>> /\
       \/ \E ok \in BOOLEAN, context \in SuffContexts : MeasureCase(ok, context)
       \/ FinishCapture \/ StartCapture
       \/ \E m \in manifests : run_11b_analysis(m)
       \/ \E l \in Indexes : MoveIndex(l) \/ ExportGold(l)
       \/ \E s \in DOMAIN suffFiles, context \in SuffContexts : EditSnapshot(s, context)

SuffSpec == SuffInit /\ [][SuffNext]_suffVars

(***************************************************************************)
(* Properties.                                                             *)
(***************************************************************************)

(* Path A's verdict is a matter of which artifacts there are, not of the   *)
(* order they are read in: one complete lineage for all of them, a         *)
(* qualified sighting of every case, and no sighting of a case under       *)
(* another query (_merge_case_assessment, _merge_lineage_views).           *)
PreflightIsOrderFree ==
  LET all == ToSet(pathA.seen)
      sightings(c) == {a \in all : a.kind # "unsupported" /\ c \in DOMAIN a.cases}
  IN run_path_a_preflight <=>
       /\ \E l \in {a.lineage : a \in all} : l # "partial" /\ \A a \in all : a.lineage = l
       /\ \A c \in CaseSet :
            /\ \E a \in sightings(c) : a.kind = "dump" /\ a.whole /\ a.cases[c] = "intended"
            /\ \A a \in sightings(c) : a.cases[c] \in {"intended", "none"}

(* An authoritative manifest names, for every frozen case, a snapshot      *)
(* measured under the one lineage the manifest states: an index that moves *)
(* during the run or a capture started over cannot mix two of them.        *)
AuthorityIsWhole ==
  \A m \in manifests : m.authoritative =>
    /\ {s.case : s \in m.groups} = CaseSet /\ Cardinality(m.groups) = Len(SuffCases)
    /\ \A s \in m.groups : s.lineage = m.lineage /\ ValidProvenance(s.context)

(* The labels of an analysis are those of what was measured, whatever was  *)
(* done to the files since: an edited snapshot stops the analysis.         *)
AnalysisIsMeasured ==
  \A m \in analysis.manifest : \A s \in m.groups :
    \E l \in analysis.labels : /\ l.case = s.case
                               /\ l.features = _derive_features(s.context)
                               /\ s.case \in HumanReviewed =>
                                    l.cohort = assign_threshold_cohort(s.case, s.context)

(* A recommended rule refuses no human-reviewed answerable case, catches a *)
(* human-reviewed unanswerable one, and would have been recommended        *)
(* without the assistant-only cases.                                       *)
RecommendedSeparates ==
  LET human(k) == {l \in analysis.labels : l.case \in HumanReviewed /\ l.cohort = k}
  IN \A r \in analysis.recommended :
       /\ \A l \in human("A") : ~Gates(r, l)
       /\ \E l \in human("B") : Gates(r, l)
       /\ \E l \in human("A") \cup human("B") : r.threshold \in l.features[r.feature]

(* From the artifacts found to the rule recommended: the preflight does not  *)
(* depend on their order, the authority is whole and of one lineage, the     *)
(* analysis is of what was measured, and the rule separates the reviewed     *)
(* cases.                                                                    *)
SufficiencyIsEarned ==
  PreflightIsOrderFree /\ AuthorityIsWhole /\ AnalysisIsMeasured /\ RecommendedSeparates
=============================================================================
