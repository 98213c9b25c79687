------------------------ MODULE GenerationEvaluation ------------------------
(***************************************************************************)
(* Generation measured on fixed evidence.  A run builds an evidence set    *)
(* from an exported Gold dataset (the positive chunks, or the hardest      *)
(* chunks a reviewer graded 0), stores it, lets the generator answer every *)
(* case, lets a judge grade the answers and publishes one result; two      *)
(* results that differ in the prompt alone can then be compared.  The      *)
(* reviews go on after the export, settings change between runs, and       *)
(* generator and judge can fail.                                           *)
(***************************************************************************)
EXTENDS Integers, Sequences, FiniteSets, SequencesExt

CONSTANTS
  GenCases,     \* the cases of Gold, in the order of their ids
  GenHuman,     \* those whose labels are human_reviewed
  GenChunks,    \* the candidates of every case
  RankOf,       \* candidate |-> its hybrid-rerank rank, or 0 without a hit
  FirstGrades,  \* candidate |-> its grade at the first export
  HARD_NEGATIVE_N,       \* hard negatives per case
  Levels,       \* the grades of a verdict, worst first
  GenSettings,  \* configurations: [prompt, model, judge]
  MaxGenRuns, MaxGenEvents    \* bounds

VARIABLES
  silver,      \* case |-> the review in the authoring run
  goldset,     \* the exported dataset
  history,     \* can the chunk set Gold names still be loaded?
  genSettings, \* the prompt contract, the model and the judge's
  genRun,      \* the run in progress, or NoGenRun
  evidenceFiles, \* output path |-> the evidence set stored there
  genResults,  \* published results
  genComparisons, \* the last comparison made, if any
  genEvents, genRuns

genVars == <<silver, goldset, history, genSettings, genRun, evidenceFiles,
             genResults, genComparisons, genEvents, genRuns>>

NoGenRun == [state |-> "idle"]
GoldIds == ToSet(GenCases)

(* What finalisation exports of a review: the query and the positives.     *)
GoldCaseOf(review) ==
  [query |-> review.query,
   positives |-> {<<k, review.grades[k]>> : k \in {j \in GenChunks : review.grades[j] >= 1}}]
DatasetOf(reviews) == [cases |-> [c \in GoldIds |-> GoldCaseOf(reviews[c])], reviewed |-> reviews]
PositiveChunks(case) == {p[1] : p \in case.positives}

(***************************************************************************)
(* Evidence.                                                               *)
(***************************************************************************)

_build_case(c) ==
  [query |-> goldset.cases[c].query, positives |-> PositiveChunks(goldset.cases[c]),
   units |-> PositiveChunks(goldset.cases[c]), basis |-> goldset.cases[c].query]

CanBuildGold == history /\ \A c \in GoldIds : goldset.cases[c].positives # {}
build_gold_evidence_set_v1 ==
  [contract |-> "gold", expected |-> "answer", gold |-> goldset,
   cases |-> [c \in GoldIds |-> _build_case(c)]]

(* Mutant: the review is not compared with the dataset's query. *)
ReviewedAtAll(c) == silver[c].status = "accepted"
(* The review is closed, is of the query Gold holds, and was graded for    *)
(* that query.                                                             *)
_validate_silver_review_integrity(c) ==
  /\ silver[c].status = "accepted"
  /\ silver[c].query = goldset.cases[c].query
  /\ silver[c].basis = silver[c].query

_reconcile_positive_maps(c) == GoldCaseOf(silver[c]).positives = goldset.cases[c].positives

EligibleNegatives(c) == {k \in GenChunks : silver[c].grades[k] = 0 /\ RankOf[k] > 0}
(* The best-ranked of the chunks graded 0.                                 *)
_select_hard_negatives(c) ==
  {k \in EligibleNegatives(c) :
     Cardinality({j \in EligibleNegatives(c) : RankOf[j] < RankOf[k]}) < HARD_NEGATIVE_N}

_build_hard_negative_case(c) ==
  [query |-> goldset.cases[c].query, positives |-> PositiveChunks(goldset.cases[c]),
   units |-> _select_hard_negatives(c), basis |-> silver[c].basis]

CanBuildNegative(c) ==
  /\ _validate_silver_review_integrity(c)
  /\ _reconcile_positive_maps(c)
  /\ Cardinality(EligibleNegatives(c)) >= HARD_NEGATIVE_N
  /\ _select_hard_negatives(c) \cap PositiveChunks(goldset.cases[c]) = {}

build_human_grade0_hard_negative_set_v1 ==
  [contract |-> "negative", expected |-> "abstain", gold |-> goldset,
   cases |-> [c \in GenHuman |-> _build_hard_negative_case(c)]]

(* A path that is taken must hold the same set.  The default path is named *)
(* after the content of the set.                                           *)
ArtifactPath(chosen, e) == IF chosen THEN <<"chosen">> ELSE <<"default", e>>
persist_evidence_set(path, e) == path \in DOMAIN evidenceFiles => evidenceFiles[path] = e

(***************************************************************************)
(* A run.                                                                  *)
(***************************************************************************)

(* The preflight of a judge that is switched on: its configuration may be  *)
(* wrong, it may be unapproved or out of reach, or it is there.            *)
evaluate_judge_preflight == {"READY", "UNAVAILABLE", "CONFIG_INVALID"}

(* Build, store, see whether generator and judge are there.  A judge with  *)
(* an invalid configuration stops the run after the evidence was stored;   *)
(* one that is merely not there does not.                                  *)
run_generation_semantic_evaluation(mode, chosen, judged, generator, judge) ==
  LET e == IF mode = "gold" THEN build_gold_evidence_set_v1
           ELSE build_human_grade0_hard_negative_set_v1
      path == ArtifactPath(chosen, e)
  IN /\ genRun = NoGenRun /\ genRuns < MaxGenRuns /\ genRuns' = genRuns + 1
     /\ mode = "gold" => CanBuildGold
     /\ mode = "negative" => history /\ GenHuman # {} /\ \A c \in GenHuman : CanBuildNegative(c)
     /\ persist_evidence_set(path, e)
     /\ evidenceFiles' = [p \in DOMAIN evidenceFiles \cup {path} |-> IF p = path THEN e ELSE evidenceFiles[p]]
     /\ genRun' = IF generator # "READY" \/ (judged /\ judge = "CONFIG_INVALID") THEN NoGenRun
                  ELSE [state |-> "running", evidence |-> e, settings |-> genSettings,
                        judged |-> judged, available |-> judged /\ judge = "READY", rows |-> <<>>]
     /\ UNCHANGED <<silver, goldset, history, genSettings, genResults, genComparisons, genEvents>>

GenStatuses == {"answered", "model_abstain", "generation_failed", "citation_invalid"}
Unjudged == [status |-> "none", level |-> 0]

(* One request to the judge: a verdict that parses and names only cited    *)
(* units, or one of the reasons it can fail for.                           *)
JudgeAnswers == {[status |-> "judge_failed", level |-> 0]}
                \cup [status : {"succeeded"}, level : Levels]

(* The judge of one case: what it may say.  A failed judge leaves the      *)
(* generator's outcome alone and sets no level.                            *)
_judge_case(status, judged, available) ==
  CASE ~judged -> {Unjudged}
    [] judged /\ status # "answered" -> {[status |-> "not_applicable", level |-> 0]}
    [] judged /\ status = "answered" /\ ~available -> {[status |-> "judge_unavailable", level |-> 0]}
    [] OTHER -> JudgeAnswers

CasesOf(e) == SelectSeq(GenCases, LAMBDA c : c \in DOMAIN e.cases)

(* The generator answers the next case, in its way, and the judge follows. *)
EvaluateCase(status, verdict) ==
  LET at == Len(genRun.rows) + 1
  IN /\ genRun # NoGenRun /\ at <= Len(CasesOf(genRun.evidence))
     /\ status \in GenStatuses
     /\ verdict \in _judge_case(status, genRun.judged, genRun.available)
     /\ genRun' = [genRun EXCEPT !.rows = Append(@, [case |-> CasesOf(genRun.evidence)[at],
                                                    status |-> status, judge |-> verdict])]
     /\ UNCHANGED <<silver, goldset, history, genSettings, evidenceFiles, genResults,
                    genComparisons, genEvents, genRuns>>

RowsIn(rows, cohort) ==
  {r \in ToSet(rows) : CASE cohort = "full" -> TRUE
                         [] cohort = "human_reviewed" -> r.case \in GenHuman
                         [] OTHER -> r.case \notin GenHuman}
Cohorts == {"full", "human_reviewed", "assistant_only"}
Answered(rows) == {r \in rows : r.status = "answered"}
JudgedAs(rows, s) == {r \in Answered(rows) : r.judge.status = s}

build_population(rows) == [s \in GenStatuses |-> Cardinality({r \in ToSet(rows) : r.status = s})]
(* Per cohort: how many answers there were and what the judge made of them. *)
_semantic_cohort(rows) ==
  [eligible |-> Cardinality(Answered(rows)), succeeded |-> Cardinality(JudgedAs(rows, "succeeded")),
   failed |-> Cardinality(JudgedAs(rows, "judge_failed")),
   unavailable |-> Cardinality(JudgedAs(rows, "judge_unavailable")),
   levels |-> [l \in Levels |-> Cardinality({r \in JudgedAs(rows, "succeeded") : r.judge.level = l})]]
build_semantic_aggregates(rows) == [k \in Cohorts |-> _semantic_cohort(RowsIn(rows, k))]

ResultOf(run) ==
  [evidence |-> run.evidence, settings |-> run.settings, judged |-> run.judged, rows |-> run.rows,
   population |-> build_population(run.rows), semantic |-> build_semantic_aggregates(run.rows)]

(* Every case done: the result is published.                               *)
persist_eval_result ==
  /\ genRun # NoGenRun /\ Len(genRun.rows) = Len(CasesOf(genRun.evidence))
  /\ genResults' = genResults \cup {ResultOf(genRun)} /\ genRun' = NoGenRun
  /\ UNCHANGED <<silver, goldset, history, genSettings, evidenceFiles, genComparisons, genEvents, genRuns>>

(* The executor raises, or the process dies: nothing is published.         *)
AbandonRun ==
  /\ genRun # NoGenRun /\ genRun' = NoGenRun
  /\ UNCHANGED <<silver, goldset, history, genSettings, evidenceFiles, genResults,
                 genComparisons, genEvents, genRuns>>

(***************************************************************************)
(* Comparison of two results.                                              *)
(***************************************************************************)

(* The same evidence, the same cases, the same model and judge; the prompt *)
(* is v1 in A and v2 in B.  Whether the judge was there is not compared.   *)
_validate_compatibility(a, b) ==
  /\ a.evidence = b.evidence
  /\ a.settings.prompt = "v1" /\ b.settings.prompt = "v2"
  /\ a.settings.model = b.settings.model
  /\ a.judged /\ b.judged
  /\ a.settings.judge = b.settings.judge

classify_semantic_transition(x, y) ==
  IF y > x THEN "improved" ELSE IF y < x THEN "regressed" ELSE "unchanged"

(* Only two verdicts can be compared.                                      *)
CaseTransition(ra, rb) ==
  IF ra.judge.status = "succeeded" /\ rb.judge.status = "succeeded"
  THEN classify_semantic_transition(ra.judge.level, rb.judge.level) ELSE "not_comparable"

classify_negative_layer1_outcome(status) ==
  CASE status = "answered" -> "false_answer" [] status = "model_abstain" -> "correct_abstention"
    [] OTHER -> status

(* Rows of both results come in the order of the evidence's cases.         *)
_build_case_comparisons(a, b) ==
  [i \in DOMAIN a.rows |->
     [case |-> a.rows[i].case, transition |-> CaseTransition(a.rows[i], b.rows[i]),
      outcomes |-> IF a.evidence.expected = "answer" THEN <<>>
                   ELSE <<classify_negative_layer1_outcome(a.rows[i].status),
                          classify_negative_layer1_outcome(b.rows[i].status)>>]]

_semantic_transition_summary(rows) ==
  [k \in {"improved", "unchanged", "regressed", "not_comparable"} |->
     Cardinality({i \in DOMAIN rows : rows[i].transition = k})]

compare_generation_semantic_results(a, b) ==
  LET rows == _build_case_comparisons(a, b)
  IN /\ _validate_compatibility(a, b)
     /\ genComparisons' = {[a |-> a, b |-> b, cases |-> rows, summary |-> _semantic_transition_summary(rows)]}
     /\ UNCHANGED <<silver, goldset, history, genSettings, genRun, evidenceFiles, genResults,
                    genEvents, genRuns>>

(***************************************************************************)
(* The world: reviews, exports and settings.                               *)
(***************************************************************************)
(* After the last run the bound allows, nothing reads what would change.   *)
GenEvent == genEvents < MaxGenEvents /\ genRuns < MaxGenRuns /\ genEvents' = genEvents + 1
             /\ UNCHANGED <<genRun, evidenceFiles, genResults, genComparisons, genRuns>>

Regrade(c, k, g) ==
  /\ GenEvent /\ g # silver[c].grades[k] /\ silver' = [silver EXCEPT ![c].grades[k] = g]
  /\ UNCHANGED <<goldset, history, genSettings>>
(* Another wording: the grades stay, with the query they were given for.   *)
EditQuery(c) ==
  /\ GenEvent /\ silver[c].query = "q" /\ silver' = [silver EXCEPT ![c].query = "r"]
  /\ UNCHANGED <<goldset, history, genSettings>>
RegradeForQuery(c) ==
  /\ GenEvent /\ silver[c].basis # silver[c].query
  /\ silver' = [silver EXCEPT ![c].basis = silver[c].query]
  /\ UNCHANGED <<goldset, history, genSettings>>
(* Finalisation exports only what was graded for its query.                *)
ExportDataset ==
  /\ GenEvent /\ \A c \in GoldIds : silver[c].basis = silver[c].query
  /\ goldset' = DatasetOf(silver)
  /\ UNCHANGED <<silver, history, genSettings>>
LoseHistory == GenEvent /\ history /\ history' = FALSE /\ UNCHANGED <<silver, goldset, genSettings>>
Configure(s) == GenEvent /\ s # genSettings /\ genSettings' = s /\ UNCHANGED <<silver, goldset, history>>

GenInit ==
  /\ silver = [c \in GoldIds |-> [status |-> "accepted", query |-> "q", basis |-> "q", grades |-> FirstGrades]]
  /\ goldset = DatasetOf(silver)
  /\ history = TRUE
  /\ genSettings = [prompt |-> "v1", model |-> "m", judge |-> "j"]
  /\ genRun = NoGenRun /\ evidenceFiles = <<>> /\ genResults = {} /\ genComparisons = {}
  /\ genEvents = 0 /\ genRuns = 0

GenNext ==
  \/ \E mode \in {"gold", "negative"}, chosen \in BOOLEAN, judged \in BOOLEAN,
        generator \in {"READY", "NOT_READY"}, judge \in evaluate_judge_preflight :
       run_generation_semantic_evaluation(mode, chosen, judged, generator, judge)
  \/ genRun # NoGenRun /\ \E status \in GenStatuses :
       \E verdict \in _judge_case(status, genRun.judged, genRun.available) : EvaluateCase(status, verdict)
  \/ persist_eval_result \/ AbandonRun
  \/ \E a, b \in genResults : compare_generation_semantic_results(a, b)
  \/ genRun = NoGenRun /\
       \/ \E c \in GenHuman : \/ \E k \in GenChunks, g \in 0 .. 1 : Regrade(c, k, g)
                             \/ EditQuery(c) \/ RegradeForQuery(c)
       \/ ExportDataset \/ LoseHistory
       \/ \E s \in GenSettings : Configure(s)

GenSpec == GenInit /\ [][GenNext]_genVars

(***************************************************************************)
(* Properties.                                                             *)
(***************************************************************************)

(* The evidence of a must-abstain case holds nothing its Gold calls        *)
(* relevant, nothing the reviews behind that Gold graded above 0, and was  *)
(* graded for the very question asked, however the reviews went on since   *)
(* (hard_negative.py refuses reviews that disagree with the dataset).      *)
NegativesAgreeWithGold ==
  \A p \in DOMAIN evidenceFiles : evidenceFiles[p].contract = "negative" =>
    LET e == evidenceFiles[p]
    IN \A c \in DOMAIN e.cases :
         /\ Cardinality(e.cases[c].units) = HARD_NEGATIVE_N
         /\ e.cases[c].units \cap PositiveChunks(e.gold.cases[c]) = {}
         /\ \A k \in e.cases[c].units : e.gold.reviewed[c].grades[k] = 0
         /\ e.cases[c].basis = e.gold.cases[c].query

(* A published result has a row for every case of its evidence, whatever   *)
(* failed on the way; its counts add up, and each answer is counted by the *)
(* judge exactly once.                                                     *)
PublishedIsWhole ==
  \A r \in genResults :
    /\ {row.case : row \in ToSet(r.rows)} = DOMAIN r.evidence.cases
    /\ SumFunction(r.population) = Cardinality(DOMAIN r.evidence.cases)
    /\ r.judged => \A k \in Cohorts :
         LET s == r.semantic[k] IN s.eligible = s.succeeded + s.failed + s.unavailable
                                   /\ SumFunction(s.levels) = s.succeeded

(* A comparison is of two measurements of the same questions on the same   *)
(* evidence, generated by one model and graded by one judge.               *)
ComparedLikeWithLike ==
  \A x \in genComparisons :
    /\ \A c \in DOMAIN x.a.evidence.cases :
         /\ c \in DOMAIN x.b.evidence.cases
         /\ x.a.evidence.cases[c].units = x.b.evidence.cases[c].units
         /\ x.a.evidence.cases[c].query = x.b.evidence.cases[c].query
    /\ x.a.settings = [x.b.settings EXCEPT !.prompt = "v1"]

(* A prompt is said to improve or worsen an answer only where both answers *)
(* got a verdict: a failing or absent judge moves no count.                *)
TransitionsAreJudged ==
  \A x \in genComparisons : \A i \in DOMAIN x.cases :
    x.cases[i].transition # "not_comparable" =>
      /\ x.a.rows[i].status = "answered" /\ x.b.rows[i].status = "answered"
      /\ x.a.rows[i].judge.status = "succeeded" /\ x.b.rows[i].judge.status = "succeeded"

(* Results of generation are comparable: hard negatives agree with the Gold  *)
(* they come from, published results are whole, and only like is compared    *)
(* with like, verdict by verdict.                                            *)
GenerationIsComparable ==
  NegativesAgreeWithGold /\ PublishedIsWhole /\ ComparedLikeWithLike /\ TransitionsAreJudged
=============================================================================
