------------------------- MODULE RecoveryEvaluation -------------------------
(***************************************************************************)
(* The measure-once evaluation of retrieval recovery (phase 12C).  A run    *)
(* reads the live retrieval stack, derives from it the identity that names  *)
(* its result directory, assembles every Gold case once (stage A), and,    *)
(* when a human-reviewed case was insufficient, lets the recovery protocol  *)
(* rewrite and retrieve again for the triggered cases (stage B).  It then   *)
(* writes its artifacts one by one.  Nothing locks the corpus: an ingest    *)
(* can publish another stack at any moment, runs can overlap, and a run can *)
(* die between two writes.                                                  *)
(*                                                                          *)
(* A stack is [chunks, index]: the chunk set Gold was labelled on and the   *)
(* identity of the indexes over it.  The evaluator's own settings are part  *)
(* of the code's identity; here every run has the same ones.                *)
(***************************************************************************)
EXTENDS Naturals, Sequences, FiniteSets

CONSTANTS
    EvalRuns,     \* evaluator processes, each executed once
    EvalCases,    \* sequence of the cases of the frozen Gold dataset
    HumanCases,   \* the cases adjudicated "human_reviewed"
    GoldChunks,   \* meta.chunk_set_id of the Gold dataset
    Stacks,       \* the stacks an ingest can make current
    MaxMoves      \* bound on the changes of the current stack

VARIABLES
    live,         \* the current retrieval stack of the corpus
    evmoves,      \* how often it changed
    evals,        \* run -> the local state of run_authoritative_recovery_eval
    roots,        \* stack -> the result directory of that identity
    rewrites      \* stack -> case -> rewriter calls ever made for it

recoveryVars == <<live, evmoves, evals, roots, rewrites>>

CaseIds == {EvalCases[i] : i \in 1 .. Len(EvalCases)}

----------------------------------------------------------------------------
(* Records *)

NoStack == [chunks |-> "none", index |-> "none"]

FreshEval == [pc |-> "preflight", expected |-> NoStack, stageA |-> FALSE,
              prepared |-> <<>>, records |-> <<>>, census |-> FALSE,
              aggregate |-> "none", left |-> <<>>]

\* A run that is over keeps nothing but how it ended.
Over(pc) == [FreshEval EXCEPT !.pc = pc]

NoRoot == [exists |-> FALSE, run_manifest |-> "none", trigger_census |-> FALSE,
           prepared_cases |-> FALSE, case_records |-> <<>>,
           aggregate |-> "none", report |-> "none"]

\* Mutant: the comparison forgets the index identities.
SameChunks(a, b) == a.chunks = b.chunks
\* Only the query may differ between two lineages of one stack.
lineage_stack_equal(a, b) == a = b

is_recovery_triggered(sufficient) == ~sufficient

\* T_H: the triggered cases whose label a human gave.
human_triggers(prepared) ==
    {i \in DOMAIN prepared : prepared[i].triggered /\ EvalCases[i] \in HumanCases}

\* The observation of the recovery attempt decides the class; a failed arm has none.
classify_case(triggered, outcome) ==
    CASE ~triggered -> "initial_sufficient_no_recovery"
      [] triggered /\ outcome.failure # "none" -> "recovery_failed"
      [] triggered /\ outcome.failure = "none" /\ ~outcome.sufficient
            -> "still_insufficient"
      [] triggered /\ outcome.failure = "none" /\ outcome.sufficient /\ outcome.overlap
            -> "gold_positive_recovered"
      [] OTHER -> "unsupported_recovery"

CountOf(records, class) ==
    Cardinality({i \in DOMAIN records :
        EvalCases[i] \in HumanCases /\ records[i].class = class})

Diverged(records) ==
    Cardinality({i \in DOMAIN records :
        EvalCases[i] \in HumanCases /\ ~records[i].triggered /\ records[i].calls # 0})

\* The precedence of OD-12C-6 over the counts of the human cohort.
conclude_recovery_eval(records) ==
    LET triggers == Cardinality({i \in DOMAIN records :
                        EvalCases[i] \in HumanCases /\ records[i].triggered})
        regressions == CountOf(records, "unsupported_recovery")
                         + CountOf(records, "recovery_failed") + Diverged(records)
    IN IF triggers = 0 THEN "insufficient_evidence"
       ELSE IF regressions > 0 THEN "recovery_regression"
       ELSE IF CountOf(records, "gold_positive_recovered") = 0 THEN "no_measured_benefit"
       ELSE "promotion_candidate"

----------------------------------------------------------------------------
(* Failure: the handler around the whole run *)

RunStatus(e) == IF e.stageA THEN "failed_after_stage_a" ELSE "failed_before_stage_a"

\* What the except branch writes into the directory of the run's identity, if
\* there is one: the manifest, the census when it is missing, the report.  The
\* branch swallows its own failures, so any prefix may be all that is written.
FailureWrites(root, e, upto) ==
    [root EXCEPT
        !.run_manifest = IF upto >= 1 THEN RunStatus(e) ELSE @,
        !.trigger_census = @ \/ (upto >= 2 /\ e.census),
        !.report = IF upto >= 3 THEN RunStatus(e) ELSE @]

PersistFailure(e) ==
    IF e.expected # NoStack /\ roots[e.expected].exists
    THEN \E upto \in 0 .. 3 :
            roots' = [roots EXCEPT ![e.expected] = FailureWrites(@, e, upto)]
    ELSE roots' = roots

Failed(r, e) ==
    /\ evals' = [evals EXCEPT ![r] = Over("failed")]
    /\ PersistFailure(e)

\* Any exception of a component: I/O, the assembler, the aggregate's validators.
RunFails(r) ==
    /\ evals[r].pc \in {"prepare", "stageA", "stageB", "write"}
    /\ Failed(r, evals[r])
    /\ UNCHANGED <<live, evmoves, rewrites>>

\* The process is killed: no handler runs.
EvaluatorDies(r) ==
    /\ evals[r].pc \notin {"dead", "done", "failed"}
    /\ evals' = [evals EXCEPT ![r] = Over("dead")]
    /\ UNCHANGED <<live, evmoves, roots, rewrites>>

----------------------------------------------------------------------------
(* Preflight and the directory of the identity *)

\* A missing key, a population that is not the frozen one or recovery settings
\* the preflight refuses: before any identity is known.
PreflightRefuses(r) ==
    /\ evals[r].pc = "preflight"
    /\ Failed(r, evals[r])
    /\ UNCHANGED <<live, evmoves, rewrites>>

\* _resolve_expected_stack reads the live indexes; Gold must be of their chunks.
ResolveExpectedStack(r) ==
    /\ evals[r].pc = "preflight"
    /\ IF live.chunks # GoldChunks
       THEN Failed(r, evals[r])
       ELSE /\ evals' = [evals EXCEPT ![r].pc = "mkdir", ![r].expected = live]
            /\ roots' = roots
    /\ UNCHANGED <<live, evmoves, rewrites>>

\* exists() and the exclusive mkdir both refuse a directory of this identity.
CreateRoot(r) ==
    /\ evals[r].pc = "mkdir"
    /\ IF roots[evals[r].expected].exists
       THEN Failed(r, evals[r])
       ELSE /\ roots' = [roots EXCEPT ![evals[r].expected].exists = TRUE]
            /\ evals' = [evals EXCEPT ![r].pc = "prepare", ![r].stageA = TRUE]
    /\ UNCHANGED <<live, evmoves, rewrites>>

----------------------------------------------------------------------------
(* Stage A: one initial assembly per case *)

\* The assembler reads the stack that is live at that moment.
PrepareCase(r) ==
    LET e == evals[r] IN
    /\ e.pc = "prepare"
    /\ Len(e.prepared) < Len(EvalCases)
    /\ IF live.chunks # GoldChunks
       THEN Failed(r, e)
       ELSE \E sufficient \in BOOLEAN :
              /\ evals' = [evals EXCEPT ![r].prepared = Append(@,
                    [lineage |-> live, triggered |-> is_recovery_triggered(sufficient)])]
              /\ roots' = roots
    /\ UNCHANGED <<live, evmoves, rewrites>>

\* _require_shared_observed_stack and the recomputed identity.
SharedStack(prepared, expected) ==
    \A i \in DOMAIN prepared : lineage_stack_equal(prepared[i].lineage, expected)

\* The census is written before anything is rewritten; without a human trigger
\* the evaluation stops there.
FinishStageA(r) ==
    LET e == evals[r] IN
    /\ e.pc = "prepare"
    /\ Len(e.prepared) = Len(EvalCases)
    /\ IF ~SharedStack(e.prepared, e.expected)
       THEN Failed(r, e)
       ELSE /\ roots' = [roots EXCEPT ![e.expected].trigger_census = TRUE]
            /\ evals' = [evals EXCEPT ![r] =
                  IF human_triggers(e.prepared) = {}
                  THEN [e EXCEPT !.pc = "write", !.census = TRUE,
                          !.left = <<"prepared_cases", "aggregate", "run_manifest", "report">>]
                  ELSE [e EXCEPT !.pc = "stageB", !.census = TRUE]]
    /\ UNCHANGED <<live, evmoves, rewrites>>

----------------------------------------------------------------------------
(* Stage B: the recovery arm of one case *)

\* What RecoveryCoordinator.run ends in: no attempt for a sufficient context; a
\* failure before the rewrite, of the rewrite, or of the second retrieval (a stack
\* that is not the initial one included); or a second observation.
ArmOutcomes(prepared) ==
    IF ~prepared.triggered
    THEN {[failure |-> "none", calls |-> 0, sufficient |-> FALSE, overlap |-> FALSE,
           lineage |-> prepared.lineage]}
    ELSE [failure : {"rewrite_preparation_failed"}, calls : {0, 1}, sufficient : {FALSE},
          overlap : {FALSE}, lineage : {prepared.lineage}]
         \cup [failure : {"recovery_execution_failed"}, calls : {1}, sufficient : {FALSE},
               overlap : {FALSE}, lineage : {prepared.lineage}]
         \cup {o \in [failure : {"none"}, calls : {1}, sufficient : BOOLEAN,
                      overlap : BOOLEAN, lineage : {live}] :
                 /\ lineage_stack_equal(prepared.lineage, live)
                 /\ o.overlap => o.sufficient}

CaseRecord(prepared, o) ==
    [lineage |-> prepared.lineage, attempt |-> o.lineage, triggered |-> prepared.triggered,
     calls |-> o.calls, class |-> classify_case(prepared.triggered, o),
     failure |-> o.failure, sufficient |-> o.sufficient, overlap |-> o.overlap]

EvaluateRecoveryCase(r) ==
    LET e == evals[r]
        i == Len(e.records) + 1
    IN
    /\ e.pc = "stageB"
    /\ i <= Len(EvalCases)
    /\ \E o \in ArmOutcomes(e.prepared[i]) :
         /\ evals' = [evals EXCEPT ![r].records = Append(@, CaseRecord(e.prepared[i], o))]
         /\ rewrites' = [rewrites EXCEPT ![e.expected][EvalCases[i]] = @ + o.calls]
    /\ UNCHANGED <<live, evmoves, roots>>

FinishStageB(r) ==
    /\ evals[r].pc = "stageB"
    /\ Len(evals[r].records) = Len(EvalCases)
    /\ evals' = [evals EXCEPT ![r].pc = "write",
          ![r].left = <<"case_records", "aggregate", "run_manifest", "report">>]
    /\ UNCHANGED <<live, evmoves, roots, rewrites>>

----------------------------------------------------------------------------
(* The artifacts, in their order *)

FinalStatus(e) == IF e.records = <<>> THEN "stopped_not_evaluable" ELSE "completed"

Written(root, e, artifact) ==
    CASE artifact = "prepared_cases" -> [root EXCEPT !.prepared_cases = TRUE]
      [] artifact = "case_records" -> [root EXCEPT !.case_records = e.records]
      [] artifact = "aggregate" ->
            [root EXCEPT !.aggregate = conclude_recovery_eval(e.records)]
      [] artifact = "run_manifest" -> [root EXCEPT !.run_manifest = FinalStatus(e)]
      [] OTHER -> [root EXCEPT !.report = FinalStatus(e)]

NextArtifact(left) == left[1]

WriteResult(r) ==
    LET e == evals[r]
        artifact == NextArtifact(e.left)
        left == SelectSeq(e.left, LAMBDA a : a # artifact)
    IN
    /\ e.pc = "write"
    /\ roots' = [roots EXCEPT ![e.expected] = Written(@, e, artifact)]
    /\ evals' = [evals EXCEPT ![r] =
                    IF left = <<>> THEN Over("done") ELSE [e EXCEPT !.left = left]]
    /\ UNCHANGED <<live, evmoves, rewrites>>

\* An ingest or an index build makes another stack current (external).
StackMoves ==
    /\ evmoves < MaxMoves
    /\ \E s \in Stacks \ {live} : live' = s
    /\ evmoves' = evmoves + 1
    /\ UNCHANGED <<evals, roots, rewrites>>

----------------------------------------------------------------------------
RecoveryInit ==
    /\ live \in Stacks
    /\ evmoves = 0
    /\ evals = [r \in EvalRuns |-> FreshEval]
    /\ roots = [s \in Stacks |-> NoRoot]
    /\ rewrites = [s \in Stacks |-> [c \in CaseIds |-> 0]]

RecoveryNext ==
    \/ StackMoves
    \/ \E r \in EvalRuns :
         \/ PreflightRefuses(r) \/ ResolveExpectedStack(r) \/ CreateRoot(r)
         \/ PrepareCase(r) \/ FinishStageA(r) \/ EvaluateRecoveryCase(r) \/ FinishStageB(r)
         \/ WriteResult(r) \/ RunFails(r) \/ EvaluatorDies(r)

----------------------------------------------------------------------------
(* Properties *)

\* A result directory speaks of one retrieval stack, the one that names it: no
\* recorded attempt, initial or recovered, saw another, however an ingest moved
\* the corpus between the preflight, the assemblies and the second retrievals.
ResultIsOfOneStack ==
    \A s \in Stacks : \A i \in DOMAIN roots[s].case_records :
        /\ roots[s].case_records[i].lineage = s
        /\ roots[s].case_records[i].attempt = s

\* Each case is rewritten at most once for an identity, over all runs, restarts and
\* overlaps: what "measure once" promises of the provider's answers.
MeasuredOnce ==
    \A s \in Stacks : \A c \in CaseIds : rewrites[s][c] <= 1

\* A recorded promotion rests on the recorded cases: no arm of a human-reviewed case
\* failed or recovered without Gold, and at least one recovered with Gold.
PromotionIsEarned ==
    \A s \in Stacks : roots[s].aggregate = "promotion_candidate" =>
        LET recs == roots[s].case_records
            humans == {i \in DOMAIN recs : EvalCases[i] \in HumanCases /\ recs[i].triggered}
        IN /\ \A i \in humans : recs[i].failure = "none"
           /\ \A i \in humans : recs[i].sufficient => recs[i].overlap
           /\ \E i \in humans : recs[i].overlap

\* A manifest that says the run ended well has every artifact it names beside it,
\* wherever the process died.
ManifestNamesFiles ==
    \A s \in Stacks :
        /\ roots[s].run_manifest = "completed" =>
              /\ roots[s].trigger_census
              /\ Len(roots[s].case_records) = Len(EvalCases)
              /\ roots[s].aggregate # "none"
        /\ roots[s].run_manifest = "stopped_not_evaluable" =>
              /\ roots[s].trigger_census /\ roots[s].prepared_cases
              /\ roots[s].aggregate = "insufficient_evidence"

\* "authoritative result root already exists (no overwrite)": what a finished run
\* recorded is never rewritten by a later one.
FinishedRootIsKept ==
    [][\A s \in Stacks :
          roots[s].report \in {"completed", "stopped_not_evaluable"}
             => roots'[s] = roots[s]]_recoveryVars

\* A result directory is evidence of one measurement: of one stack, of answers asked
\* for once, complete where it says so, with the conclusion its cases earn.
RecoveryIsMeasured ==
    ResultIsOfOneStack /\ MeasuredOnce /\ PromotionIsEarned /\ ManifestNamesFiles
=============================================================================
