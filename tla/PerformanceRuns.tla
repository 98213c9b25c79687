---------------------------- MODULE PerformanceRuns --------------------------
(***************************************************************************)
(* The performance campaigns (evaluation/performance_14): the diagnostic   *)
(* dry run 14B, the authoritative retrieval campaign 14C and the           *)
(* authoritative end-to-end campaign Level C.  Each one is a single        *)
(* process: ordered preflight checks, a result directory of its own, a     *)
(* frozen schedule of warm-ups and measured attempts, then the artifacts,  *)
(* written one by one.  The process may be killed at any point.            *)
(***************************************************************************)
EXTENDS Integers, Sequences, FiniteSets, FiniteSetsExt, SequencesExt

CONSTANTS
  QueryIds,   \* the frozen subjects, in suite order
  Measured    \* measured repetitions of each

ASSUME CampaignAssumption ==
  QueryIds \in Seq(ToSet(QueryIds)) /\ QueryIds # <<>> /\ Measured \in Nat \ {0}

VARIABLES
  kind,     \* "14B", "14C", "LevelC"
  phase,    \* check, allocate, execute, close, write, ended
  checks,   \* the preflight checks that have not passed
  status,   \* run_status of the result, or "none"
  attempts, \* what has been recorded, in order
  marks,    \* LevelCTimeline: which attempt set each mark (0: cleared)
  proxy,    \* PassiveLevelCGenerator: the attempt its response and error are of
  dir

perfVars == <<kind, phase, checks, status, attempts, marks, proxy, dir>>

(* --- Preflight -------------------------------------------------------------- *)

DryRunChecks == <<"repository_root", "executing_sha", "substrate_pin", "suite_identity", "case_membership",
  "protocol_counts", "paired_comparison_invariant", "output_writable", "disk_capacity", "machine_profile">>
Checks14C == <<"repository_root", "executing_sha", "working_tree_clean", "suite_freeze_authority", "suite_identity",
  "frozen_suite_identities", "case_membership", "protocol_counts", "paired_comparison_invariant",
  "treatment_config_delta", "gold_semantic_identity", "settings", "index_and_config_pins", "output_writable",
  "disk_capacity", "machine_profile">>
LevelCPins == <<"repository_root", "executing_sha", "working_tree_clean", "freeze_authority",
  "instrumentation_authority", "frozen_suite_identities", "gold_semantic_identity", "runtime_settings",
  "generation_runtime_pin", "context_runtime_pin", "recovery_disabled", "settings", "index_and_config_pins">>
LevelCMachine == <<"embedding_artifacts", "output_writable", "disk_capacity", "machine_profile", "provider_probe">>
ChecksOf(k) == CASE k = "14B" -> DryRunChecks [] k = "14C" -> Checks14C [] OTHER -> LevelCPins \o LevelCMachine

(* The failure is persisted as an authoritative result without cases.         *)
PreflightFails == checks' # <<>> /\ status' = "failed_preflight"
PreflightPasses == checks' = <<>> /\ UNCHANGED status
(* run_check, in order: the first check that fails ends the preflight.  The   *)
(* checks change nothing, so that they are one step; "checks" is left with    *)
(* the one that failed and those never made.                                  *)
RunChecks(passed) ==
  /\ phase = "check" /\ checks' = SubSeq(checks, passed + 1, Len(checks))
  /\ PreflightPasses \/ PreflightFails
  /\ phase' = "allocate" /\ UNCHANGED <<kind, attempts, marks, proxy, dir>>

(* mkdir(exist_ok=False) of a directory named by this run's own nonce.        *)
AllocateRunDir ==
  /\ phase = "allocate" /\ dir' = {"directory"}
  /\ phase' = IF status = "failed_preflight" THEN "write" ELSE "execute"
  /\ UNCHANGED <<kind, checks, status, attempts, marks, proxy>>

(* --- The schedule ------------------------------------------------------------ *)

Variants(k) == IF k = "14C" THEN <<"hybrid", "hybrid_rerank">> ELSE <<"only">>
(* Of a subject and variant: the warm-up, then the repetitions.               *)
Slot(q, v, r) == [query |-> q, variant |-> v, warm |-> r = 0, index |-> IF r = 0 THEN 0 ELSE r - 1]

(* paired_alternating_schedule: case by case, the variants of a subject next  *)
(* to each other.                                                             *)
PairedSchedule(k) ==
  LET variants == Variants(k)  n == Len(variants)  runs == Measured + 1
      slot(case, r) == Slot(QueryIds[(case \div n) + 1], variants[(case % n) + 1], r)
  IN [j \in 1..(Len(QueryIds) * n * runs) |-> slot((j - 1) \div runs, (j - 1) % runs)]
(* _run_frozen_schedule: every warm-up, then rounds over the queries.         *)
RoundRobin ==
  LET n == Len(QueryIds)
  IN [j \in 1..(n * (Measured + 1)) |-> Slot(QueryIds[((j - 1) % n) + 1], "only", (j - 1) \div n)]
Schedule == IF kind = "LevelC" THEN RoundRobin ELSE PairedSchedule(kind)
NextSlot == Schedule[Len(attempts) + 1]

(* 14B and 14C: one observation, failed or not; a failure does not stop the   *)
(* campaign, and a failed repetition has no ranking.                          *)
Observe(result) ==
  /\ phase = "execute" /\ kind # "LevelC" /\ Len(attempts) < Len(Schedule)
  /\ attempts' = Append(attempts, [slot |-> NextSlot, ok |-> result # "failed", ranked |-> result = "ranked"])
  /\ UNCHANGED <<kind, phase, checks, status, marks, proxy, dir>>

(* --- One Level C attempt ------------------------------------------------------ *)

Marks == {"t0", "t1", "t2", "t3", "t4", "t5", "t6", "error"}
(* How far GroundedAnswerOrchestrator.answer gets, by what happens in it.     *)
Reached(outcome) ==
  CASE outcome = "retrieval_error" -> {"t0", "error"}
    [] outcome = "assembly_error"  -> {"t0", "t1", "error"}
    [] outcome \in {"empty_context", "request_error"} -> {"t0", "t1", "t5", "t6"}
    [] outcome = "provider_error"  -> {"t0", "t1", "t2", "t3", "error", "t5", "t6"}
    [] outcome = "late_error"      -> {"t0", "t1", "t2", "t3", "t4", "error"}
    [] OTHER -> Marks \ {"error"}
Outcomes == {"retrieval_error", "assembly_error", "empty_context", "request_error", "provider_error", "late_error",
             "schema_invalid", "model_abstain", "citation_invalid", "answered"}

(* timeline.clear, then the marks of the delegates. *)
Marked(n, outcome) == [m \in Marks |-> IF m \in Reached(outcome) THEN n ELSE 0]
(* Mutant: what an earlier call left is kept. *)
KeepsLast(n, outcome) ==
  IF "t3" \notin Reached(outcome) THEN proxy
  ELSE IF "t4" \in Reached(outcome) THEN [proxy EXCEPT !.response = n] ELSE [proxy EXCEPT !.error = n]
(* generate: what an earlier call left is cleared first. *)
Generated(n, outcome) ==
  IF "t3" \notin Reached(outcome) THEN proxy
  ELSE [response |-> IF "t4" \in Reached(outcome) THEN n ELSE 0, error |-> IF "t4" \in Reached(outcome) THEN 0 ELSE n]

classify_level_c_terminal(outcome) ==
  CASE outcome \in {"retrieval_error", "assembly_error", "late_error"} -> "orchestration_failed"
    [] outcome \in {"request_error", "provider_error", "schema_invalid"} -> "generation_failed"
    [] outcome = "empty_context" -> "insufficient_evidence"
    [] OTHER -> outcome
Invoked(outcome) == outcome \notin {"retrieval_error", "assembly_error", "late_error", "empty_context", "request_error"}

Timed(t, from, to) == IF t[from] = 0 \/ t[to] = 0 THEN "excluded" ELSE "valid"
Stages(context, generation, citation) == [context |-> context, generation |-> generation, citation |-> citation]
NotApplicable == Stages("not_applicable", "not_applicable", "not_applicable")
OrchestrationStages(t) ==
  [context |-> IF t["t2"] # 0 /\ t["t1"] # 0 THEN "valid"
               ELSE IF t["t1"] = 0 /\ t["t2"] = 0 THEN "not_applicable" ELSE "excluded",
   generation |-> IF t["t3"] # 0 /\ t["t4"] = 0 THEN "failed" ELSE IF t["t3"] = 0 THEN "not_applicable" ELSE "excluded",
   citation |-> "not_applicable"]
Unhandled == Stages("unhandled", "unhandled", "unhandled")
(* The ends that have a generated answer, or no evidence to answer from.      *)
AnsweredStages(terminal, invoked, t) ==
  LET context == Timed(t, "t1", "t2")  generation == Timed(t, "t3", "t4") IN
  CASE terminal = "answered" -> Stages(context, generation, Timed(t, "t4", "t5"))
    [] terminal = "insufficient_evidence" /\ ~invoked /\ t["t2"] = 0 -> NotApplicable
    [] terminal = "model_abstain" -> Stages(context, generation, "not_applicable")
    [] terminal = "citation_invalid" -> Stages(context, generation, "failed")
    [] OTHER -> Unhandled
(* generation_failed: after a response, without one, before the request.      *)
FailedStages(invoked, t) ==
  LET context == Timed(t, "t1", "t2") IN
  IF t["t4"] # 0 THEN Stages(context, Timed(t, "t3", "t4"), "failed")
  ELSE IF invoked /\ t["t2"] # 0 THEN Stages(context, "failed", "not_applicable")
  ELSE IF t["t2"] = 0 THEN NotApplicable ELSE Unhandled
(* build_level_c_attempt: what each stage of the attempt counts as.           *)
StageMatrix(terminal, invoked, t) ==
  CASE terminal = "generation_failed" -> FailedStages(invoked, t)
    [] terminal = "orchestration_failed" -> OrchestrationStages(t)
    [] OTHER -> AnsweredStages(terminal, invoked, t)

(* The usage of the last response, for an attempt that generated; the time to *)
(* the error of the last call, for one whose generation failed.               *)
Attempt(n, outcome, t, p) ==
  LET stages == StageMatrix(classify_level_c_terminal(outcome), Invoked(outcome), t) IN
  [slot |-> NextSlot, ok |-> stages # Unhandled, stages |-> stages,
   usage |-> IF Invoked(outcome) THEN p.response ELSE 0,
   failedAt |-> IF stages.generation = "failed" THEN p.error ELSE 0,
   measuredBy |-> {t[m] : m \in {x \in Marks : t[x] # 0}}]

(* A query, or an error of the harness itself, which ends the schedule.       *)
ExecuteAttempt(outcome) ==
  LET n == Len(attempts) + 1 IN
  /\ phase = "execute" /\ kind = "LevelC" /\ n <= Len(Schedule)
  /\ marks' = Marked(n, outcome) /\ proxy' = Generated(n, outcome)
  /\ attempts' = Append(attempts, Attempt(n, outcome, marks', proxy'))
  /\ UNCHANGED <<kind, phase, checks, status, dir>>

(* --- Closing and sealing ------------------------------------------------------- *)

CampaignStops ==
  /\ phase = "execute" /\ status' = "failed_during_execution" /\ phase' = "close"
  /\ UNCHANGED <<kind, checks, attempts, marks, proxy, dir>>

MeasuredFailed == \E i \in DOMAIN attempts : ~attempts[i].slot.warm /\ ~attempts[i].ok
(* The ranking a case of 14C keeps is that of its last measured repetition.   *)
LastOf(q, v) == Max({i \in DOMAIN attempts : attempts[i].slot.query = q /\ attempts[i].slot.variant = v})
assert_paired_quality_coverage ==
  \A q \in ToSet(QueryIds), v \in ToSet(Variants("14C")) : attempts[LastOf(q, v)].ranked
(* 14C: a failed measured observation, or a case without a ranking to judge,  *)
(* fails the run.  14B: they do not.                                          *)
ExecutionStatus ==
  IF kind = "14C" /\ (MeasuredFailed \/ ~assert_paired_quality_coverage)
  THEN "failed_during_execution" ELSE "completed"
ScheduleDone ==
  /\ phase = "execute" /\ Len(attempts) = Len(Schedule) /\ status' = ExecutionStatus /\ phase' = "close"
  /\ UNCHANGED <<kind, checks, attempts, marks, proxy, dir>>

(* Level C reports a resource that does not close as a failed run; 14C lets   *)
(* the error out, which leaves the directory without a manifest.              *)
CloseRuntime(ok) ==
  /\ phase = "close" /\ (kind = "14B" => ok)
  /\ status' = IF ok THEN status ELSE "failed_during_execution"
  /\ phase' = IF ok \/ kind = "LevelC" THEN "write" ELSE "ended"
  /\ UNCHANGED <<kind, checks, attempts, marks, proxy, dir>>

(* write_run_artifacts: each file created exclusively, in this order.         *)
ArtifactOrder == <<"manifest", "aggregate", "preflight", "cases", "report">>
Unwritten == {i \in DOMAIN ArtifactOrder : ArtifactOrder[i] \notin dir}
WriteArtifact ==
  /\ phase = "write"
  /\ \/ Unwritten = {} /\ phase' = "ended" /\ UNCHANGED dir
     \/ \E i \in Unwritten : /\ \A j \in Unwritten : i <= j
                            /\ dir' = dir \cup {ArtifactOrder[i]} /\ UNCHANGED phase
  /\ UNCHANGED <<kind, checks, status, attempts, marks, proxy>>

CampaignDies ==
  /\ phase # "ended" /\ phase' = "ended"
  /\ UNCHANGED <<kind, checks, status, attempts, marks, proxy, dir>>

(* The human latch is not given: nothing is touched. *)
PerfInit ==
  /\ kind \in {"14B", "14C", "LevelC"} /\ phase = "check" /\ checks = ChecksOf(kind) /\ status = "none"
  /\ attempts = <<>> /\ marks = [m \in Marks |-> 0] /\ proxy = [response |-> 0, error |-> 0]
  /\ dir = {}
PerfNext ==
  \/ \E passed \in 0..Len(checks) : RunChecks(passed)
  \/ \E ok \in BOOLEAN : CloseRuntime(ok)
  \/ \E result \in {"ranked", "empty", "failed"} : Observe(result)
  \/ AllocateRunDir \/ CampaignStops \/ ScheduleDone \/ WriteArtifact \/ CampaignDies
  \/ \E outcome \in Outcomes : ExecuteAttempt(outcome)

(* --- What the aggregate counts -------------------------------------------------- *)

(* derive_level_c_stage_stats: a warm-up counts as a warm-up and nothing else. *)
Counted(stage, status_) == {i \in DOMAIN attempts : attempts[i].stages[stage] = status_ /\ ~attempts[i].slot.warm}
WarmUps == {i \in DOMAIN attempts : attempts[i].slot.warm}
derive_level_c_stage_stats(stage) ==
  LET n(status_) == Cardinality(Counted(stage, status_)) IN
  [attempted_count |-> n("valid") + n("failed") + n("excluded"), valid_count |-> n("valid"),
   not_applicable_count |-> n("not_applicable"), warmup_count |-> Cardinality(WarmUps)]

(* --- The memory summary of 14C ------------------------------------------------ *)

(* linear_percentile of a sorted sample, in hundred-thousandths; the          *)
(* percentile in thousandths of a percent.                                    *)
linear_percentile(s, thousandths) ==
  LET rank == thousandths * (Len(s) - 1)  lo == rank \div 100000  weight == rank % 100000 IN
  IF weight = 0 THEN s[lo + 1] * 100000 ELSE s[lo + 1] * (100000 - weight) + s[lo + 2] * weight
(* resource_summary_by_variant asks for the percentiles 0.50 and 0.95.        *)
ram_rss_bytes_p50(s) == (linear_percentile(s, 500) + 50000) \div 100000

(* --- Properties ---------------------------------------------------------------- *)

(* A directory with a report and a manifest that says completed holds every   *)
(* attempt of the frozen schedule, in its order, whenever the process was     *)
(* killed (write_run_artifacts).                                              *)
ReportedIsWhole ==
  "report" \in dir /\ status = "completed" =>
    /\ {"manifest", "aggregate", "preflight", "cases"} \subseteq dir
    /\ [i \in DOMAIN attempts |-> attempts[i].slot] = Schedule

(* Of an authoritative run, completed also means that every repetition        *)
(* succeeded and every query was ranked: a hole is never reported as evidence.*)
CompletedIsClean == "manifest" \in dir /\ status = "completed" /\ kind = "14C" =>
  ~MeasuredFailed /\ \A q \in ToSet(QueryIds) : \E i \in DOMAIN attempts : attempts[i].ranked /\ attempts[i].slot.query = q

(* The counts of every stage add up to the frozen protocol: no attempt is     *)
(* dropped, counted twice or mixed with a warm-up, however the queries ended. *)
StatsCoverSchedule ==
  kind = "LevelC" /\ status = "completed" =>
    \A stage \in {"context", "generation", "citation"} :
      LET stats == derive_level_c_stage_stats(stage) IN
      /\ stats.attempted_count + stats.not_applicable_count = Len(QueryIds) * Measured
      /\ stats.warmup_count + Len(QueryIds) * Measured = Len(attempts)

(* What an attempt reports was measured in it: its marks, the usage of its    *)
(* own response, the time to its own error, whatever earlier attempts left    *)
(* in the timeline and the generator proxy they share.                        *)
AttemptOwnsItsEvidence ==
  kind = "LevelC" =>
    \A i \in DOMAIN attempts :
      /\ attempts[i].usage \in {0, i} /\ attempts[i].failedAt \in {0, i} /\ attempts[i].measuredBy \subseteq {i}
      /\ attempts[i].stages.generation = "failed" => attempts[i].failedAt = i

(* Every way a query ends has a place in the stage matrix: a query that fails *)
(* is a result, it does not end the campaign.                                 *)
EveryEndIsClassified == kind = "LevelC" => \A i \in DOMAIN attempts : attempts[i].ok

(* The value published as ram_rss_bytes_p50 is a median: at least half of the *)
(* samples are at or below it.                                                *)
MedianIsMiddle(s) == 2 * Cardinality({i \in DOMAIN s : s[i] <= ram_rss_bytes_p50(s)}) >= Len(s)

(* A performance run publishes evidence that is whole, clean, classified and *)
(* measured in the attempt that reports it.                                  *)
EvidenceIsClean ==
  /\ ReportedIsWhole /\ StatsCoverSchedule /\ CompletedIsClean
  /\ AttemptOwnsItsEvidence /\ EveryEndIsClassified
=============================================================================
