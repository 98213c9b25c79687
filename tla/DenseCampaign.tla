--------------------------- MODULE DenseCampaign ---------------------------
(* The GPU qualification campaign of dense indexing (dense/d2_campaign.py,  *)
(* dense/d2_execution.py).  The campaign is a history file of finished      *)
(* cells; plan_next computes the one cell that may run next from it.  An    *)
(* executor reads the file, runs a cell for minutes and appends its result; *)
(* an assessor attaches the verdict of a parity probe to a confirmation     *)
(* cell.  Both rewrite the whole file, without a lock.                      *)
EXTENDS Naturals, Sequences, FiniteSets, SequencesExt

CONSTANTS
    Minutes,       \* the wall clock minutes a valid run may take
    MaxInvalid,    \* bound: invalid attempts in the history
    MaxDropped     \* bound: cells whose valid run a rewrite has dropped

ASSUME CampaignBounds == Minutes \subseteq Nat /\ {MaxInvalid, MaxDropped} \subseteq Nat

VARIABLES
    campaign,      \* campaign_history.json: a sequence of cell results
    torn,          \* the process died while the file was being rewritten
    executor,      \* the process that runs cells
    assessor,      \* the process that records assessments
    done           \* cells, whatever the file says now: run validly, and run so again;
                   \* assessed as failed; whose run, or failed assessment, a rewrite dropped

campaignVars == <<campaign, torn, executor, assessor, done>>

GPU_MEDIAN_GATE_MIN == 10
GPU_VARIANCE_GATE_MIN == 12
MAX_VALID_FULL_RUNS == 7
G1 == <<"G1-1", "G1-2", "G1-3">>
G2 == <<"G2-1", "G2-2", "G2-3">>
G1Cells == Range(G1)
G2Cells == Range(G2)
ThirdOrG2 == G2Cells \union {"G1-3"}
CELL_SPECS == G1Cells \union G2Cells \union {"C0"}
CONFIRMATION_CELLS == {"G1-3", "G2-3"}
Validities == {"valid", "valid_negative_resource", "invalid"}

CellResult(cell, validity, wall) ==
    [cell_id |-> cell, validity |-> validity, wall |-> wall, assessed |-> "none"]

-----------------------------------------------------------------------------
(* The plan. *)

ValidRuns(h, c) == {i \in DOMAIN h : h[i].cell_id = c /\ h[i].validity # "invalid"}
Has(h, c) == ValidRuns(h, c) # {}
_latest_valid(h, c) == LET runs == ValidRuns(h, c) IN h[Max(runs)]
Negative(h, c) == Has(h, c) /\ _latest_valid(h, c).validity = "valid_negative_resource"
Timed(h, c) == Has(h, c) /\ _latest_valid(h, c).validity = "valid"
Wall(h, c) == _latest_valid(h, c).wall

count_valid_full_runs(h) == Cardinality({i \in DOMAIN h : h[i].validity # "invalid"})

_two_run_screen_fails(w1, w2) ==
    \/ w1 > GPU_VARIANCE_GATE_MIN \/ w2 > GPU_VARIANCE_GATE_MIN
    \/ w1 > GPU_MEDIAN_GATE_MIN /\ w2 > GPU_MEDIAN_GATE_MIN

_two_run_screen_eligible(w1, w2) ==
    /\ w1 <= GPU_VARIANCE_GATE_MIN /\ w2 <= GPU_VARIANCE_GATE_MIN
    /\ w1 <= GPU_MEDIAN_GATE_MIN \/ w2 <= GPU_MEDIAN_GATE_MIN

(* No wall above the variance gate, the middle one within the median gate. *)
_three_run_timing_ok(h, lane) ==
    /\ \A i \in DOMAIN lane : Wall(h, lane[i]) <= GPU_VARIANCE_GATE_MIN
    /\ Cardinality({i \in DOMAIN lane : Wall(h, lane[i]) <= GPU_MEDIAN_GATE_MIN}) >= 2

_parity_failed(r) == r.assessed = "failed"
NotRefused(r) == ~_parity_failed(r)
_parity_passed(r) == r.assessed = "passed"

_plan(terminal, cell, reason) == [terminal |-> terminal, next_cell |-> cell, reason |-> reason]
Await(cell, reason) == _plan("awaiting_cell", cell, reason)
StopGpu(reason) == _plan("stop_gpu", "none", reason)

_forbid_eighth_or(h, p) ==
    IF count_valid_full_runs(h) >= MAX_VALID_FULL_RUNS THEN StopGpu("no_eighth_valid_full_run") ELSE p

(* The verdict on a lane whose three timed runs are there. *)
Confirmation(h, lane, selected, slow) ==
    LET last == _latest_valid(h, lane[3]) IN
    CASE _parity_failed(last) -> StopGpu("parity_or_correctness_failure")
      [] ~_parity_failed(last) /\ ~_three_run_timing_ok(h, lane) -> slow
      [] _parity_passed(last) /\ _three_run_timing_ok(h, lane) -> _plan(selected, "none", "timing_and_parity_success")
      [] OTHER -> StopGpu("not_assessed_fail_closed")

_plan_g2(h) ==
    CASE ~Has(h, "G2-1") -> _forbid_eighth_or(h, Await("G2-1", "open_g2_screen"))
      [] Negative(h, "G2-1") -> StopGpu("g2_resource_failure")
      [] Timed(h, "G2-1") /\ ~Has(h, "G2-2") -> _forbid_eighth_or(h, Await("G2-2", "continue_g2_screen"))
      [] Timed(h, "G2-1") /\ Negative(h, "G2-2") -> StopGpu("g2_resource_failure")
      [] OTHER ->
         IF _two_run_screen_fails(Wall(h, "G2-1"), Wall(h, "G2-2"))
         THEN StopGpu("g2_two_run_screen_failed")
         ELSE CASE ~Has(h, "G2-3") -> _forbid_eighth_or(h, Await("G2-3", "g2_eligible"))
                [] Negative(h, "G2-3") -> StopGpu("g2_resource_failure")
                [] OTHER -> Confirmation(h, G2, "select_g2", StopGpu("g2_timing_or_variance_failure"))

(* A screen run of G1 out of resources sends the campaign to C0 and G2. *)
EarlyNegative(h) == Negative(h, "G1-1") \/ Negative(h, "G1-2")
ResourceOpensG2(h) ==
    \E i \in DOMAIN h : h[i].cell_id \in {"G1-1", "G1-2"} /\ h[i].validity = "valid_negative_resource"

ScreenWalls(h) == Timed(h, "G1-1") /\ Timed(h, "G1-2")
ScreenFails(h) == ScreenWalls(h) /\ _two_run_screen_fails(Wall(h, "G1-1"), Wall(h, "G1-2"))
ScreenPasses(h) == ScreenWalls(h) /\ _two_run_screen_eligible(Wall(h, "G1-1"), Wall(h, "G1-2"))

(* After C0, with a screen of G1 that leaves the third run a chance. *)
PlanG1Confirmation(h) ==
    CASE ~Has(h, "G1-3") -> _forbid_eighth_or(h, Await("G1-3", "g1_eligible"))
      [] Negative(h, "G1-3") -> IF Has(h, "G2-1") THEN _plan_g2(h)
                                ELSE _forbid_eighth_or(h, Await("G2-1", "g1_confirmation_resource_failure"))
      [] OTHER -> Confirmation(h, G1, "select_g1", _plan_g2(h))

PlanScreen(h) ==
    CASE EarlyNegative(h) /\ ~Has(h, "C0") -> Await("C0", "g1_resource_failure_requires_c0")
      [] EarlyNegative(h) /\ Has(h, "C0") /\ ~Has(h, "G2-1") ->
             _forbid_eighth_or(h, Await("G2-1", "g1_resource_failure_open_g2"))
      [] ~EarlyNegative(h) /\ ~Has(h, "G1-1") -> Await("G1-1", "start_g1_screen")
      [] Timed(h, "G1-1") /\ ~Has(h, "G1-2") -> Await("G1-2", "continue_g1_screen")
      [] OTHER -> StopGpu("screened")

PlanAfterScreen(h) ==
    CASE ScreenWalls(h) /\ ~ScreenFails(h) /\ ~ScreenPasses(h) -> StopGpu("g1_screen_unclassified")
      [] ~Has(h, "C0") /\ (ScreenFails(h) \/ ScreenPasses(h) \/ ResourceOpensG2(h)) -> Await("C0", "mandatory_c0")
      [] Has(h, "C0") /\ ScreenPasses(h) /\ ~ScreenFails(h) /\ ~ResourceOpensG2(h) -> PlanG1Confirmation(h)
      [] Has(h, "C0") /\ (ScreenFails(h) \/ ResourceOpensG2(h)) -> _plan_g2(h)
      [] OTHER -> StopGpu("campaign_state_unresolved")

plan_next(h) ==
    IF count_valid_full_runs(h) > MAX_VALID_FULL_RUNS THEN StopGpu("eighth_or_beyond")
    ELSE IF h # <<>> /\ Last(h).validity = "invalid" THEN Await(Last(h).cell_id, "retry_invalid_attempt")
    ELSE LET screen == PlanScreen(h)
         IN IF screen.reason = "screened" THEN PlanAfterScreen(h) ELSE screen

-----------------------------------------------------------------------------
(* The processes. *)

NoExecutor == [pc |-> "idle", cell |-> "none", result |-> <<>>, read |-> <<>>]
NoAssessor == [pc |-> "idle", cell |-> "none", verdict |-> "none", read |-> <<>>]

CampaignInit ==
    /\ campaign = <<>> /\ torn = FALSE
    /\ executor = NoExecutor /\ assessor = NoAssessor
    /\ done = [ran |-> {}, again |-> {}, dropped |-> {}, refused |-> {}, forgotten |-> {}]

RanIn(h) == {h[i].cell_id : i \in {j \in DOMAIN h : h[j].validity # "invalid"}}

(* A run out of resources may be assessed too; nothing depends on it then. *)
Refused(h) == {c \in CONFIRMATION_CELLS : Timed(h, c) /\ _parity_failed(_latest_valid(h, c))}

(* The file is replaced by what its writer made of what it had read; what   *)
(* the other one has written since is dropped.  A torn file is whole again. *)
write_campaign_history(h, new) ==
    /\ campaign' = h /\ torn' = FALSE
    /\ done' = [ran       |-> done.ran \union RanIn(new),
                again     |-> done.again \union (done.ran \intersect RanIn(new)),
                dropped   |-> done.dropped \union (RanIn(campaign) \ RanIn(h)),
                refused   |-> done.refused \union Refused(h),
                forgotten |-> done.forgotten \union (Refused(campaign) \ Refused(h))]
    /\ Cardinality(done'.dropped) <= MaxDropped

(* execute_d2_cell_unlocked up to the treatment: only the planned cell is   *)
(* accepted; a preflight that finds an issue, a death during the treatment  *)
(* and a file that is torn by then end it without a trace.                  *)
assert_transition_allowed ==
    /\ executor.pc = "idle" /\ ~torn
    /\ \E cell \in {plan_next(campaign).next_cell} \ {"none"} :
        executor' = [executor EXCEPT !.pc = "running", !.cell = cell]
    /\ UNCHANGED <<campaign, torn, assessor, done>>

run_d2_preflight ==
    /\ executor.pc = "running"
    /\ executor' = NoExecutor
    /\ UNCHANGED <<campaign, torn, assessor, done>>

(* What a treatment may end with: classify_treatment_failure calls only the *)
(* exhaustion of CUDA memory a negative result, and the time of the CPU     *)
(* baseline is never graded.                                                *)
CellOutcomes(cell) ==
    {CellResult(cell, "valid", w) : w \in IF cell = "C0" THEN {0} ELSE Minutes} \union {CellResult(cell, "invalid", 0)}
    \union (IF cell = "C0" THEN {} ELSE {CellResult(cell, "valid_negative_resource", 0)})

(* The end of the treatment; _append_history then reads the file again. *)
RunCell ==
    /\ executor.pc = "running" /\ ~torn
    /\ \E r \in CellOutcomes(executor.cell) :
        /\ r.validity = "invalid" => Len(SelectSeq(campaign, LAMBDA e : e.validity = "invalid")) < MaxInvalid
        /\ executor' = [executor EXCEPT !.pc = "write", !.result = <<r>>, !.read = campaign]
    /\ UNCHANGED <<campaign, torn, assessor, done>>

_append_history ==
    /\ executor.pc = "write"
    /\ write_campaign_history(executor.read \o executor.result, executor.result)
    /\ executor' = NoExecutor
    /\ UNCHANGED assessor

(* record_confirmation_assessment: the latest valid run of the cell, once. *)
Assessable(h, cell) ==
    cell \in CONFIRMATION_CELLS /\ Has(h, cell) /\ _latest_valid(h, cell).assessed = "none"

ReadForAssessment ==
    /\ assessor.pc = "idle" /\ ~torn
    /\ \E cell \in CONFIRMATION_CELLS, verdict \in {"passed", "failed"} :
        /\ Assessable(campaign, cell)
        /\ assessor' = [pc |-> "write", cell |-> cell, verdict |-> verdict, read |-> campaign]
    /\ UNCHANGED <<campaign, torn, executor, done>>

record_confirmation_assessment ==
    /\ assessor.pc = "write"
    /\ LET h == assessor.read
       IN write_campaign_history([h EXCEPT ![Max(ValidRuns(h, assessor.cell))].assessed = assessor.verdict], <<>>)
    /\ assessor' = NoAssessor
    /\ UNCHANGED executor

(* write_text truncates first: a death here leaves what no loader accepts,  *)
(* until the other process, which has read it before, writes.               *)
WriterDies ==
    /\ \/ executor.pc = "write" /\ executor' = NoExecutor /\ UNCHANGED assessor
       \/ assessor.pc = "write" /\ assessor' = NoAssessor /\ UNCHANGED executor
    /\ torn' = TRUE
    /\ UNCHANGED <<campaign, done>>

CampaignNext ==
    \/ assert_transition_allowed \/ run_d2_preflight \/ RunCell \/ _append_history
    \/ ReadForAssessment \/ record_confirmation_assessment \/ WriterDies

-----------------------------------------------------------------------------
(* Properties. *)

(* Every history the two processes can leave behind has a plan: the branches *)
(* plan_next keeps for states it calls impossible are never taken.  No cell  *)
(* has two valid runs in the file, and none is run validly a second time,    *)
(* which would be an eighth run, unless the assessor has written over the    *)
(* entry of the first.                                                       *)
CampaignIsResolved(p) ==
    /\ p.reason \notin
           {"campaign_state_unresolved", "g1_screen_unclassified", "no_eighth_valid_full_run", "eighth_or_beyond"}
    /\ count_valid_full_runs(campaign) = Cardinality(RanIn(campaign))
    /\ done.again \subseteq done.dropped

(* A lane is selected only on three timed runs, at most one of them slower  *)
(* than the median gate and none than the variance gate, with a recorded    *)
(* positive assessment of the third, and after the CPU baseline was run;    *)
(* whatever was retried, assessed late or lost in between.  After a failed  *)
(* assessment none is, unless an append has written over that assessment.   *)
SelectionIsEarned(p) ==
    LET lane == IF p.terminal = "select_g1" THEN G1 ELSE G2
        runs == {campaign[i] : i \in DOMAIN campaign}
    IN p.terminal \in {"select_g1", "select_g2"} =>
         /\ done.refused \subseteq done.forgotten
         /\ \E r \in runs : r.cell_id = "C0" /\ r.validity = "valid"
         /\ \E r \in runs : r.cell_id = lane[3] /\ r.assessed = "passed"
         /\ \A k \in 1..3 : \E r \in runs : r.cell_id = lane[k] /\ r.validity = "valid" /\ r.wall <= 12
         /\ Cardinality({k \in 1..3 : \E r \in runs : r.cell_id = lane[k] /\ r.validity = "valid" /\ r.wall <= 10}) >= 2

(* The smaller batch is tried only because G1 ran out of memory or cannot   *)
(* meet its time any more, and the CPU baseline precedes every third run    *)
(* and every run of G2 in the file.                                         *)
SecondLaneIsJustified ==
    \A i \in {k \in DOMAIN campaign : campaign[k].cell_id \in ThirdOrG2} :
        /\ \E j \in 1..(i - 1) : campaign[j].cell_id = "C0" /\ campaign[j].validity # "invalid"
        /\ campaign[i].cell_id = "G2-1" =>
             \/ \E j \in 1..(i - 1) : campaign[j].cell_id \in G1Cells /\ campaign[j].validity = "valid_negative_resource"
             \/ \E j \in 1..(i - 1) : campaign[j].cell_id \in G1Cells /\ campaign[j].wall > 12
             \/ \E j, k \in 1..(i - 1) : /\ j # k /\ {campaign[j].cell_id, campaign[k].cell_id} \subseteq G1Cells
                                         /\ campaign[j].wall > 10 /\ campaign[k].wall > 10

(* The dense campaign always has a next step or an end, and its end is       *)
(* justified by the runs in its file.                                        *)
DenseIsJustified ==
    /\ \A p \in {plan_next(campaign)} : CampaignIsResolved(p) /\ SelectionIsEarned(p)
    /\ SecondLaneIsJustified
=============================================================================
