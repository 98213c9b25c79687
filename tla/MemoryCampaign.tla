---------------------------- MODULE MemoryCampaign ----------------------------
(***************************************************************************)
(* The R04 embedding memory campaign (scripts/diag_16k_r04_embedding_      *)
(* memory): cells M0..M5, each run by a fresh process that claims its slot *)
(* in a ledger of files under a lock, measures, writes its evidence and    *)
(* completes the claim.  Which cell may start next is derived, each time,  *)
(* from the raw evidence of every completed claim; nothing else is stored. *)
(*                                                                         *)
(* A run's evidence is abstracted to its outcome and to two peaks counted  *)
(* in units of the material threshold (256 MiB):                           *)
(*   good      complete, correct, in parity with the reference             *)
(*   slow      as good, with a latency over the ten per cent margin        *)
(*   drift     as good, out of parity                                      *)
(*   cached    as good, although a cache was built during the forward      *)
(*   crowded   as good, but with other free memory (or other versions)     *)
(*   forward   CUDA out of memory in the forward pass                      *)
(*   queries   CUDA out of memory after it, while the queries are encoded  *)
(*   load      CUDA out of memory while the model is constructed           *)
(*   convert   CUDA out of memory in the conversion to half precision      *)
(*   failed    anything else (incomplete, incorrect, deadline): invalid    *)
(* Time is counted in units of which a cell may use MaxCell.               *)
(***************************************************************************)
EXTENDS Integers, FiniteSets, SequencesExt

CONSTANTS
    Backends,      \* attention backends other than the baseline's
    Authorities,   \* the sets of M3 cells a human authority may name
    MaxCell,       \* MAX_CELL_SECONDS
    MaxCampaign,   \* MAX_CAMPAIGN_SECONDS
    IdleSpan,      \* how long the operator may pause between two cells
    MaxTrouble     \* bound on bad or deviating replicates, killed processes,
                   \* pauses and edits of the evidence

ASSUME MemoryAssumption ==
    /\ MaxCell \in Nat \ {0} /\ MaxCampaign \in Nat \ {0} /\ IdleSpan \in Nat
    /\ MaxTrouble \in Nat
    /\ \A a \in Authorities : a \subseteq {"M3_A", "M3_B"}

VARIABLES
    memLedger,   \* the claim file of every slot
    memProcess,  \* the live process of the CLAIMED slot: none, running, written
    memBench,    \* what the workload, the device and the authority are
    memIntact,   \* every completed claim still finds the evidence it hashed
    memClock,    \* now: time since the first claim; completed: completed_at_utc of the
                 \* claim completed last
    memTrouble

memoryVars == <<memLedger, memProcess, memBench, memIntact, memClock, memTrouble>>

CUDA_CELL_CAPS ==
    [c \in {"M0", "M1", "M2", "M3_PROFILE", "M3_A", "M3_B", "M4", "M5"} |->
        IF c = "M3_PROFILE" THEN 1 ELSE 3]

CellIds == DOMAIN CUDA_CELL_CAPS \cup {"CPU_ONNX_REFERENCE"}

Slots == {<<c, n>> \in CellIds \X (1 .. 3) :
             n <= IF c \in DOMAIN CUDA_CELL_CAPS THEN CUDA_CELL_CAPS[c] ELSE 1}

Controls == [dtype_mode : {"post_load_half", "direct_fp16"},
             disable_cache : BOOLEAN,
             attention_backend : Backends \cup {"default"},
             batch_strategy : {"fixed32", "m4_partitions"}]

BaselineControls == [dtype_mode |-> "post_load_half", disable_cache |-> FALSE,
                     attention_backend |-> "default", batch_strategy |-> "fixed32"]

Outcomes == {"good", "slow", "drift", "cached", "crowded", "forward", "queries",
             "load", "convert", "failed"}

CellClaim(status, out, controls, t, l, d) ==
    [status |-> status, out |-> out, controls |-> controls,
     target |-> t, load |-> l, duration |-> d]

NoClaim == CellClaim("none", "none", BaselineControls, 0, 0, 0)

-----------------------------------------------------------------------------
(* What reduce_cell_evidence derives from one raw evidence file.           *)

status(run) == CASE run.out \in {"forward", "queries", "load", "convert"} -> "OOM"
                 [] run.out = "failed" -> "NON_OOM_FAILURE"
                 [] OTHER -> "SUCCESS"

valid(run) == status(run) \in {"SUCCESS", "OOM"}

full_workload_complete(run) == status(run) = "SUCCESS"

load_phase_complete(run) == run.out \notin {"load", "convert", "failed"}

forward_phase_complete(run) == run.out \notin {"forward", "load", "convert", "failed"}

\* M2 is measured on the load phase, every other cell on the forward pass.
target_phase_complete(cell, run) ==
    IF cell = "M2" THEN load_phase_complete(run) ELSE forward_phase_complete(run)

forward_oom_observed(run) == run.out = "forward"

cache_activation_witness(cell, run) ==
    \/ run.out = "cached"
    \/ cell = "M0" /\ memBench.cache = "active" /\ run.out \notin {"load", "convert"}

\* the configuration is read from the constructed model
cache_config_known(run) == memBench.cache # "unknown" /\ run.out # "load"

encode_wall_ms(run) == IF run.out = "slow" THEN 12 ELSE 10

\* Neither the headroom nor the campaign identity of the pair may differ.
comparable(a, b) == (a.out = "crowded") <=> (b.out = "crowded")

-----------------------------------------------------------------------------
(* The ledger, as _load_completed_claims reads it.                         *)

Claimed == {s \in Slots : memLedger[s].status = "CLAIMED"}
Finished == {s \in Slots : memLedger[s].status = "COMPLETED"}

_load_completed_claims ==
    memIntact /\ \A s \in Finished : valid(memLedger[s])

SlotsOf == [cell \in CellIds |-> {s \in Slots : s[1] = cell}]

_runs_for(cell) == {s \in SlotsOf[cell] : memLedger[s].status = "COMPLETED"}

Run(cell, n) == memLedger[<<cell, n>>]

_three_valid_runs(cell, full_success) ==
    \A n \in 1 .. 3 :
        /\ Run(cell, n).status = "COMPLETED"
        /\ valid(Run(cell, n))
        /\ full_success => full_workload_complete(Run(cell, n))

\* replicates of one cell have the same controls: the start of each requires it
_condition_controls(cell) == memLedger[<<cell, 1>>].controls

\* The vectors parity is measured against.
_reference_run ==
    \/ \E s \in _runs_for("M0") : full_workload_complete(memLedger[s])
    \/ _runs_for("CPU_ONNX_REFERENCE") # {}

Changed(a, b) == {k \in DOMAIN a : a[k] # b[k]}

ControlChange == [M1 |-> "disable_cache", M2 |-> "dtype_mode", M3_A |-> "attention_backend",
                  M3_B |-> "attention_backend", M4 |-> "batch_strategy"]

Median(f) == CHOOSE x \in {f[n] : n \in 1 .. 3} :
                /\ Cardinality({n \in 1 .. 3 : f[n] <= x}) >= 2
                /\ Cardinality({n \in 1 .. 3 : f[n] >= x}) >= 2

\* evaluate_mechanism_pairs answers SUPPORTED.
evaluate_mechanism_pairs(base, cell) ==
    LET b == [n \in 1 .. 3 |-> Run(base, n)]
        t == [n \in 1 .. 3 |-> Run(cell, n)]
        reduction == [n \in 1 .. 3 |-> IF cell = "M2" THEN b[n].load - t[n].load
                                                     ELSE b[n].target - t[n].target]
    IN /\ \A n \in 1 .. 3 :
             /\ Changed(b[n].controls, t[n].controls) = {ControlChange[cell]}
             /\ IF cell = "M2" THEN load_phase_complete(b[n])
                               ELSE target_phase_complete(base, b[n])
             /\ target_phase_complete(cell, t[n])
             /\ comparable(b[n], t[n])
       /\ Median(reduction) >= 1
       /\ Cardinality({n \in 1 .. 3 : reduction[n] >= 1}) >= 2

\* evaluate_parity against the reference vectors.
evaluate_parity(run) == run.out # "drift"

\* evaluate_production_candidate answers QUALIFIED: a baseline run that ran out
\* of memory before its forward pass ended has no encode_wall_ms, and a missing
\* latency is INCONCLUSIVE.
evaluate_production_candidate(base, cell) ==
    /\ \A n \in 1 .. 3 : full_workload_complete(Run(cell, n))
    /\ \A n \in 1 .. 3 : evaluate_parity(Run(cell, n))
    /\ \A n \in 1 .. 3 : forward_phase_complete(Run(base, n))
    /\ LET wall(c) == Median([n \in 1 .. 3 |-> encode_wall_ms(Run(c, n))])
       IN 10 * wall(cell) <= 11 * wall(base)

_qualified_candidate(base, cell) ==
    /\ _three_valid_runs(cell, TRUE)
    /\ _reference_run
    /\ evaluate_mechanism_pairs(base, cell)
    /\ evaluate_production_candidate(base, cell)

QualifiedM1 == /\ \A n \in 1 .. 3 : ~cache_activation_witness("M1", Run("M1", n))
               /\ _qualified_candidate("M0", "M1")

Stages == <<{"M1"}, {"M2"}, {"M3_A", "M3_B"}, {"M4"}>>

\* The cells of one stage that qualify over the cell accepted before it.
QualifiedAt(k, base) == {c \in Stages[k] : IF c = "M1" THEN QualifiedM1
                                                       ELSE _qualified_candidate(base, c)}

\* _qualified_treatments: the cells accepted through a stage, in order.  With
\* both M3 cells qualified the code raises; that start is refused (Ambiguous).
_qualified_treatments(through) ==
    LET accepted[k \in 0 .. through] ==
            IF k = 0 THEN <<>>
            ELSE LET before == accepted[k - 1]
                     more == QualifiedAt(k, IF before = <<>> THEN "M0" ELSE Last(before))
                 IN IF more = {} THEN before ELSE Append(before, CHOOSE c \in more : TRUE)
    IN IF _three_valid_runs("M0", FALSE) THEN accepted[through] ELSE <<>>

_active_condition(through) ==
    LET accepted == _qualified_treatments(through)
    IN IF accepted = <<>> THEN "M0" ELSE Last(accepted)

Ambiguous == QualifiedAt(3, _active_condition(2)) = {"M3_A", "M3_B"}

_cache_state ==
    CASE ~_three_valid_runs("M0", FALSE) -> "UNRESOLVED"
      [] ~\A n \in 1 .. 3 : cache_config_known(Run("M0", n)) -> "INCONCLUSIVE"
      [] memBench.cache = "disabled"     -> "DISABLED_BY_BASELINE"
      [] ~\E n \in 1 .. 3 : cache_activation_witness("M0", Run("M0", n))
                                         -> "BASELINE_CACHE_UNACTIVATED"
      [] ~_three_valid_runs("M1", FALSE) -> "M1_REQUIRED_OR_FAILED"
      [] OTHER -> IF QualifiedM1 THEN "DISABLED_BY_M1" ELSE "BASELINE_CACHE_RETAINED"

\* Amendment 001: a material forward increment in three complete runs, or two
\* forward passes out of memory.
_m3_opening_supported ==
    LET active == _active_condition(2)
    IN \/ memBench.forward /\ \A n \in 1 .. 3 : forward_phase_complete(Run(active, n))
       \/ Cardinality({n \in 1 .. 3 : forward_oom_observed(Run(active, n))}) >= 2

\* greedy_token_partitions would save padding; a run that ran out of memory while
\* the model was loaded has no token counts.
_m4_opening_supported ==
    /\ memBench.skewed
    /\ \A n \in 1 .. 3 : Run(_active_condition(3), n).out \notin {"load", "convert"}

ProfileComplete ==
    _runs_for("M3_PROFILE") # {} /\ full_workload_complete(memLedger[<<"M3_PROFILE", 1>>])

_observed_baseline_sdpa_backend == IF ProfileComplete THEN memBench.observed ELSE FALSE

_eligible_sdpa_backends == IF _observed_baseline_sdpa_backend THEN memBench.eligible ELSE {}

Backend(cell) == memLedger[<<cell, 1>>].controls.attention_backend

_m3_treatment_completed ==
    \/ ~_m3_opening_supported
    \/ /\ _observed_baseline_sdpa_backend
       /\ \/ _eligible_sdpa_backends = {}
          \/ /\ "M3_A" \in memBench.authority
             /\ _three_valid_runs("M3_A", TRUE)
             /\ LET remaining == _eligible_sdpa_backends \ {Backend("M3_A")}
                IN \/ remaining = {}
                   \/ /\ "M3_B" \in memBench.authority
                      /\ _three_valid_runs("M3_B", TRUE)
                      /\ Backend("M3_B") \in remaining

-----------------------------------------------------------------------------
(* Starting a cell.                                                        *)

With(cell, key, value) == [_condition_controls(cell) EXCEPT ![key] = value]

\* _validate_cell_spec: what a spec of the cell may ask for at all.
_validate_cell_spec(cell, c) ==
    CASE cell \in {"M0", "CPU_ONNX_REFERENCE"} -> c = BaselineControls
      [] cell = "M1" -> c = [BaselineControls EXCEPT !.disable_cache = TRUE]
      [] cell = "M2" -> /\ c.dtype_mode = "direct_fp16" /\ c.batch_strategy = "fixed32"
                        /\ c.attention_backend = "default"
      [] cell = "M3_PROFILE" -> c.batch_strategy = "fixed32"
      [] cell \in {"M3_A", "M3_B"} -> /\ c.attention_backend # "default"
                                     /\ c.batch_strategy = "fixed32"
      [] cell = "M4" -> c.batch_strategy = "m4_partitions"
      [] OTHER -> TRUE

NextReplicate(cell, n) == n = Cardinality(_runs_for(cell)) + 1

StartM0(n) == _runs_for("M0") = Finished /\ NextReplicate("M0", n)

StartM1(n) ==
    /\ _three_valid_runs("M0", FALSE)
    /\ NextReplicate("M1", n)
    /\ \A k \in 1 .. 3 : cache_config_known(Run("M0", k))
    /\ memBench.cache # "disabled"
    /\ \E k \in 1 .. 3 : cache_activation_witness("M0", Run("M0", k))

StartCpuReference ==
    /\ _three_valid_runs("M0", FALSE)
    /\ \E k \in 1 .. 3 : status(Run("M0", k)) = "OOM"

CacheIsDecided == _cache_state \in {"DISABLED_BY_BASELINE", "DISABLED_BY_M1",
                                   "BASELINE_CACHE_RETAINED", "BASELINE_CACHE_UNACTIVATED"}

StartM2(n) == NextReplicate("M2", n) /\ CacheIsDecided

StartM3Profile ==
    _three_valid_runs("M2", FALSE) /\ CacheIsDecided /\ _m3_opening_supported

StartM3(cell, n) ==
    /\ _three_valid_runs("M2", FALSE) /\ ProfileComplete
    /\ cell = "M3_B" => _three_valid_runs("M3_A", TRUE)
    /\ NextReplicate(cell, n)
    /\ CacheIsDecided /\ _m3_opening_supported

M3Backends(cell) ==
    _eligible_sdpa_backends \ (IF cell = "M3_B" THEN {Backend("M3_A")} ELSE {})

\* M4 alone may be measured in any order of its replicates.
StartM4 ==
    /\ _three_valid_runs("M2", FALSE) /\ CacheIsDecided
    /\ ~Ambiguous
    /\ _m4_opening_supported
    /\ _m3_treatment_completed

M5WithoutM4(n) ==
    /\ _three_valid_runs("M2", FALSE) /\ NextReplicate("M5", n) /\ CacheIsDecided
    /\ n = 1 => /\ ~Ambiguous
                /\ _m3_treatment_completed
                /\ _qualified_treatments(4) # <<>>

StartM5(n) ==
    /\ _three_valid_runs("M2", FALSE) /\ NextReplicate("M5", n) /\ CacheIsDecided
    /\ n = 1 => /\ ~Ambiguous
                /\ _m3_treatment_completed
                /\ _m4_opening_supported => _three_valid_runs("M4", TRUE)
                /\ _qualified_treatments(4) # <<>>

\* The controls the gate of a cell accepts: the active ones with its own change.
\* A cell whose gate is closed has none.
GateControls(cell, n) ==
    CASE cell = "M0" /\ StartM0(n) -> {BaselineControls}
      [] cell = "M1" /\ StartM1(n) -> {[BaselineControls EXCEPT !.disable_cache = TRUE]}
      [] cell = "CPU_ONNX_REFERENCE" /\ StartCpuReference -> {BaselineControls}
      [] cell = "M2" /\ StartM2(n) ->
            {With(_active_condition(1), "dtype_mode", "direct_fp16")}
      [] cell = "M3_PROFILE" /\ StartM3Profile -> {_condition_controls(_active_condition(2))}
      [] cell \in {"M3_A", "M3_B"} /\ StartM3(cell, n) ->
            {With(_active_condition(2), "attention_backend", b) : b \in M3Backends(cell)}
      [] cell = "M4" /\ StartM4 ->
            {With(_active_condition(3), "batch_strategy", "m4_partitions")}
      [] cell = "M5" /\ StartM5(n) ->
            IF n = 1 THEN {_condition_controls(_active_condition(4))} ELSE Controls
      [] OTHER -> {}

authorize_cell_start(cell, n) ==
    {c \in GateControls(cell, n) :
        /\ _load_completed_claims
        /\ _runs_for("M5") # {} => cell = "M5"
        /\ \A s \in _runs_for(cell) : memLedger[s].controls = c}

Spent == MapThenSumSet(LAMBDA s : memLedger[s].duration, Finished)

effective_cell_deadline_seconds ==
    Min({MaxCell, MaxCampaign - memClock.now, MaxCampaign - Spent})

\* The authority names every cell but, perhaps, the attention treatments.
verify_execution_authority(cell) ==
    cell \in {"M3_A", "M3_B"} => cell \in memBench.authority

\* claim_single_cell_process: under the ledger's lock, refused while any claim is
\* unfinished, and at most once for every slot.
claim_single_cell_process ==
    /\ Claimed = {}
    /\ effective_cell_deadline_seconds > 0
    /\ \E s \in Slots :
          /\ memLedger[s].status = "none"
          /\ verify_execution_authority(s[1])
          /\ \E c \in authorize_cell_start(s[1], s[2]) :
                /\ _validate_cell_spec(s[1], c)
                /\ memLedger' = [memLedger EXCEPT ![s].status = "CLAIMED", ![s].controls = c]
    /\ memProcess' = "running"
    /\ UNCHANGED <<memBench, memIntact, memClock, memTrouble>>

-----------------------------------------------------------------------------
(* One cell process after its claim: run_cell, and run_reference.          *)

StageBefore(cell) == CASE cell \in {"M0", "M1"} -> 0
                       [] cell = "M2" -> 1
                       [] cell \in {"M3_PROFILE", "M3_A", "M3_B"} -> 2
                       [] cell = "M4" -> 3
                       [] OTHER -> 4

\* The condition the operator measures the cell against.
Before(cell) == IF StageBefore(cell) = 0 THEN "M0" ELSE _active_condition(StageBefore(cell))

OutcomesOf(cell) ==
    CASE cell = "CPU_ONNX_REFERENCE" -> {"good", "failed"}
      [] cell = "M0" -> Outcomes \ {"slow", "drift", "cached"}
      [] cell = "M1" -> Outcomes \ {"load", "convert", "crowded"}
      [] OTHER -> Outcomes \ {"load", "convert", "cached"}

Peak(cell, s, out, gain, key) ==
    IF cell = "M0" THEN 6
    ELSE memLedger[<<Before(cell), s[2]>>][key]
         - (IF gain /\ (key = "load") = (cell = "M2") THEN 1 ELSE 0)

Gained(s) == LET key == IF s[1] = "M2" THEN "load" ELSE "target"
             IN memLedger[s][key] < memLedger[<<Before(s[1]), s[2]>>][key]

\* Odd: a bad first replicate of a cell, or one unlike the first.
Odd(s, out, gain) ==
    LET others == _runs_for(s[1])
        first == CHOOSE o \in others : \A p \in others : o[2] <= p[2]
    IN IF others = {} THEN out # "good" \/ ~gain
       ELSE \/ out # memLedger[first].out
            \/ s[1] \in DOMAIN ControlChange /\ gain # Gained(first)

\* The evidence file: only cells that are compared need their peaks.
WriteEvidence(s, out, gain) ==
    LET peak(key) == IF s[1] \in DOMAIN ControlChange \cup {"M0"}
                     THEN Peak(s[1], s, out, gain, key) ELSE 0
    IN memLedger' = [memLedger EXCEPT ![s].out = out, ![s].target = peak("target"),
                                      ![s].load = peak("load")]

\* Loading, encoding and the evidence file of the process that holds the claim.
run_cell(s, out, gain) ==
    /\ memProcess = "running" /\ memLedger[s].status = "CLAIMED"
    /\ out \in OutcomesOf(s[1])
    /\ gain \/ out = "good"
    /\ memTrouble' = memTrouble + (IF Odd(s, out, gain) THEN 1 ELSE 0)
    /\ memTrouble' <= MaxTrouble
    /\ WriteEvidence(s, out, gain)
    /\ \/ s[1] # "M3_PROFILE" /\ UNCHANGED memBench
       \/ s[1] = "M3_PROFILE" /\ \E e \in SUBSET Backends, o \in BOOLEAN :
             /\ e # {} => o
             /\ memBench' = [memBench EXCEPT !.eligible = e, !.observed = o]
    /\ memProcess' = "written"
    /\ UNCHANGED <<memIntact, memClock>>

\* complete_cell_process_claim: an overrun leaves CAMPAIGN_LIMIT_EXCEEDED and
\* evidence_validity false, which stops the campaign.
complete_cell_process_claim(s, d) ==
    /\ memProcess = "written" /\ memLedger[s].status = "CLAIMED"
    /\ LET overrun == \/ memClock.now + d >= MaxCampaign \/ Spent + d >= MaxCampaign
                      \/ d >= effective_cell_deadline_seconds
       IN memLedger' = [memLedger EXCEPT ![s].status = "COMPLETED", ![s].duration = d,
                                         ![s].out = IF overrun THEN "failed" ELSE @]
    /\ memClock' = [now |-> memClock.now + d, completed |-> memClock.now + d]
    /\ memProcess' = "none"
    /\ UNCHANGED <<memBench, memIntact, memTrouble>>

\* A process killed, or failing outside the code that records a failure: its
\* claim stays CLAIMED.
KillCell ==
    /\ memProcess # "none" /\ memTrouble < MaxTrouble
    /\ memProcess' = "none" /\ memTrouble' = memTrouble + 1
    /\ UNCHANGED <<memLedger, memBench, memIntact, memClock>>

\* The evidence of a completed cell is moved or edited.
EditEvidence ==
    /\ Finished # {} /\ memIntact /\ memTrouble < MaxTrouble
    /\ memIntact' = FALSE
    /\ memTrouble' = memTrouble + 1
    /\ UNCHANGED <<memLedger, memProcess, memBench, memClock>>

PauseCampaign ==
    /\ memProcess = "none" /\ Finished # {} /\ memTrouble < MaxTrouble
    /\ memClock' = [memClock EXCEPT !.now = @ + IdleSpan] /\ memTrouble' = memTrouble + 1
    /\ UNCHANGED <<memLedger, memProcess, memBench, memIntact>>

MemoryInit ==
    /\ memLedger = [s \in Slots |-> NoClaim]
    /\ memProcess = "none"
    /\ memBench \in [cache : {"unknown", "disabled", "unactivated", "active"},
                     forward : BOOLEAN, skewed : BOOLEAN, authority : Authorities,
                     eligible : {{}}, observed : {FALSE}]
    /\ memIntact = TRUE /\ memClock = [now |-> 0, completed |-> 0] /\ memTrouble = 0

MemoryNext ==
    \/ claim_single_cell_process
    \/ \E s \in Claimed : \/ \E out \in Outcomes, gain \in BOOLEAN : run_cell(s, out, gain)
                          \/ \E d \in {1, MaxCell} : complete_cell_process_claim(s, d)
    \/ EditEvidence
    \/ KillCell
    \/ PauseCampaign

MemorySpec == MemoryInit /\ [][MemoryNext]_memoryVars

-----------------------------------------------------------------------------
(* Properties                                                              *)

\* A treatment that was measured keeps the baseline it was measured on: the
\* accepted condition never changes under a cell that already ran, which would make
\* its pairs differ in two controls and lose the cell, as no slot is run again.
BaselineStays ==
    \A cell \in {"M2", "M3_A", "M3_B", "M4"} :
        _runs_for(cell) # {} /\ (cell = "M4" => ~Ambiguous) =>
            Changed(_condition_controls(_active_condition(StageBefore(cell))),
                    memLedger[CHOOSE s \in _runs_for(cell) : TRUE].controls)
              = {ControlChange[cell]}

\* The same as long as the vectors of a baseline run are the reference: then only
\* the order of the cells protects the accepted conditions.
BaselineStaysWithReference ==
    (\E s \in _runs_for("M0") : full_workload_complete(memLedger[s])) => BaselineStays

\* What M5 confirms is the last accepted condition, still, with every stage the
\* workload opens resolved, and differs from the baseline in the controls of the
\* accepted treatments and in no other.  A forward pass that needs memory opens M3:
\* it was profiled, and every eligible backend measured three times, as far as the
\* two M3 cells go.  Skewed lengths open M4: it was measured three times.
ConfirmedIsAccepted ==
    LET confirmed == {s \in SlotsOf["M5"] : memLedger[s].status # "none"}
        tried == {Backend(c) : c \in {m \in {"M3_A", "M3_B"} : _three_valid_runs(m, TRUE)}}
    IN confirmed # {} =>
        /\ ~Ambiguous
        /\ memBench.forward =>
              /\ memBench.observed /\ memLedger[<<"M3_PROFILE", 1>>].status = "COMPLETED"
              /\ memBench.eligible \subseteq tried \/ Cardinality(tried) = 2
        /\ memBench.skewed => _three_valid_runs("M4", TRUE)
        /\ \A accepted \in {_qualified_treatments(4)} :
              /\ accepted # <<>>
              /\ \A s \in confirmed :
                    /\ memLedger[s].controls = _condition_controls(Last(accepted))
                    /\ Changed(BaselineControls, memLedger[s].controls)
                         = {ControlChange[c] : c \in ToSet(accepted)}

\* A baseline run out of memory in its forward pass qualifies nothing: the forward peaks of its pairs
\* are censored and the load comparison of M2, which is not, lacks the latency.
\* The CPU reference, which a baseline out of memory admits, then decides nothing.
CensoredQualifiesNothing ==
    (\E s \in _runs_for("M0") : memLedger[s].out \in {"forward", "load", "convert"}) =>
        _qualified_treatments(4) = <<>>

\* Evidence counted as valid was measured within the limit of a cell, and both
\* within the campaign's limits: the time the cells took together and the time since
\* the first claim, pauses included.  No cell runs after that time, and none
\* after evidence that was not valid.
ValidWithinLimits ==
    LET bad == {s \in Finished : ~valid(memLedger[s])}
    IN /\ \A s \in Finished \ bad : memLedger[s].duration < MaxCell
       /\ Cardinality(bad) <= 1
       /\ bad = {} => Spent < MaxCampaign /\ memClock.completed < MaxCampaign
       /\ memProcess # "none" => bad = {} /\ memClock.now < MaxCampaign

\* The memory campaign confirms what its valid cells accepted: within the limits,
\* against one baseline, and never on censored evidence.
MemoryIsConfirmed ==
    /\ BaselineStaysWithReference /\ ConfirmedIsAccepted
    /\ CensoredQualifiesNothing /\ ValidWithinLimits
=============================================================================
