-------------------------- MODULE CpuQualification --------------------------
(* The three CPU qualification ladders of dense embedding: OpenVINO, ONNX   *)
(* and GGUF (dense/cpu_*_feasibility.py, _harness.py, _executor.py and      *)
(* cpu_gguf_server.py).  A ladder is a list of stage results; plan_next     *)
(* names the one stage that may run, the harness refuses every other, the   *)
(* executor works on export directories or on a llama-server process.  An   *)
(* exception leaves no result; a killed harness leaves its files and, for   *)
(* GGUF, its server.  One ladder is followed at a time.                     *)
EXTENDS Naturals, Sequences, FiniteSets

CONSTANTS
    Projections,     \* minutes a screen may project or a full run may take
    MaxTampering,    \* bound: replacements of a tree or of the server binary
    MaxAborts        \* bound: stages that end without a result

ASSUME LadderBounds == Projections \subseteq Nat /\ {MaxTampering, MaxAborts} \subseteq Nat

VARIABLES
    lane,        \* "ov", "onnx" or "gguf"
    ladder,      \* the stage results recorded so far
    stage,       \* the stage that runs: [id, pc, tree, ran, swapped]; tree: what it hashed,
                 \* ran: the binary it launched, swapped: another was installed in between
    exports,     \* export directories: [precision, tree, source]; tree stands for the tree
                 \* hash, source for that of the tree it was copied from
    runtime,     \* llama-server: the binary installed, the pin, the process
    aborts       \* stages that ended without a result

ladderVars == <<lane, ladder, stage, exports, runtime, aborts>>

SCREEN_EXCELLENT_MAX_MIN == 15
SCREEN_VIABLE_MAX_MIN == 25
FEASIBLE_MAX_MIN == 25
Dirs == {"stage0", "fp16", "int8", "fp32", "qint8"}
ExportDir(p) == [precision |-> p, tree |-> 0, source |-> 0]
Absent == ExportDir("absent")
NoStage == [id |-> "none", pc |-> "none", tree |-> 0, ran |-> 0, swapped |-> FALSE]

(* tree is the hash a result records; of, source, ran and swapped tell what *)
(* the stage really worked on.                                              *)
StageResult(id, ok) ==
    [stage_id |-> id, ok |-> ok, projected |-> 0, parity_ok |-> FALSE, wall |-> 0,
     counts_ok |-> FALSE, of |-> "none", tree |-> 0, source |-> 0, ran |-> 0, swapped |-> FALSE]

-----------------------------------------------------------------------------
(* The planners. *)

Done(h, id) == \E i \in DOMAIN h : h[i].stage_id = id
_latest(h, id) == h[CHOOSE i \in DOMAIN h : h[i].stage_id = id /\ \A j \in DOMAIN h : h[j].stage_id = id => j <= i]
Passed(h, id) == Done(h, id) /\ _latest(h, id).ok

FeasibilityPlan(terminal, next, candidate) == [terminal |-> terminal, next_action |-> next, selected_candidate |-> candidate]
Awaiting(id) == FeasibilityPlan("awaiting_stage", id, "none")
Stop(why) == FeasibilityPlan(why, "none", "none")

classify_screen_projection(minutes) ==
    IF minutes <= SCREEN_EXCELLENT_MAX_MIN THEN "excellent"
    ELSE IF minutes <= SCREEN_VIABLE_MAX_MIN THEN "viable" ELSE "too_slow"

ScreenClass(h, id) == classify_screen_projection(_latest(h, id).projected)
ParityHolds(h, id) == Passed(h, id) /\ _latest(h, id).parity_ok

full_confirm_passes(r) == r.ok /\ r.wall <= FEASIBLE_MAX_MIN /\ r.counts_ok

(* The end of the OpenVINO ladder, for the format that was chosen. *)
ConfirmCandidate(h, w) ==
    CASE ~Done(h, "full_confirm") -> FeasibilityPlan("eligible_full_confirm", "full_confirm", w)
      [] Done(h, "full_confirm") /\ full_confirm_passes(_latest(h, "full_confirm")) -> FeasibilityPlan("select", "none", w)
      [] OTHER -> IF _latest(h, "full_confirm").wall > FEASIBLE_MAX_MIN THEN Stop("stop_too_slow") ELSE Stop("stop_incompatible")

_require_int8_export_then_screen(h) ==
    CASE ~Done(h, "export_int8") -> Awaiting("export_int8")
      [] Done(h, "export_int8") /\ ~Passed(h, "export_int8") -> Stop("stop_incompatible")
      [] Passed(h, "export_int8") /\ ~Done(h, "screen_int8") -> Awaiting("screen_int8")
      [] OTHER -> Stop("screened")

SlowerCandidate(h, chooseFaster) ==
    IF chooseFaster /\ _latest(h, "screen_fp16").projected > _latest(h, "screen_int8").projected THEN "fp16" ELSE "int8"
FasterCandidate(h, chooseFaster) ==
    IF chooseFaster /\ _latest(h, "screen_fp16").projected <= _latest(h, "screen_int8").projected THEN "fp16" ELSE "int8"

_plan_int8_branch(h, chooseFaster) ==
    CASE ~Passed(h, "screen_int8") -> Stop("stop_incompatible")
      [] Passed(h, "screen_int8") /\ ScreenClass(h, "screen_int8") = "too_slow" -> Stop("stop_too_slow")
      [] OTHER -> IF ~Done(h, "parity_int8") THEN Awaiting("parity_int8")
                  ELSE IF ~ParityHolds(h, "parity_int8") THEN Stop("stop_parity_fail")
                  ELSE ConfirmCandidate(h, FasterCandidate(h, chooseFaster))

Int8Ladder(h, chooseFaster) ==
    LET pending == _require_int8_export_then_screen(h)
    IN IF pending.terminal = "screened" THEN _plan_int8_branch(h, chooseFaster) ELSE pending

ov_plan_next(h) ==
    CASE ~Done(h, "export_compat") -> Awaiting("export_compat")
      [] Done(h, "export_compat") /\ ~Passed(h, "export_compat") -> Stop("stop_incompatible")
      [] Passed(h, "export_compat") /\ ~Done(h, "screen_fp16") -> Awaiting("screen_fp16")
      [] Done(h, "screen_fp16") /\ ~Passed(h, "screen_fp16") -> Stop("stop_incompatible")
      [] OTHER ->
         IF ScreenClass(h, "screen_fp16") = "too_slow" THEN Int8Ladder(h, FALSE)
         ELSE IF ~Done(h, "parity_fp16") THEN Awaiting("parity_fp16")
         ELSE IF ~ParityHolds(h, "parity_fp16") THEN Stop("stop_parity_fail")
         ELSE IF ScreenClass(h, "screen_fp16") = "excellent" THEN ConfirmCandidate(h, "fp16")
         ELSE Int8Ladder(h, TRUE)

(* The two single-format ladders differ in their first stages. *)
ScreenThenParity(h, screen, parity, w) ==
    CASE ~Done(h, screen) -> Awaiting(screen)
      [] Done(h, screen) /\ ~Passed(h, screen) -> Stop("stop_incompatible")
      [] Passed(h, screen) /\ _latest(h, screen).projected > SCREEN_VIABLE_MAX_MIN -> Stop("stop_too_slow")
      [] OTHER -> IF ~Done(h, parity) THEN Awaiting(parity)
                  ELSE IF ~ParityHolds(h, parity) THEN Stop("stop_parity_fail")
                  ELSE FeasibilityPlan("eligible_full_confirm", "full_confirm", w)

onnx_plan_next(h) ==
    CASE ~Done(h, "export_fp32") -> Awaiting("export_fp32")
      [] Done(h, "export_fp32") /\ ~Passed(h, "export_fp32") -> Stop("stop_incompatible")
      [] Passed(h, "export_fp32") /\ ~Done(h, "export_qint8_avx2") -> Awaiting("export_qint8_avx2")
      [] Done(h, "export_qint8_avx2") /\ ~Passed(h, "export_qint8_avx2") -> Stop("stop_incompatible")
      [] OTHER -> ScreenThenParity(h, "screen_qint8_avx2", "parity_qint8_avx2", "qint8")

gguf_plan_next(h) ==
    CASE ~Done(h, "stage0_compat") -> Awaiting("stage0_compat")
      [] Done(h, "stage0_compat") /\ ~Passed(h, "stage0_compat") -> Stop("stop_incompatible")
      [] OTHER -> ScreenThenParity(h, "screen_q8_0", "parity_q8_0", "q8_0")

LanePlan == CASE lane = "ov" -> ov_plan_next(ladder) [] lane = "onnx" -> onnx_plan_next(ladder) [] OTHER -> gguf_plan_next(ladder)

-----------------------------------------------------------------------------
(* What the executors share. *)

LadderInit ==
    /\ lane \in {"ov", "onnx", "gguf"}
    /\ ladder = <<>> /\ stage = NoStage /\ aborts = 0
    /\ exports = [d \in Dirs |-> IF d = "stage0" THEN ExportDir("fp32") ELSE Absent]
    /\ runtime = [binary |-> 0, pin |-> 0, process |-> "down"]

Begin(id, pc) ==
    /\ stage.id = "none" /\ LanePlan.next_action = id
    /\ stage' = [NoStage EXCEPT !.id = id, !.pc = pc]
    /\ UNCHANGED <<lane, ladder, exports, runtime, aborts>>

At(id, pc) == stage.id = id /\ stage.pc = pc
Record(r) == ladder' = Append(ladder, r) /\ stage' = NoStage

(* An exception: the files stay, nothing is recorded. *)
Raise == aborts < MaxAborts /\ aborts' = aborts + 1 /\ stage' = NoStage /\ UNCHANGED ladder

FormatOf(id) ==
    CASE id \in {"export_compat", "screen_fp16", "parity_fp16"} -> "fp16"
      [] id \in {"export_int8", "screen_int8", "parity_int8"} -> "int8"
      [] id \in {"export_qint8_avx2", "screen_qint8_avx2", "parity_qint8_avx2"} -> "qint8"
      [] OTHER -> "fp32"

(* The weights of the graph are inspected: a label proves nothing. *)
assert_requested_ir_precision(w) == exports[w].precision = w
assert_requested_onnx_quantization(w) == exports[w].precision = w

Screened(id, w, minutes) == [StageResult(id, TRUE) EXCEPT !.projected = minutes, !.of = exports[w].precision, !.tree = exports[w].tree]
Compared(id, ok, holds, w) == [StageResult(id, ok) EXCEPT !.parity_ok = holds, !.of = exports[w].precision, !.tree = exports[w].tree]
Exported(id, w, ok) ==
    [StageResult(id, ok) EXCEPT !.of = exports'[w].precision, !.tree = exports'[w].tree, !.source = exports'[w].source]

-----------------------------------------------------------------------------
(* OpenVINO. *)

run_export_compat == lane = "ov" /\ Begin("export_compat", "begin")

(* Saving goes into the directory whether it exists or not; the weights are *)
(* those of the checkpoint or already half precision.                       *)
export_openvino_model ==
    /\ At("export_compat", "begin")
    /\ \E p \in {"fp32", "fp16"} : exports' = [exports EXCEPT !["fp16"] = ExportDir(p)]
    /\ stage' = [stage EXCEPT !.pc = "saved"]
    /\ UNCHANGED <<lane, ladder, runtime, aborts>>

(* _compress_openvino_ir_to_fp16 may not take effect; then load and smoke. *)
execute_export_compat ==
    /\ At("export_compat", "saved")
    /\ \E p \in {"fp16", exports["fp16"].precision} :
        /\ exports' = [exports EXCEPT !["fp16"].precision = p]
        /\ \/ /\ assert_requested_ir_precision("fp16")'
              /\ \E ok \in BOOLEAN : Record(Exported("export_compat", "fp16", ok))
              /\ UNCHANGED aborts
           \/ ~assert_requested_ir_precision("fp16")' /\ Raise
    /\ UNCHANGED <<lane, runtime>>

run_export_int8 == lane = "ov" /\ Begin("export_int8", "begin")

(* F011: the one legal source, into a directory that must not exist. *)
assert_int8_source_export_identity == exports["stage0"] = ExportDir("fp32")

materialize_int8_derivative_export ==
    /\ At("export_int8", "begin")
    /\ \/ /\ exports["int8"] = Absent /\ assert_int8_source_export_identity
          /\ stage' = [stage EXCEPT !.pc = "hashed"]
          /\ UNCHANGED <<ladder, aborts>>
       \/ (exports["int8"] # Absent \/ ~assert_int8_source_export_identity) /\ Raise
    /\ UNCHANGED <<lane, exports, runtime>>

(* The copy comes after the hash: of whatever the source is by then. *)
CopyTree ==
    /\ stage.pc = "hashed"
    /\ LET source == exports[IF stage.id = "export_int8" THEN "stage0" ELSE "fp32"]
       IN exports' = [exports EXCEPT ![FormatOf(stage.id)] = [source EXCEPT !.source = source.tree]]
    /\ stage' = [stage EXCEPT !.pc = "copied"]
    /\ UNCHANGED <<lane, ladder, runtime, aborts>>

(* _compress_openvino_weights_int8_asym, the two precision checks, the      *)
(* source hashed again, then load and smoke.                                *)
execute_export_int8 ==
    /\ At("export_int8", "copied")
    /\ \E p \in {"int8", exports["int8"].precision} :
        /\ exports' = [exports EXCEPT !["int8"].precision = p]
        /\ \/ /\ assert_requested_ir_precision("int8")' /\ assert_int8_source_export_identity
              /\ \E ok \in BOOLEAN : Record(Exported("export_int8", "int8", ok))
              /\ UNCHANGED aborts
           \/ ~(assert_requested_ir_precision("int8")' /\ assert_int8_source_export_identity) /\ Raise
    /\ UNCHANGED <<lane, runtime>>

run_ov_screen == lane = "ov" /\ \E id \in {"screen_fp16", "screen_int8"} : Begin(id, "begin")

(* load_openvino_st_model refuses weights that are not what was asked for. *)
load_openvino_st_model(w) == exports[w] # Absent /\ assert_requested_ir_precision(w)

execute_ov_screen ==
    /\ stage.id \in {"screen_fp16", "screen_int8"}
    /\ load_openvino_st_model(FormatOf(stage.id))
    /\ \E m \in Projections : Record(Screened(stage.id, FormatOf(stage.id), m))
    /\ UNCHANGED <<lane, exports, runtime, aborts>>

run_ov_parity == lane = "ov" /\ \E id \in {"parity_fp16", "parity_int8"} : Begin(id, "begin")

execute_ov_parity ==
    /\ stage.id \in {"parity_fp16", "parity_int8"}
    /\ load_openvino_st_model(FormatOf(stage.id))
    /\ \E holds \in BOOLEAN : Record(Compared(stage.id, TRUE, holds, FormatOf(stage.id)))
    /\ UNCHANGED <<lane, exports, runtime, aborts>>

run_full_confirm == lane = "ov" /\ Begin("full_confirm", "begin")

execute_full_confirm ==
    /\ At("full_confirm", "begin") /\ lane = "ov"
    /\ LET w == LanePlan.selected_candidate IN
        /\ load_openvino_st_model(w)
        /\ \E m \in Projections, counts \in BOOLEAN :
             Record([StageResult("full_confirm", counts) EXCEPT !.wall = m, !.counts_ok = counts,
                     !.of = exports[w].precision, !.tree = exports[w].tree])
    /\ UNCHANGED <<lane, exports, runtime, aborts>>

-----------------------------------------------------------------------------
(* ONNX. *)

run_export_fp32 == lane = "onnx" /\ Begin("export_fp32", "begin")

export_onnx_fp32 ==
    /\ At("export_fp32", "begin")
    /\ \/ /\ exports["fp32"] = Absent
          /\ exports' = [exports EXCEPT !["fp32"] = ExportDir("partial")]
          /\ stage' = [stage EXCEPT !.pc = "made"]
          /\ UNCHANGED <<ladder, aborts>>
       \/ exports["fp32"] # Absent /\ Raise /\ UNCHANGED exports
    /\ UNCHANGED <<lane, runtime>>

execute_export_fp32 ==
    /\ At("export_fp32", "made")
    /\ exports' = [exports EXCEPT !["fp32"].precision = "fp32"]
    /\ \E ok \in BOOLEAN : Record(Exported("export_fp32", "fp32", ok))
    /\ UNCHANGED <<lane, runtime, aborts>>

run_export_qint8_avx2 == lane = "onnx" /\ Begin("export_qint8_avx2", "begin")

(* The hash recorded by the accepted source export pins the source. *)
AcceptedTree(id) == _latest(ladder, id).tree
SourceIsPinned == exports["fp32"].precision = "fp32" /\ exports["fp32"].tree = AcceptedTree("export_fp32")

materialize_qint8_avx2_derivative ==
    /\ At("export_qint8_avx2", "begin")
    /\ \/ /\ exports["qint8"] = Absent /\ SourceIsPinned
          /\ stage' = [stage EXCEPT !.pc = "hashed", !.tree = exports["fp32"].tree]
          /\ UNCHANGED <<ladder, aborts>>
       \/ (exports["qint8"] # Absent \/ ~SourceIsPinned) /\ Raise
    /\ UNCHANGED <<lane, exports, runtime>>

(* The quantized graph is written beside the copy; the source must still    *)
(* hash to what it was before the copy.                                     *)
execute_export_qint8_avx2 ==
    /\ At("export_qint8_avx2", "copied")
    /\ \E p \in {"qint8", "fp32"} :
        /\ exports' = [exports EXCEPT !["qint8"].precision = p]
        /\ \/ /\ assert_requested_onnx_quantization("qint8")' /\ exports["fp32"].tree = stage.tree
              /\ \E ok \in BOOLEAN : Record(Exported("export_qint8_avx2", "qint8", ok))
              /\ UNCHANGED aborts
           \/ ~(assert_requested_onnx_quantization("qint8")' /\ exports["fp32"].tree = stage.tree) /\ Raise
    /\ UNCHANGED <<lane, runtime>>

(* Hashed again after the encoding: a tree that changed meanwhile raises. *)
CandidateIsPinned == exports["qint8"].tree = AcceptedTree("export_qint8_avx2")

run_onnx_screen == lane = "onnx" /\ Begin("screen_qint8_avx2", "begin") /\ CandidateIsPinned

load_onnx_st_model == exports["qint8"] # Absent /\ assert_requested_onnx_quantization("qint8")

execute_onnx_screen ==
    /\ stage.id = "screen_qint8_avx2" /\ load_onnx_st_model /\ CandidateIsPinned
    /\ \E m \in Projections : Record(Screened(stage.id, "qint8", m))
    /\ UNCHANGED <<lane, exports, runtime, aborts>>

run_onnx_parity == lane = "onnx" /\ Begin("parity_qint8_avx2", "begin")

execute_onnx_parity ==
    /\ stage.id = "parity_qint8_avx2" /\ load_onnx_st_model
    /\ \E holds \in BOOLEAN : Record(Compared(stage.id, holds, holds, "qint8"))
    /\ UNCHANGED <<lane, exports, runtime, aborts>>

-----------------------------------------------------------------------------
(* GGUF: every stage starts a server, waits for it, and stops it.           *)

(* The pin is the binary that stage 0 accepted. *)
require_llama_server_sha256 == runtime.binary = runtime.pin

run_stage0_compat == lane = "gguf" /\ Begin("stage0_compat", "begin")
run_gguf_screen == lane = "gguf" /\ require_llama_server_sha256 /\ Begin("screen_q8_0", "begin")
run_gguf_parity == lane = "gguf" /\ require_llama_server_sha256 /\ Begin("parity_q8_0", "begin")

(* start: the binary is hashed, which is what the record of the launch says *)
(* of it; then the model file is, and takes its time.                       *)
LlamaServerStart ==
    /\ lane = "gguf" /\ stage.pc = "begin"
    /\ stage.id # "stage0_compat" => require_llama_server_sha256
    /\ stage' = [stage EXCEPT !.pc = "verified", !.tree = runtime.binary]
    /\ UNCHANGED <<lane, ladder, exports, runtime, aborts>>

(* Popen runs the binary that is installed by then. *)
Popen ==
    /\ stage.pc = "verified"
    /\ runtime' = [runtime EXCEPT !.process = "starting"]
    /\ stage' = [stage EXCEPT !.pc = "starting", !.ran = runtime.binary]
    /\ UNCHANGED <<lane, ladder, exports, aborts>>

wait_until_ready ==
    /\ lane = "gguf" /\ stage.pc = "starting"
    /\ stage' = [stage EXCEPT !.pc = "ready"]
    /\ runtime' = [runtime EXCEPT !.process = "up"]
    /\ UNCHANGED <<lane, ladder, exports, aborts>>

LlamaServerStop == [runtime EXCEPT !.process = "down"]

Served(id, ok) == [StageResult(id, ok) EXCEPT !.of = "q8_0", !.tree = stage.tree, !.ran = stage.ran, !.swapped = stage.swapped]

(* Stage 0 records a failure as a result; its binary becomes the pin.       *)
execute_stage0_compat ==
    /\ stage.id = "stage0_compat"
    /\ \E ok \in BOOLEAN :
        /\ ok => stage.pc = "ready"
        /\ Record(Served("stage0_compat", ok))
        /\ runtime' = [LlamaServerStop EXCEPT !.pin = IF ok THEN stage.tree ELSE @]
    /\ UNCHANGED <<lane, exports, aborts>>

execute_gguf_screen ==
    /\ At("screen_q8_0", "ready")
    /\ \E m \in Projections :
        Record([Served("screen_q8_0", TRUE) EXCEPT !.projected = m])
    /\ runtime' = LlamaServerStop
    /\ UNCHANGED <<lane, exports, aborts>>

execute_gguf_parity ==
    /\ At("parity_q8_0", "ready")
    /\ \E holds \in BOOLEAN :
        Record([Served("parity_q8_0", holds) EXCEPT !.parity_ok = holds])
    /\ runtime' = LlamaServerStop
    /\ UNCHANGED <<lane, exports, aborts>>

(* Not ready in time, exited, or wrong vectors: finally stops the server.   *)
ServerStageRaises ==
    /\ lane = "gguf" /\ stage.id \in {"screen_q8_0", "parity_q8_0"}
    /\ Raise /\ runtime' = LlamaServerStop
    /\ UNCHANGED <<lane, exports>>

-----------------------------------------------------------------------------
(* Interference. *)

(* Loading or encoding raised in a stage of the other lanes. *)
StageRaises ==
    /\ lane # "gguf" /\ stage.id # "none"
    /\ Raise /\ UNCHANGED <<lane, exports, runtime>>

HarnessDies ==
    /\ stage.id # "none" /\ Raise
    /\ runtime' = [runtime EXCEPT !.process = IF @ = "down" THEN @ ELSE "orphan"]
    /\ UNCHANGED <<lane, exports>>

Tampered == exports["stage0"].tree + exports["fp32"].tree + exports["qint8"].tree + runtime.binary
TreeIsReplaced ==
    /\ Tampered < MaxTampering
    /\ \/ \E d \in {"stage0", "fp32", "qint8"} :
            /\ exports[d] # Absent /\ exports' = [exports EXCEPT ![d].tree = @ + 1]
            /\ UNCHANGED <<runtime, stage>>
       \/ /\ runtime' = [runtime EXCEPT !.binary = @ + 1]
          /\ stage' = [stage EXCEPT !.swapped = @ \/ stage.pc = "verified"]
          /\ UNCHANGED exports
    /\ UNCHANGED <<lane, ladder, aborts>>

(* The operator clears away an export that was not finished. *)
ExportIsRemoved ==
    /\ stage.id = "none"
    /\ \E d \in {"int8", "fp32", "qint8"} :
        /\ exports[d] # Absent
        /\ LanePlan.next_action = CASE d = "int8" -> "export_int8" [] d = "fp32" -> "export_fp32" [] OTHER -> "export_qint8_avx2"
        /\ exports' = [exports EXCEPT ![d] = Absent]
    /\ UNCHANGED <<lane, ladder, stage, runtime, aborts>>

LadderNext ==
    \/ run_export_compat \/ export_openvino_model \/ execute_export_compat
    \/ run_export_int8 \/ materialize_int8_derivative_export \/ CopyTree \/ execute_export_int8
    \/ run_ov_screen \/ execute_ov_screen \/ run_ov_parity \/ execute_ov_parity
    \/ run_full_confirm \/ execute_full_confirm
    \/ run_export_fp32 \/ export_onnx_fp32 \/ execute_export_fp32
    \/ run_export_qint8_avx2 \/ materialize_qint8_avx2_derivative \/ execute_export_qint8_avx2
    \/ run_onnx_screen \/ execute_onnx_screen \/ run_onnx_parity \/ execute_onnx_parity
    \/ run_stage0_compat \/ run_gguf_screen \/ run_gguf_parity \/ LlamaServerStart \/ Popen \/ wait_until_ready
    \/ execute_stage0_compat \/ execute_gguf_screen \/ execute_gguf_parity \/ ServerStageRaises
    \/ StageRaises \/ HarnessDies \/ TreeIsReplaced \/ ExportIsRemoved

-----------------------------------------------------------------------------
(* Properties. *)

Entries == {ladder[i] : i \in DOMAIN ladder}

(* A recorded measurement of a format was taken on weights of that format,  *)
(* although an export may fail to convert, may be cut short by a death and  *)
(* be found again by a later stage.                                         *)
MeasuredAsNamed ==
    \A r \in Entries : r.stage_id # "full_confirm" /\ lane # "gguf" => r.of = FormatOf(r.stage_id)

(* A candidate is selected only after a full run of that very format within *)
(* the limit, a screen within the limit and a passed parity of it; and when *)
(* both formats qualified it is not the slower one.                         *)
SelectionIsConfirmed ==
    LanePlan.terminal = "select" =>
        LET w == LanePlan.selected_candidate
            screen == CHOOSE r \in Entries : r.stage_id \in {"screen_fp16", "screen_int8"} /\ r.of = w
        IN /\ \E r \in Entries : r.stage_id = "full_confirm" /\ r.of = w /\ r.wall <= 25 /\ r.counts_ok
           /\ \E r \in Entries : r.stage_id \in {"parity_fp16", "parity_int8"} /\ r.of = w /\ r.parity_ok
           /\ screen.projected <= 25
           /\ \A r, p \in Entries :
                (/\ r.stage_id \in {"screen_fp16", "screen_int8"}
                 /\ p.stage_id \in {"parity_fp16", "parity_int8"} /\ p.of = r.of /\ p.parity_ok) =>
                    screen.projected <= r.projected

(* The tree that is screened is the one the accepted export recorded, and a *)
(* derived export was copied from the accepted source: of ONNX the tree the *)
(* FP32 stage recorded, of OpenVINO the frozen one; whatever was replaced   *)
(* on disk between the stages, and between the hash and the copy.           *)
ScreenedIsAccepted ==
    /\ \A r, e \in Entries :
         (r.stage_id = "screen_qint8_avx2" /\ e.stage_id = "export_qint8_avx2") => r.tree = e.tree
    /\ \A e, s \in Entries :
         (e.stage_id = "export_qint8_avx2" /\ s.stage_id = "export_fp32") => e.source = s.tree
    /\ \A e \in Entries : e.stage_id = "export_int8" => e.source = 0

(* All measurements of a GGUF ladder name the server binary that stage 0    *)
(* accepted.  They also come from one binary, even if another was installed *)
(* meanwhile, except when it was installed after the hash of one of their   *)
(* stages and before the launch: the code does not look again.              *)
OneServerBinary ==
    lane = "gguf" => \A r, s \in Entries : (r.ok /\ s.ok) =>
        /\ r.tree = s.tree
        /\ r.ran = s.ran \/ r.swapped \/ s.swapped

(* No stage leaves its server running, however it ends, unless the harness  *)
(* itself was killed.                                                       *)
ServerEndsWithStage == runtime.process \in {"starting", "up"} => stage.id # "none"

(* A CPU lane selects what it measured: the format it names, derived from    *)
(* the tree it accepted, on the server binary its stages pinned, and for     *)
(* OpenVINO confirmed by a full run.                                         *)
LaneIsQualified ==
  /\ MeasuredAsNamed /\ SelectionIsConfirmed /\ ScreenedIsAccepted
  /\ OneServerBinary /\ ServerEndsWithStage
=============================================================================
