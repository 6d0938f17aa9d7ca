----------------------------- MODULE Readiness ------------------------------
(***************************************************************************)
(* The gates of the runtime image: `ready --profile cpu | native-gpu`      *)
(* (src/docker/readiness.py), the health report (health.py) and the three  *)
(* smoke programs (native_smoke.py, gpu_smoke.py, dependency_smoke.py),    *)
(* beside the directories and files that the commands of Preflight use.    *)
(*                                                                         *)
(* Each program imports and tries the same software in its own order and   *)
(* with its own handlers.  broken is what does not work: the verdicts are  *)
(* functions of it, of the state of the directories and of the model files *)
(* that a scan of the model directory came upon.                           *)
(***************************************************************************)
EXTENDS Preflight

CONSTANTS
  FaultSets      \* what may be broken at once

VARIABLES
  observation    \* what one run of a gate has seen

runtimeVars == <<preVars, observation>>

(* What may be broken, each for itself.                                    *)
Parts ==
  {"python", "config", "torch", "torchvision", "pins", "revision", "numpy", "diffusers",
   "rasterizer_artifact", "renderer_artifact", "rasterizer", "kernel", "renderer",
   "renderer_operation", "smi", "cuda", "tensor", "rasterizer_operation", "cache_inside"}

ASSUME FaultsAssumption == FaultSets \subseteq SUBSET Parts

NotObserved ==
  [pc |-> "none", source |-> TRUE, locks |-> "unlisted", entries |-> {}, weights |-> FALSE,
   broken |-> {}, roots |-> [d \in Roots |-> "writable"], ready |-> FALSE, lost |-> {}]
----------------------------------------------------------------------------
(* One run of a gate: the source directory, then the model files, then     *)
(* what is native and the directories.                                     *)

Scanning == {"listed", "looking"}
Observe(o) == observation' = o /\ UNCHANGED preVars
DiagnosticError == Observe([NotObserved EXCEPT !.pc = "DIAGNOSTIC_ERROR"])

(* _hunyuan_diagnostics; then _model_diagnostics lists the directory of    *)
(* the models, if there is one.                                            *)
ListModels ==
  /\ observation.pc \notin Scanning \cup {"scanned"}
  /\ Observe([NotObserved EXCEPT
       !.pc = IF roots["models"] = "missing" THEN "scanned" ELSE "listed",
       !.source = roots["hunyuan_source"] # "missing"])

(* Mutant: the checkpoint directory of the source alone is scanned.        *)
ModelFilesOfSource == {}

(* Entries with the extension of a model; the ".part" of a temporary file  *)
(* is none of them.                                                        *)
ModelFiles == {t \in Weights : files[t] # Missing}

(* The scan descends into what was listed; a directory that is gone by     *)
(* then is an error that ends the gate.  ready and lost are history: a     *)
(* preflight was ready when the files were listed, and what was not right  *)
(* any more then or when it was looked at.                                 *)
ListFiles ==
  /\ observation.pc = "listed"
  /\ IF roots["models"] = "missing" THEN DiagnosticError
     ELSE Observe([observation EXCEPT
            !.pc = "looking", !.entries = ModelFiles,
            !.ready = command.pc = "SHAPE_MODEL_PREFLIGHT_READY", !.lost = lost])

(* is_file follows a symbolic link.                                        *)
IsFile(t, answer) ==
  IF files[t] = Irregular THEN answer \in BOOLEAN ELSE answer = (files[t] \in Contents)

LookAt(t) ==
  /\ observation.pc = "looking" /\ t \in observation.entries
  /\ \E answer \in BOOLEAN :
       /\ IsFile(t, answer)
       /\ Observe([observation EXCEPT
            !.entries = @ \ {t}, !.weights = @ \/ answer,
            !.lost = @ \cup (NotRight(files) \cap {t})])

(* The directory of locks, before or after that of the models.             *)
ListLocks ==
  /\ observation.pc \in Scanning /\ observation.locks = "unlisted"
  /\ Observe([observation EXCEPT !.locks = IF lock THEN "listed" ELSE "visited"])

VisitLock ==
  /\ observation.pc \in Scanning /\ observation.locks = "listed"
  /\ IF lock THEN Observe([observation EXCEPT !.locks = "visited"]) ELSE DiagnosticError

(* Every directory is listed once more, after its files were looked at.    *)
EndScan ==
  /\ observation.pc = "looking" /\ observation.entries = {} /\ observation.locks = "visited"
  /\ \/ Observe([observation EXCEPT !.pc = "scanned"])
     \/ roots["models"] = "missing" /\ DiagnosticError

(* The renderer is compiled and imported in the source directory.          *)
Probe(faults) ==
  /\ observation.pc = "scanned"
  /\ observation' = [observation EXCEPT
       !.pc = "observed", !.roots = roots,
       !.broken = faults \cup (IF observation.source THEN {} ELSE {"renderer_artifact"})
                         \cup (IF roots["hunyuan_source"] = "missing" THEN {"renderer"} ELSE {})]
  /\ UNCHANGED preVars
----------------------------------------------------------------------------
(* The diagnostics, of an observation o.                                   *)

Works(o, parts) == o.broken \cap parts = {}

(* _pytorch_diagnostics.                                                   *)
TorchImports(o) == Works(o, {"torch", "torchvision"})
TorchPinned(o) == TorchImports(o) /\ Works(o, {"pins"})
CudaAvailable(o) == TorchImports(o) /\ Works(o, {"cuda"})
TorchOperation(o) == CudaAvailable(o) /\ Works(o, {"tensor"})

Dependencies(o) == Works(o, {"numpy", "diffusers"})
Artifacts(o) == Works(o, {"rasterizer_artifact", "renderer_artifact"})
NativeImports(o) == Works(o, {"rasterizer", "kernel", "renderer"})

(* Mutant: the GPU operation is tried before the renderer's.               *)
NativeReportGpuFirst(o, gpu) ==
  {k \in {"rasterizer", "renderer", "renderer_operation", "rasterizer_operation"} :
     /\ NativeImports(o) /\ Works(o, {"torch"})
     /\ k = "renderer_operation" =>
          Works(o, {"numpy", "renderer_operation"})
            /\ (gpu => Works(o, {"rasterizer_operation"}))
     /\ k = "rasterizer_operation" => gpu /\ Works(o, {"cuda", "rasterizer_operation"})}

(* collect_native_smoke: what it reports to work.  The first exception     *)
(* ends the report: no import is reported unless all succeed, and no GPU   *)
(* operation unless the renderer's has succeeded.                          *)
NativeReport(o, gpu) ==
  {k \in {"rasterizer", "renderer", "renderer_operation", "rasterizer_operation"} :
     /\ NativeImports(o) /\ Works(o, {"torch"})
     /\ k \in {"renderer_operation", "rasterizer_operation"} =>
          Works(o, {"numpy", "renderer_operation"})
     /\ k = "rasterizer_operation" => gpu /\ Works(o, {"cuda", "rasterizer_operation"})}

SoftwareChecks ==
  {"python.version", "runtime.config", "torch.import", "torch.version", "hunyuan.source",
   "hunyuan.revision", "dependencies.imports", "native.artifacts"}

(* The checks that pass of those on software and source.                   *)
SoftwarePasses(o, k) ==
  CASE k = "python.version" -> Works(o, {"python"})
    [] k = "runtime.config" -> Works(o, {"config"})
    [] k = "torch.import" -> TorchImports(o)
    [] k = "torch.version" -> TorchPinned(o)
    [] k = "hunyuan.source" -> o.source
    [] k = "hunyuan.revision" -> Works(o, {"revision"})
    [] k = "dependencies.imports" -> Dependencies(o)
    [] k = "native.artifacts" -> Artifacts(o)

NativeChecks == {"rasterizer", "renderer", "renderer_operation"}

(* Mutant: only the models are written to.                                 *)
PathPassesModels(o, k) ==
  CASE k = "cache.external" -> Works(o, {"cache_inside"})
    [] k = "models" -> o.roots[k] = "writable"
    [] OTHER -> TRUE

(* _path_checks and _model_cache_external_check.                           *)
PathChecks == Roots \cup {"cache.external"}
PathPasses(o, k) ==
  CASE k = "cache.external" -> Works(o, {"cache_inside"})
    [] k = "hunyuan_source" -> o.roots[k] # "missing"
    [] OTHER -> o.roots[k] = "writable"

GpuChecks == {"gpu.visible", "cuda.available", "cuda.operation", "rasterizer_operation"}

(* _gpu_checks.                                                            *)
GpuPasses(o, k) ==
  CASE k = "gpu.visible" -> CudaAvailable(o) \/ Works(o, {"smi"})
    [] k = "cuda.available" -> CudaAvailable(o)
    [] k = "cuda.operation" -> TorchOperation(o)
    [] k = "rasterizer_operation" -> k \in NativeReport(o, TRUE)

(* collect_readiness: the checks that fail; weights.present and            *)
(* inference.full_ready always pass.                                       *)
Failed(o, profile) ==
  LET gpu == profile = "native-gpu" IN
  {k \in SoftwareChecks : ~SoftwarePasses(o, k)}
    \cup (NativeChecks \ NativeReport(o, gpu))
    \cup {k \in PathChecks : ~PathPasses(o, k)}
    \cup {k \in GpuChecks : gpu /\ ~GpuPasses(o, k)}

Ready(o, profile) == Failed(o, profile) = {}

(* Mutant: the native extensions are not part of it.                       *)
HealthWithoutNative(o) ==
  /\ Works(o, {"python", "revision"})
  /\ TorchPinned(o) /\ Dependencies(o)
  /\ o.source
  /\ Artifacts(o)
  /\ ~o.weights

(* collect_health: HUNYUAN_NATIVE_EXTENSIONS_READY.                        *)
Healthy(o) ==
  /\ Works(o, {"python", "revision"})
  /\ TorchPinned(o) /\ Dependencies(o)
  /\ o.source
  /\ Artifacts(o) /\ NativeImports(o)
  /\ ~o.weights

(* Exit code 0 of health.py --require-gpu --require-native-gpu.            *)
HealthSucceeds(o) ==
  /\ TorchOperation(o)
  /\ NativeImports(o) /\ "rasterizer_operation" \in NativeReport(o, TRUE)

(* Exit code 0 of the smoke programs, the native one with                  *)
(* --require-gpu-operation.                                                *)
GpuSmokeSucceeds(o) == Works(o, {"torch", "cuda", "tensor"})
DependencySmokeSucceeds(o) == TorchPinned(o) /\ Dependencies(o)
NativeSmokeSucceeds(o) ==
  {"renderer_operation", "rasterizer_operation"} \subseteq NativeReport(o, TRUE)
----------------------------------------------------------------------------
ReadinessInit == PreInit /\ observation = NotObserved

Scan ==
  \/ ListModels \/ ListFiles \/ ListLocks \/ VisitLock \/ EndScan
  \/ \E t \in Weights : LookAt(t)

Gate == Scan \/ \E faults \in FaultSets : Probe(faults)

ReadinessNext ==
  \/ Gate
  \/ PreNext /\ UNCHANGED observation

ReadinessSpec == ReadinessInit /\ [][ReadinessNext]_runtimeVars
----------------------------------------------------------------------------
Observed == observation.pc = "observed"

(* The profiles nest: without a GPU, or with one that fails in any way,    *)
(* `--profile native-gpu` fails only in the checks that it adds, and the   *)
(* verdict for cpu is the same (src/docker/readiness.py:478-495).          *)
ProfilesNest ==
  Observed =>
    Failed(observation, "cpu") = Failed(observation, "native-gpu") \ GpuChecks

(* Two programs judge the same software: `ready --profile cpu` implies the *)
(* health report while there are no weights, and where only the health     *)
(* report is content, what fails is what health.py does not look at.       *)
HealthAgrees ==
  Observed =>
    /\ Ready(observation, "cpu") /\ ~observation.weights => Healthy(observation)
    /\ Healthy(observation) =>
         Failed(observation, "cpu") \subseteq
           PathChecks \cup {"runtime.config", "renderer_operation"}

(* READY is enough for what comes next: every smoke program succeeds after *)
(* a READY of native-gpu, and while the directories stay as they were, the *)
(* asset pipeline accepts them unless a path is relative (readiness        *)
(* accepts relative paths).                                                *)
ReadyServes ==
  /\ Observed /\ Ready(observation, "native-gpu") =>
       /\ HealthSucceeds(observation) /\ GpuSmokeSucceeds(observation)
       /\ DependencySmokeSucceeds(observation) /\ NativeSmokeSucceeds(observation)
  /\ Observed /\ Ready(observation, "cpu") /\ roots = observation.roots => RootsUsable(FALSE)

(* A gate that lists the model files while a preflight is ready reports    *)
(* them, unless all were lost since that preflight began, at the latest    *)
(* when the scan looked at them (_model_diagnostics).                      *)
WeightsReported ==
  observation.pc \in {"scanned", "observed"} /\ observation.ready =>
    observation.weights \/ Weights \subseteq observation.lost
----------------------------------------------------------------------------
Observations ==
  [pc : Scanning \cup {"none", "scanned", "observed", "DIAGNOSTIC_ERROR"},
   source : BOOLEAN, locks : {"unlisted", "listed", "visited"}, entries : SUBSET Weights,
   weights : BOOLEAN, broken : SUBSET Parts,
   roots : [Roots -> {"missing", "readonly", "writable"}], ready : BOOLEAN,
   lost : SUBSET Targets]

(* The variables have these types.                                         *)
ReadinessTypeOK == observation \in Observations

(* Everything the preservation of the properties rests on, typed.  What a  *)
(* scan owes a preflight that was ready: whatever model file it has not    *)
(* come upon is lost, or it has yet to look at it.                         *)
RuntimeInv ==
  /\ PreInv
  /\ ReadinessTypeOK
  /\ observation.pc \in {"scanned", "observed"} => observation.entries = {}
  /\ observation.ready /\ ~observation.weights =>
       Weights \subseteq observation.entries \cup observation.lost
=============================================================================
