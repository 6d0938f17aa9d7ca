----------------------------- MODULE MCRuntime ------------------------------
(* A model directory, the commands that look at it and the gates of the    *)
(* runtime.  A gate only looks: its run is explored while no command is in *)
(* the middle of its own, and what is broken varies before there was one.  *)
EXTENDS Readiness

CONSTANTS right, other

MCWanted == [t \in Targets |-> right]
MCSize == [t \in Targets |-> 1]

(* No defect, one, or two of those that hide one another.                  *)
MCFaultSets ==
  {{}} \cup {{p} : p \in Parts}
    \cup {{p, q} : p, q \in {"torch", "kernel", "numpy", "cuda", "rasterizer_operation"}}

RuntimeNext ==
  \/ /\ command.pc \in {"idle", "SHAPE_MODEL_PREFLIGHT_READY"} /\ Gate
     /\ command.pc = "idle" \/ observation'.broken \subseteq {"renderer", "renderer_artifact"}
  \/ observation.pc = "none" /\ PreNext /\ UNCHANGED observation
  \/ /\ observation.pc \in Scanning \cup {"scanned"}
     /\ Acquisition \/ People
     /\ UNCHANGED observation

RuntimeSpec == ReadinessInit /\ [][RuntimeNext]_runtimeVars
=============================================================================
