---------------------------- MODULE RuntimeProofs ----------------------------
(***************************************************************************)
(* Proofs about Preflight and Readiness, for any manifest, any directories *)
(* and any combination of what is broken.                                  *)
(***************************************************************************)
EXTENDS Readiness, TLAPS

(* A step of the command alone.                                            *)
LEMMA CommandStep ==
  ASSUME PreInv, NEW c \in Progress, CommandKnown(c), Do(c),
         UNCHANGED <<Environment, historyVars>>
  PROVE  PreInv'
<1>1. /\ UNCHANGED <<files, temps, lock, roots, made, changes, wrong, lost>>
      /\ command' = c
  BY DEF Environment, cacheVars, historyVars, Do
<1> QED
  BY <1>1 DEF PreInv, PreTypeOK, CommandKnown, StillRight

(* The end of a command.                                                   *)
LEMMA RefuseStep ==
  ASSUME PreInv, NEW class \in Classes, Refuse(class), UNCHANGED <<Environment, historyVars>>,
         class = "SHAPE_MODEL_PREFLIGHT_READY" => \A t \in Targets : StillRight(t)
  PROVE  PreInv'
<1> PICK c : c = [Idle EXCEPT !.pc = class]
  OBVIOUS
<1>1. c \in Progress /\ c.pc = class /\ \A t \in Targets : c.state[t] = "UNSEEN"
  BY DEF Idle, Progress, FileStates
<1>2. class \notin {"hash", "glob", "temps"}
  BY DEF Classes
<1>3. CommandKnown(c)
  BY <1>1, <1>2 DEF CommandKnown
<1> QED
  BY <1>1, <1>3, CommandStep DEF Refuse

(* The next check, with nothing found yet.                                 *)
LEMMA NextStep ==
  ASSUME PreInv, NEW pc \in Checking \ {"hash", "glob", "temps"}, Do(Next(pc)),
         UNCHANGED <<Environment, historyVars>>
  PROVE  PreInv'
<1> PICK c : c = Next(pc)
  OBVIOUS
<1>1. c \in Progress /\ c.pc = pc /\ c.state = command.state
  BY DEF Next, Progress, PreInv, PreTypeOK
<1>2. CommandKnown(c)
  BY <1>1 DEF CommandKnown, PreInv, Checking
<1> QED
  BY <1>1, <1>2, CommandStep
-----------------------------------------------------------------------------
(* Everybody else.  What was right and is changed is noted as lost.        *)

LEMMA StillRightKept ==
  ASSUME PreInv, Note(files')
  PROVE  \A t \in Targets : StillRight(t) => StillRight(t)'
BY DEF StillRight, Note, NotRight

LEMMA EnvironmentStep ==
  ASSUME PreInv, UNCHANGED command,
         files' \in [Targets -> Contents \cup {Missing, Irregular}],
         temps' \in [Temps -> {"none", "file", "irregular"}], lock' \in BOOLEAN,
         roots' \in [Roots -> {"missing", "readonly", "writable"}],
         made' \subseteq {"output", "workspace"} \X Jobs, changes' \in 0..MaxChanges,
         Note(files') \/ UNCHANGED <<files, historyVars>>
  PROVE  PreInv'
<1>1. \A t \in Targets : StillRight(t) => StillRight(t)'
  BY StillRightKept DEF historyVars, StillRight
<1>2. PreTypeOK'
  BY DEF PreInv, PreTypeOK, Note, NotRight, historyVars
<1>3. CommandKnown(command)'
  BY <1>1 DEF PreInv, CommandKnown
<1> QED
  BY <1>2, <1>3 DEF PreInv

LEMMA AcquisitionKnown ==
  ASSUME PreInv, Acquisition
  PROVE  PreInv'
<1> USE DEF PreInv, PreTypeOK
<1>1. UNCHANGED <<roots, made, changes, command>>
  BY DEF Acquisition
<1>2. CASE TakeLock
  BY <1>1, <1>2, EnvironmentStep DEF TakeLock
<1>3. CASE DropLock
  BY <1>1, <1>3, EnvironmentStep DEF DropLock
<1>4. ASSUME NEW x \in Temps, OpenTemp(x)
      PROVE  PreInv'
  BY <1>1, <1>4, EnvironmentStep DEF OpenTemp
<1>5. ASSUME NEW x \in Temps, RemoveTemp(x)
      PROVE  PreInv'
  BY <1>1, <1>5, EnvironmentStep DEF RemoveTemp
<1>6. ASSUME NEW x \in Temps, NEW t \in Targets, Promote(x, t)
      PROVE  PreInv'
  <2>1. files' \in [Targets -> Contents \cup {Missing, Irregular}] /\ Note(files')
    BY <1>6, FilesAssumption DEF Promote
  <2> QED
    BY <1>1, <1>6, <2>1, EnvironmentStep DEF Promote
<1> QED
  BY <1>2, <1>3, <1>4, <1>5, <1>6 DEF Acquisition

LEMMA PeopleKnown ==
  ASSUME PreInv, People
  PROVE  PreInv'
<1> USE DEF PreInv, PreTypeOK
<1>1. UNCHANGED <<made, command>> /\ changes' \in 0..MaxChanges
  BY ChangesAssumption DEF People
<1>2. ASSUME NEW t \in Targets, NEW content \in Contents \cup {Missing, Irregular},
             ChangeFile(t, content)
      PROVE  PreInv'
  BY <1>1, <1>2, EnvironmentStep DEF ChangeFile
<1>3. ASSUME NEW x \in Temps, ChangeTemp(x)
      PROVE  PreInv'
  BY <1>1, <1>3, EnvironmentStep DEF ChangeTemp
<1>4. ASSUME NEW d \in Roots, NEW state \in {"missing", "readonly"}, Remount(d, state)
      PROVE  PreInv'
  <2>1. roots' \in [Roots -> {"missing", "readonly", "writable"}]
    BY <1>4 DEF Remount
  <2>2. CASE d = "models" /\ state = "missing"
    <3>1. /\ files' = [t \in Targets |-> Missing] /\ temps' = [x \in Temps |-> "none"]
          /\ lock' = FALSE /\ Note(files')
      BY <1>4, <2>2 DEF Remount
    <3>2. files' \in [Targets -> Contents \cup {Missing, Irregular}]
      BY <3>1
    <3>3. temps' \in [Temps -> {"none", "file", "irregular"}] /\ lock' \in BOOLEAN
      BY <3>1
    <3>4. made' \subseteq {"output", "workspace"} \X Jobs
      BY <1>1
    <3> QED
      BY <1>1, <2>1, <3>1, <3>2, <3>3, <3>4, EnvironmentStep
  <2>3. CASE ~(d = "models" /\ state = "missing")
    BY <1>1, <1>4, <2>1, <2>3, EnvironmentStep DEF Remount, cacheVars
  <2> QED
    BY <2>2, <2>3
<1> QED
  BY <1>2, <1>3, <1>4 DEF People

LEMMA MakeTargetKnown ==
  ASSUME PreInv, NEW d \in {"output", "workspace"}, NEW job \in Jobs, MakeTarget(d, job)
  PROVE  PreInv'
BY EnvironmentStep DEF MakeTarget, cacheVars, PreInv, PreTypeOK
-----------------------------------------------------------------------------
(* The checks before the model files.                                      *)

LEMMA StartKnown ==
  ASSUME PreInv, NEW name \in Commands, Start(name)
  PROVE  PreInv'
<1> PICK c : c = [Idle EXCEPT !.pc = "document", !.name = name]
  OBVIOUS
<1>1. /\ UNCHANGED <<files, temps, lock, roots, made, changes>> /\ command' = c
      /\ wrong' = NotRight(files) /\ lost' = {}
  BY DEF Start, Environment, cacheVars, Do
<1>2. c \in Progress /\ c.pc = "document" /\ \A t \in Targets : c.state[t] = "UNSEEN"
  BY DEF Idle, Progress, FileStates, Checking
<1>3. PreTypeOK'
  BY <1>1, <1>2 DEF PreInv, PreTypeOK, NotRight
<1>4. CommandKnown(c)'
  BY <1>2 DEF CommandKnown
<1> QED
  BY <1>1, <1>3, <1>4 DEF PreInv

LEMMA ReadDocumentKnown ==
  ASSUME PreInv, NEW defect \in Defects, NEW job \in Jobs, ReadDocument(defect, job)
  PROVE  PreInv'
<1>1. UNCHANGED <<Environment, historyVars>>
  BY DEF ReadDocument
<1>2. CASE DocumentClass(defect) = "VALID"
  <2> PICK c : c = [Next("roots") EXCEPT !.job = job]
    OBVIOUS
  <2>1. c \in Progress /\ c.pc = "roots" /\ c.state = command.state
    BY DEF Next, Progress, PreInv, PreTypeOK, Checking
  <2>2. CommandKnown(c)
    BY <2>1 DEF CommandKnown, PreInv
  <2> QED
    BY <1>1, <1>2, <2>1, <2>2, CommandStep DEF ReadDocument
<1>3. CASE DocumentClass(defect) # "VALID"
  <2>1. /\ DocumentClass(defect) \in Classes
        /\ DocumentClass(defect) # "SHAPE_MODEL_PREFLIGHT_READY"
    BY <1>3 DEF DocumentClass, Classes
  <2> QED
    BY <1>1, <1>3, <2>1, RefuseStep DEF ReadDocument
<1> QED
  BY <1>2, <1>3

LEMMA ValidateKnown ==
  ASSUME PreInv, Validate
  PROVE  PreInv'
<1> USE DEF Classes, Checking
<1>1. ASSUME NEW relative \in BOOLEAN, LoadRoots(relative)
      PROVE  PreInv'
  BY <1>1, NextStep, RefuseStep DEF LoadRoots
<1>2. ASSUME NEW image \in {"acceptable", "unacceptable", "gone"}, ResolveImage(image)
      PROVE  PreInv'
  BY <1>2, NextStep, RefuseStep DEF ResolveImage
<1>3. CASE DeriveTarget("output", "workspace")
  BY <1>3, NextStep, RefuseStep DEF DeriveTarget
<1>4. CASE DeriveTarget("workspace", "backend")
  BY <1>4, NextStep, RefuseStep DEF DeriveTarget
<1>5. ASSUME NEW id \in {"registered", "malformed", "unknown"}, ResolveBackend(id)
      PROVE  PreInv'
  BY <1>5, NextStep, RefuseStep DEF ResolveBackend
<1>6. ASSUME NEW defect \in ManifestDefects, BindManifest(defect)
      PROVE  PreInv'
  BY <1>6, NextStep, RefuseStep DEF BindManifest
<1> QED
  BY <1>1, <1>2, <1>3, <1>4, <1>5, <1>6, StartKnown, ReadDocumentKnown DEF Validate
-----------------------------------------------------------------------------
(* The verification of the model files.                                    *)

LEMMA LookKnown ==
  ASSUME PreInv, NEW t \in Targets, Look(t)
  PROVE  PreInv'
<1> PICK c : c = [command EXCEPT !.at = t, !.state[t] = "LOOKED"]
  OBVIOUS
<1> PICK wrongKind : wrongKind = [command EXCEPT !.state[t] = "CORRUPTED"]
  OBVIOUS
<1>1. command \in Progress /\ CommandKnown(command) /\ command.pc = "look"
  BY DEF PreInv, PreTypeOK, Look
<1>2. UNCHANGED <<Environment, historyVars>>
  BY DEF Look
<1>3. CASE Do(wrongKind)
  <2>1. /\ wrongKind \in Progress /\ wrongKind.pc = "look"
        /\ wrongKind.state = [command.state EXCEPT ![t] = "CORRUPTED"]
    BY <1>1 DEF Progress, FileStates
  <2>2. CommandKnown(wrongKind)
    BY <1>1, <2>1 DEF CommandKnown, Progress
  <2> QED
    BY <1>2, <1>3, <2>1, <2>2, CommandStep
<1>4. ASSUME NEW pc \in {"glob", "hash"}, Do([c EXCEPT !.pc = pc])
      PROVE  PreInv'
  <2> PICK e : e = [c EXCEPT !.pc = pc]
    OBVIOUS
  <2>1. /\ e \in Progress /\ e.pc = pc /\ e.at = t
        /\ e.state = [command.state EXCEPT ![t] = "LOOKED"]
    BY <1>1 DEF Progress, FileStates, Checking
  <2>2. CommandKnown(e)
    BY <1>1, <2>1 DEF CommandKnown, Progress
  <2> QED
    BY <1>2, <1>4, <2>1, <2>2, CommandStep
<1>5. \/ Do(wrongKind) \/ Do([c EXCEPT !.pc = "glob"]) \/ Do([c EXCEPT !.pc = "hash"])
  BY DEF Look
<1> QED
  BY <1>3, <1>4, <1>5

(* A target that is done: only what was found right is verified.           *)
LEMMA FoundKnown ==
  ASSUME PreInv, command.at \in Targets, NEW state \in FileStates,
         state = "VERIFIED" => command.state[command.at] = "MATCHED",
         state # "MATCHED", Found(state), UNCHANGED <<Environment, historyVars>>
  PROVE  PreInv'
<1> PICK c : c = [Next("look") EXCEPT !.state[command.at] = state, !.at = "none", !.listed = {}]
  OBVIOUS
<1>1. command \in Progress /\ CommandKnown(command)
  BY DEF PreInv, PreTypeOK
<1>2. /\ c \in Progress /\ c.pc = "look"
      /\ c.state = [command.state EXCEPT ![command.at] = state]
  BY <1>1 DEF Next, Progress, Checking
<1>3. CommandKnown(c)
  BY <1>1, <1>2 DEF CommandKnown, Progress
<1> QED
  BY <1>2, <1>3, CommandStep DEF Found

LEMMA HashKnown ==
  ASSUME PreInv, NEW t \in Targets, Hash(t)
  PROVE  PreInv'
<1>1. /\ command \in Progress /\ CommandKnown(command) /\ command.at = t
      /\ UNCHANGED <<Environment, historyVars>>
  BY DEF PreInv, PreTypeOK, Hash
<1>2. CASE DigestMatches(t)
  <2> PICK c : c = [Next("glob") EXCEPT !.state[t] = "MATCHED"]
    OBVIOUS
  <2>1. /\ c \in Progress /\ c.pc = "glob" /\ c.at = t
        /\ c.state = [command.state EXCEPT ![t] = "MATCHED"]
    BY <1>1 DEF Next, Progress, Checking, FileStates
  <2>2. CommandKnown(c)
    BY <1>1, <1>2, <2>1 DEF CommandKnown, Progress, DigestMatches, StillRight
  <2> QED
    <3>1. Do([Next("glob") EXCEPT !.state[t] = "MATCHED"])
      <4>1. files[t] # Missing
        BY <1>2, FilesAssumption DEF DigestMatches
      <4> QED
        BY <1>2, <4>1, Zenon DEF Hash
    <3> QED
      BY <1>1, <2>1, <2>2, <3>1, CommandStep
<1>3. CASE Refuse("INTERNAL_ERROR")
  BY <1>1, <1>3, RefuseStep DEF Classes
<1>4. CASE Found("CORRUPTED")
  BY <1>1, <1>4, FoundKnown DEF FileStates
<1>5. DigestMatches(t) \/ Refuse("INTERNAL_ERROR") \/ Found("CORRUPTED")
  <2> HIDE DEF Refuse, Found, DigestMatches
  <2> QED
    BY Zenon DEF Hash
<1> QED
  BY <1>2, <1>3, <1>4, <1>5

LEMMA RegularState ==
  ASSUME NEW some \in BOOLEAN
  PROVE  /\ Regular(some) \in FileStates /\ Regular(some) # "MATCHED"
         /\ Regular(some) = "VERIFIED" => command.state[command.at] = "MATCHED"
BY DEF Regular, FileStates

LEMMA GlobKnown ==
  ASSUME PreInv, Glob
  PROVE  PreInv'
<1> PICK listed : listed = {x \in Temps : temps[x] # "none"}
  OBVIOUS
<1>1. /\ command \in Progress /\ CommandKnown(command) /\ command.pc = "glob"
      /\ command.at \in Targets /\ UNCHANGED <<Environment, historyVars>>
  BY DEF PreInv, PreTypeOK, Glob, CommandKnown
<1>2. CASE Found(Regular(FALSE))
  BY <1>1, <1>2, FoundKnown, RegularState
<1>3. CASE Do([Next("temps") EXCEPT !.listed = listed])
  <2> PICK c : c = [Next("temps") EXCEPT !.listed = listed]
    OBVIOUS
  <2>1. /\ c \in Progress /\ c.pc = "temps" /\ c.at = command.at /\ c.state = command.state
    BY <1>1 DEF Next, Progress, Checking
  <2>2. CommandKnown(c)
    BY <1>1, <2>1 DEF CommandKnown
  <2> QED
    BY <1>1, <1>3, <2>1, <2>2, CommandStep
<1> QED
  BY <1>2, <1>3 DEF Glob

LEMMA CheckTempKnown ==
  ASSUME PreInv, NEW x \in Temps, CheckTemp(x)
  PROVE  PreInv'
<1>1. /\ command \in Progress /\ CommandKnown(command) /\ command.pc = "temps"
      /\ command.at \in Targets /\ UNCHANGED <<Environment, historyVars>>
  BY DEF PreInv, PreTypeOK, CheckTemp, CommandKnown
<1>2. CASE Found("CORRUPTED")
  BY <1>1, <1>2, FoundKnown DEF FileStates
<1>3. CASE Found(Regular(TRUE))
  BY <1>1, <1>3, FoundKnown, RegularState
<1>4. CASE Do([command EXCEPT !.listed = @ \ {x}])
  <2> PICK c : c = [command EXCEPT !.listed = @ \ {x}]
    OBVIOUS
  <2>1. c \in Progress /\ c.pc = command.pc /\ c.at = command.at /\ c.state = command.state
    BY <1>1 DEF Progress
  <2>2. CommandKnown(c)
    BY <1>1, <2>1 DEF CommandKnown
  <2> QED
    BY <1>1, <1>4, <2>1, <2>2, CommandStep
<1> QED
  BY <1>2, <1>3, <1>4 DEF CheckTemp

(* Every file of a manifest has bytes: the cache is complete only when all *)
(* of them are verified.                                                   *)
LEMMA ConcludeKnown ==
  ASSUME PreInv, Conclude
  PROVE  PreInv'
<1>1. UNCHANGED <<Environment, historyVars>>
  BY DEF Conclude
<1>2. CASE FullyCached
  <2>1. \A t \in Targets : StillRight(t)
    BY <1>2, SizeAssumption DEF FullyCached, PreInv, CommandKnown
  <2> QED
    BY <1>1, <1>2, <2>1, RefuseStep DEF Conclude, Classes
<1>3. CASE ~FullyCached
  BY <1>1, <1>3, RefuseStep DEF Conclude, Classes
<1> QED
  BY <1>2, <1>3
-----------------------------------------------------------------------------
LEMMA PreInitKnown == PreInit => PreInv
<1> SUFFICES ASSUME PreInit PROVE PreInv
  OBVIOUS
<1>1. command \in Progress /\ CommandKnown(command)
  BY DEF PreInit, Idle, Progress, FileStates, CommandKnown
<1>2. PreTypeOK
  <2>1. files \in [Targets -> Contents \cup {Missing, Irregular}]
    BY DEF PreInit
  <2>2. temps \in [Temps -> {"none", "file", "irregular"}]
    BY DEF PreInit
  <2>3. roots \in [Roots -> {"missing", "readonly", "writable"}]
    BY DEF PreInit
  <2>4. changes \in 0..MaxChanges
    BY ChangesAssumption DEF PreInit
  <2> QED
    BY <1>1, <2>1, <2>2, <2>3, <2>4 DEF PreInit, PreTypeOK
<1> QED
  BY <1>1, <1>2 DEF PreInv

LEMMA PreStepKnown ==
  ASSUME PreInv, [PreNext]_preVars
  PROVE  PreInv'
<1>1. CASE Verify
  BY <1>1, LookKnown, HashKnown, GlobKnown, CheckTempKnown, ConcludeKnown DEF Verify
<1>2. CASE UNCHANGED preVars
  BY <1>2
  DEF preVars, cacheVars, historyVars, PreInv, PreTypeOK, CommandKnown, StillRight
<1> QED
  BY <1>1, <1>2, AcquisitionKnown, PeopleKnown, MakeTargetKnown, ValidateKnown DEF PreNext

(* PreInv is an invariant of the asset pipeline's commands beside          *)
(* acquisitions, other jobs and people (src/asset_pipeline/cli.py).        *)
THEOREM PreflightInvariant == PreSpec => []PreInv
BY PreInitKnown, PreStepKnown, PTL DEF PreSpec

(* A ready preflight had found every file of the manifest right            *)
(* (src/asset_pipeline/cli.py:233-240).                                    *)
THEOREM ReadyVerified == PreSpec => []ReadyWasVerified
<1>1. PreInv => ReadyWasVerified
  BY DEF PreInv, CommandKnown, StillRight, ReadyWasVerified
<1> QED
  BY <1>1, PreflightInvariant, PTL
-----------------------------------------------------------------------------
(* The gates of the runtime.                                               *)

LEMMA NotObservedType ==
  /\ NotObserved \in Observations
  /\ NotObserved.pc = "none" /\ NotObserved.entries = {} /\ ~NotObserved.ready
BY DEF NotObserved, Observations

(* What a scan owes a preflight that was ready: whatever model file it has *)
(* not come upon is lost, or it has yet to look at it.                     *)
Owed(o) ==
  /\ o.pc \in {"scanned", "observed"} => o.entries = {}
  /\ o.ready /\ ~o.weights => Weights \subseteq o.entries \cup o.lost

LEMMA ObserveStep ==
  ASSUME RuntimeInv, NEW o \in Observations, Owed(o), Observe(o)
  PROVE  RuntimeInv'
<1>1. UNCHANGED preVars /\ observation' = o
  BY DEF Observe
<1>2. PreInv'
  BY <1>1, PreStepKnown DEF RuntimeInv
<1> QED
  BY <1>1, <1>2 DEF RuntimeInv, ReadinessTypeOK, Observations, Owed

LEMMA ErrorStep ==
  ASSUME RuntimeInv, DiagnosticError
  PROVE  RuntimeInv'
<1> PICK o : o = [NotObserved EXCEPT !.pc = "DIAGNOSTIC_ERROR"]
  OBVIOUS
<1>1. o \in Observations /\ o.pc = "DIAGNOSTIC_ERROR" /\ ~o.ready
  BY NotObservedType DEF Observations
<1>2. Owed(o)
  BY <1>1 DEF Owed
<1> QED
  BY <1>1, <1>2, ObserveStep DEF DiagnosticError

LEMMA ScanKnown ==
  ASSUME RuntimeInv, Scan
  PROVE  RuntimeInv'
<1>1. observation \in Observations /\ Owed(observation)
  BY DEF RuntimeInv, ReadinessTypeOK, Observations, Owed
<1>2. CASE ListModels
  <2> PICK o : o = [NotObserved EXCEPT
                      !.pc = IF roots["models"] = "missing" THEN "scanned" ELSE "listed",
                      !.source = roots["hunyuan_source"] # "missing"]
    OBVIOUS
  <2>1. o \in Observations /\ o.entries = {} /\ ~o.ready
    BY NotObservedType DEF Observations, Scanning
  <2>2. Owed(o)
    BY <2>1 DEF Owed
  <2> QED
    BY <1>2, <2>1, <2>2, ObserveStep DEF ListModels
<1>3. CASE ListFiles
  <2> PICK o : o = [observation EXCEPT
                      !.pc = "looking", !.entries = ModelFiles,
                      !.ready = command.pc = "SHAPE_MODEL_PREFLIGHT_READY", !.lost = lost]
    OBVIOUS
  <2>1. ModelFiles \in SUBSET Weights /\ lost \in SUBSET Targets
    BY DEF ModelFiles, RuntimeInv, PreInv, PreTypeOK
  <2>2. /\ o \in Observations /\ o.pc = "looking" /\ o.entries = ModelFiles /\ o.lost = lost
        /\ o.ready = (command.pc = "SHAPE_MODEL_PREFLIGHT_READY")
    BY <1>1, <2>1 DEF Observations, Scanning
  <2>3. ASSUME o.ready PROVE Weights \subseteq o.entries \cup o.lost
    <3>1. \A t \in Targets : files[t] = Wanted[t] \/ t \in lost
      BY <2>2, <2>3 DEF RuntimeInv, PreInv, CommandKnown, StillRight
    <3> QED
      BY <2>2, <3>1, FilesAssumption DEF ModelFiles
  <2>4. Owed(o)
    BY <2>2, <2>3 DEF Owed
  <2> QED
    BY <1>3, <2>2, <2>4, ObserveStep, ErrorStep DEF ListFiles
<1>4. ASSUME NEW t \in Weights, LookAt(t) PROVE RuntimeInv'
  <2>1. PICK answer \in BOOLEAN :
          /\ IsFile(t, answer)
          /\ Observe([observation EXCEPT
                        !.entries = @ \ {t}, !.weights = @ \/ answer,
                        !.lost = @ \cup (NotRight(files) \cap {t})])
    BY <1>4 DEF LookAt
  <2> PICK o : o = [observation EXCEPT
                      !.entries = @ \ {t}, !.weights = @ \/ answer,
                      !.lost = @ \cup (NotRight(files) \cap {t})]
    OBVIOUS
  <2>2. /\ observation.entries \ {t} \in SUBSET Weights
        /\ (observation.weights \/ answer) \in BOOLEAN
        /\ observation.lost \cup (NotRight(files) \cap {t}) \in SUBSET Targets
    BY <1>1 DEF Observations, NotRight
  <2>3. o \in Observations
    BY <1>1, <2>2 DEF Observations
  <2>4. /\ o.pc = observation.pc /\ o.ready = observation.ready
        /\ o.entries = observation.entries \ {t}
        /\ o.lost = observation.lost \cup (NotRight(files) \cap {t})
    BY <1>1 DEF Observations
  <2>5. o.weights = (observation.weights \/ answer)
    BY <1>1, Zenon DEF Observations
  <2>6. ASSUME o.ready, ~o.weights PROVE Weights \subseteq o.entries \cup o.lost
    <3>1. ~observation.weights /\ ~answer
      BY <2>5, <2>6
    <3>2. Weights \subseteq observation.entries \cup observation.lost
      BY <1>1, <2>4, <2>6, <3>1 DEF Owed
    <3>3. files[t] \notin Contents
      BY <2>1, <3>1, FilesAssumption DEF IsFile
    <3>4. t \in NotRight(files)
      BY <3>3, FilesAssumption DEF NotRight
    <3> QED
      BY <2>4, <3>2, <3>4
  <2>7. Owed(o)
    BY <1>4, <2>4, <2>6 DEF Owed, LookAt
  <2> QED
    BY <2>1, <2>3, <2>7, ObserveStep
<1>5. ASSUME NEW locks \in {"listed", "visited"}, Observe([observation EXCEPT !.locks = locks])
      PROVE  RuntimeInv'
  <2> PICK o : o = [observation EXCEPT !.locks = locks]
    OBVIOUS
  <2>1. o \in Observations /\ Owed(o)
    BY <1>1 DEF Observations, Owed
  <2> QED
    BY <1>5, <2>1, ObserveStep
<1>6. CASE ListLocks \/ VisitLock
  BY <1>5, <1>6, ErrorStep DEF ListLocks, VisitLock
<1>7. CASE EndScan
  <2> PICK o : o = [observation EXCEPT !.pc = "scanned"]
    OBVIOUS
  <2>1. o \in Observations
    BY <1>1 DEF Observations
  <2>2. Owed(o)
    BY <1>1, <1>7 DEF Observations, Owed, EndScan
  <2> QED
    BY <1>7, <2>1, <2>2, ObserveStep, ErrorStep DEF EndScan
<1> QED
  BY <1>2, <1>3, <1>4, <1>6, <1>7 DEF Scan

LEMMA GateKnown ==
  ASSUME RuntimeInv, Gate
  PROVE  RuntimeInv'
<1>1. observation \in Observations /\ Owed(observation)
  BY DEF RuntimeInv, ReadinessTypeOK, Observations, Owed
<1>2. ASSUME NEW faults \in FaultSets, Probe(faults)
      PROVE  RuntimeInv'
  <2> PICK broken :
        broken = faults \cup (IF observation.source THEN {} ELSE {"renderer_artifact"})
                        \cup (IF roots["hunyuan_source"] = "missing" THEN {"renderer"} ELSE {})
    OBVIOUS
  <2> PICK o : o = [observation EXCEPT !.pc = "observed", !.roots = roots, !.broken = broken]
    OBVIOUS
  <2>1. Observe(o) /\ observation.pc = "scanned"
    BY <1>2 DEF Probe, Observe
  <2>2. broken \subseteq Parts
    BY FaultsAssumption DEF Parts
  <2>3. roots \in [Roots -> {"missing", "readonly", "writable"}]
    BY DEF RuntimeInv, PreInv, PreTypeOK
  <2>4. o \in Observations
    BY <1>1, <2>2, <2>3 DEF Observations
  <2>5. Owed(o)
    BY <1>1, <2>1 DEF Observations, Owed
  <2> QED
    BY <2>1, <2>4, <2>5, ObserveStep
<1> QED
  BY <1>2, ScanKnown DEF Gate

(* RuntimeInv is an invariant of gates and commands together.              *)
THEOREM RuntimeInvariant == ReadinessSpec => []RuntimeInv
<1>1. ReadinessInit => RuntimeInv
  <2> SUFFICES ASSUME ReadinessInit PROVE RuntimeInv
    OBVIOUS
  <2> QED
    BY PreInitKnown, NotObservedType DEF ReadinessInit, RuntimeInv, ReadinessTypeOK, Observations
<1>2. ASSUME RuntimeInv, PreNext \/ UNCHANGED preVars, UNCHANGED observation
      PROVE  RuntimeInv'
  BY <1>2, PreStepKnown DEF RuntimeInv, ReadinessTypeOK
<1>3. RuntimeInv /\ [ReadinessNext]_runtimeVars => RuntimeInv'
  BY <1>2, GateKnown DEF ReadinessNext, runtimeVars
<1> QED
  BY <1>1, <1>3, PTL DEF ReadinessSpec
-----------------------------------------------------------------------------
(* Verdicts.                                                               *)

(* The two profiles report the same checks, whatever is broken             *)
(* (collect_readiness of src/docker/readiness.py).                         *)
THEOREM ProfilesAlwaysNest == ReadinessSpec => []ProfilesNest
<1>1. ASSUME NEW o
      PROVE  Failed(o, "cpu") = Failed(o, "native-gpu") \ GpuChecks
  <2>1. NativeChecks \ NativeReport(o, TRUE) = NativeChecks \ NativeReport(o, FALSE)
    BY DEF NativeChecks, NativeReport
  <2>2. /\ SoftwareChecks \cap GpuChecks = {} /\ NativeChecks \cap GpuChecks = {}
        /\ PathChecks \cap GpuChecks = {}
    BY DEF SoftwareChecks, NativeChecks, PathChecks, Roots, GpuChecks
  <2> QED
    BY <2>1, <2>2 DEF Failed
<1>2. ProfilesNest
  BY <1>1 DEF ProfilesNest
<1> QED
  BY <1>2, PTL

(* The health report and the cpu profile agree about software, source and  *)
(* native extensions (src/docker/health.py, src/docker/readiness.py).      *)
THEOREM HealthAlwaysAgrees == ReadinessSpec => []HealthAgrees
<1>1. HealthAgrees
  <2> SUFFICES ASSUME Observed
               PROVE  /\ Ready(observation, "cpu") /\ ~observation.weights => Healthy(observation)
                      /\ Healthy(observation) =>
                           Failed(observation, "cpu") \subseteq
                             PathChecks \cup {"runtime.config", "renderer_operation"}
    BY DEF HealthAgrees
  <2> PICK o : o = observation
    OBVIOUS
  <2>1. ASSUME Ready(o, "cpu"), ~o.weights
        PROVE  Healthy(o)
    <3>1. \A k \in SoftwareChecks : SoftwarePasses(o, k)
      BY <2>1 DEF Ready, Failed
    <3>2. /\ Works(o, {"python"}) /\ TorchPinned(o) /\ o.source /\ Works(o, {"revision"})
          /\ Dependencies(o) /\ Artifacts(o)
      BY <3>1 DEF SoftwareChecks, SoftwarePasses
    <3>3. "rasterizer" \in NativeReport(o, FALSE)
      BY <2>1 DEF Ready, Failed, NativeChecks
    <3>4. NativeImports(o)
      BY <3>3 DEF NativeReport
    <3> QED
      BY <2>1, <3>2, <3>4 DEF Healthy, Works
  <2>2. ASSUME Healthy(o)
        PROVE  Failed(o, "cpu") \subseteq PathChecks \cup {"runtime.config", "renderer_operation"}
    <3>1. ASSUME NEW k \in SoftwareChecks, k # "runtime.config"
          PROVE  SoftwarePasses(o, k)
      BY <2>2, <3>1 DEF SoftwareChecks, SoftwarePasses, Healthy, Works, TorchPinned
    <3>2. {"rasterizer", "renderer"} \subseteq NativeReport(o, FALSE)
      BY <2>2 DEF Healthy, NativeReport, TorchPinned, TorchImports, Works
    <3> QED
      BY <3>1, <3>2 DEF Failed, NativeChecks
  <2> QED
    BY <2>1, <2>2
<1> QED
  BY <1>1, PTL

(* READY is enough for the smoke programs and for the asset pipeline       *)
(* (src/docker/readiness.py).                                              *)
THEOREM ReadyAlwaysServes == ReadinessSpec => []ReadyServes
<1>1. ASSUME NEW o, Ready(o, "native-gpu")
      PROVE  /\ HealthSucceeds(o) /\ GpuSmokeSucceeds(o)
             /\ DependencySmokeSucceeds(o) /\ NativeSmokeSucceeds(o)
  <2>1. \A k \in GpuChecks : GpuPasses(o, k)
    BY <1>1 DEF Ready, Failed
  <2>2. TorchOperation(o) /\ "rasterizer_operation" \in NativeReport(o, TRUE)
    BY <2>1 DEF GpuChecks, GpuPasses
  <2>3. TorchPinned(o) /\ Dependencies(o)
    <3>1. \A k \in SoftwareChecks : SoftwarePasses(o, k)
      BY <1>1 DEF Ready, Failed
    <3> QED
      BY <3>1 DEF SoftwareChecks, SoftwarePasses
  <2>4. "renderer_operation" \in NativeReport(o, TRUE)
    BY <1>1 DEF Ready, Failed, NativeChecks
  <2>5. NativeImports(o)
    BY <2>4 DEF NativeReport
  <2>6. GpuSmokeSucceeds(o)
    BY <2>2 DEF GpuSmokeSucceeds, TorchOperation, CudaAvailable, TorchImports, Works
  <2> QED
    BY <2>2, <2>3, <2>4, <2>5, <2>6
    DEF HealthSucceeds, DependencySmokeSucceeds, NativeSmokeSucceeds
<1>2. ASSUME Ready(observation, "cpu"), roots = observation.roots
      PROVE  RootsUsable(FALSE)
  <2>1. \A k \in PathChecks : PathPasses(observation, k)
    BY <1>2 DEF Ready, Failed
  <2>2. \A d \in {"input", "output", "workspace"} : observation.roots[d] = "writable"
    BY <2>1 DEF PathChecks, Roots, PathPasses
  <2> QED
    BY <1>2, <2>2 DEF RootsUsable
<1>3. ReadyServes
  BY <1>1, <1>2 DEF ReadyServes
<1> QED
  BY <1>3, PTL

(* What a gate reports about the model files agrees with a preflight that  *)
(* is ready (src/docker/health.py:209-237).                                *)
THEOREM WeightsAlwaysReported == ReadinessSpec => []WeightsReported
<1>1. RuntimeInv => WeightsReported
  BY DEF RuntimeInv, WeightsReported
<1> QED
  BY <1>1, RuntimeInvariant, PTL

(* Gates take nothing away from what a preflight has verified.             *)
THEOREM ReadyVerifiedBesideGates == ReadinessSpec => []ReadyWasVerified
<1>1. RuntimeInv => ReadyWasVerified
  BY DEF RuntimeInv, PreInv, CommandKnown, StillRight, ReadyWasVerified
<1> QED
  BY <1>1, RuntimeInvariant, PTL
=============================================================================
