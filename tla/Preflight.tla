----------------------------- MODULE Preflight ------------------------------
(***************************************************************************)
(* `asset_pipeline.cli shape plan | prepare | preflight`: one command      *)
(* reads a job document, resolves the runtime roots, the input image, the  *)
(* target directories and the backend, and a preflight then binds a model  *)
(* manifest and verifies the model cache file by file (`models verify` and *)
(* `models status` of src/docker/model_cache.py inspect in the same way).  *)
(*                                                                         *)
(* It takes no lock: acquisitions may work on the same directories, other  *)
(* jobs may make their target directories and people may change anything   *)
(* between two of its looks at the disk.  A file stands for its SHA-256.   *)
(***************************************************************************)
EXTENDS Naturals, FiniteSets

CONSTANTS
  Targets,       \* files of the model manifest
  Weights,       \* those of them with a model file's extension
  Wanted,        \* target -> content
  Size,          \* target -> bytes
  Contents,      \* contents of files
  Missing,
  Irregular,     \* a directory or a symbolic link in place of a file, or above it
  Temps,         \* names of temporary files
  Jobs,          \* job identifiers
  MaxChanges     \* bound: changes by people

ASSUME FilesAssumption ==
  /\ Wanted \in [Targets -> Contents] /\ Weights \subseteq Targets
  /\ Missing \notin Contents /\ Irregular \notin Contents

(* What parsing a manifest guarantees of its sizes.                        *)
ASSUME SizeAssumption == Size \in [Targets -> Nat \ {0}]
ASSUME ChangesAssumption == MaxChanges \in Nat

VARIABLES
  files,         \* what is at each target; the targets share a directory
  temps,         \* kind of each temporary path in that directory
  lock,          \* whether the lock directory of an acquisition exists
  roots,         \* each configured directory: "missing", "readonly", "writable"
  made,          \* target directories of jobs that exist
  changes,
  wrong,         \* history: targets that were not right at some time of the command
  lost,          \* history: targets that were right and then were changed
  command

cacheVars == <<files, temps, lock>>
historyVars == <<wrong, lost>>
preVars == <<cacheVars, roots, made, changes, historyVars, command>>

Roots == {"models", "input", "output", "workspace", "hunyuan_source"}

NotRight(f) == {t \in Targets : f[t] # Wanted[t]}

(* The histories when files become f.                                      *)
Note(f) ==
  /\ wrong' = wrong \cup NotRight(f)
  /\ lost' = lost \cup (NotRight(f) \ NotRight(files))
----------------------------------------------------------------------------
(* Acquisitions, as others see them: temporary files while the lock is     *)
(* held, targets that become right in one rename, leftovers removed.  They *)
(* may be of another manifest of the namespace, in the same directory.     *)
TakeLock ==
  /\ ~lock /\ roots["models"] = "writable"
  /\ lock' = TRUE
  /\ UNCHANGED <<files, temps, historyVars>>

DropLock == lock /\ lock' = FALSE /\ UNCHANGED <<files, temps, historyVars>>

OpenTemp(x) ==
  /\ lock /\ temps[x] = "none"
  /\ temps' = [temps EXCEPT ![x] = "file"]
  /\ UNCHANGED <<files, lock, historyVars>>

RemoveTemp(x) ==
  /\ lock /\ temps[x] = "file"
  /\ temps' = [temps EXCEPT ![x] = "none"]
  /\ UNCHANGED <<files, lock, historyVars>>

Promote(x, t) ==
  /\ lock /\ temps[x] = "file"
  /\ files[t] \notin {Wanted[t], Irregular}
  /\ temps' = [temps EXCEPT ![x] = "none"]
  /\ files' = [files EXCEPT ![t] = Wanted[t]]
  /\ Note(files')
  /\ UNCHANGED lock

Acquisition ==
  /\ TakeLock \/ DropLock
       \/ \E x \in Temps : OpenTemp(x) \/ RemoveTemp(x) \/ \E t \in Targets : Promote(x, t)
  /\ UNCHANGED <<roots, made, changes, command>>

(* People and disks.                                                       *)
ChangeFile(t, content) ==
  /\ roots["models"] # "missing"
  /\ files' = [files EXCEPT ![t] = content]
  /\ Note(files')
  /\ UNCHANGED <<temps, lock, roots>>

ChangeTemp(x) ==
  /\ roots["models"] # "missing" /\ temps[x] = "none"
  /\ temps' = [temps EXCEPT ![x] = "irregular"]
  /\ UNCHANGED <<files, lock, roots, historyVars>>

(* What is below a directory goes with it.                                 *)
Remount(d, state) ==
  /\ roots' = [roots EXCEPT ![d] = state]
  /\ IF d = "models" /\ state = "missing"
     THEN /\ files' = [t \in Targets |-> Missing]
          /\ temps' = [x \in Temps |-> "none"]
          /\ lock' = FALSE
          /\ Note(files')
     ELSE UNCHANGED <<cacheVars, historyVars>>

People ==
  /\ changes < MaxChanges /\ changes' = changes + 1
  /\ \/ \E t \in Targets, content \in Contents \cup {Missing, Irregular} : ChangeFile(t, content)
     \/ \E x \in Temps : ChangeTemp(x)
     \/ \E d \in Roots, state \in {"missing", "readonly"} : Remount(d, state)
  /\ UNCHANGED <<made, command>>

(* Whoever executes a job makes its directories.                           *)
MakeTarget(d, job) ==
  /\ made' = made \cup {<<d, job>>}
  /\ UNCHANGED <<cacheVars, roots, changes, historyVars, command>>
----------------------------------------------------------------------------
(* The command.  pc is the check it makes next; state[t] is what it has    *)
(* found at target t.                                                      *)
Idle ==
  [pc |-> "idle", name |-> "none", job |-> "none", at |-> "none", listed |-> {},
   state |-> [t \in Targets |-> "UNSEEN"]]

Commands == {"plan", "prepare", "preflight"}

Do(c) == command' = c
Next(pc) == [command EXCEPT !.pc = pc]

(* The end of a command keeps its classification.                          *)
Refuse(class) == Do([Idle EXCEPT !.pc = class])

Environment == <<cacheVars, roots, made, changes>>

Checking ==
  {"document", "roots", "image", "output", "workspace", "backend", "manifest",
   "look", "hash", "glob", "temps"}

Start(name) ==
  /\ command.pc \notin Checking
  /\ Do([Idle EXCEPT !.pc = "document", !.name = name])
  /\ wrong' = NotRight(files) /\ lost' = {}
  /\ UNCHANGED Environment

(* The classification of a job document by its first defect, in the order  *)
(* in which read_job_document and validate_job_document look.              *)
DocumentClass(defect) ==
  CASE defect = "unreadable" -> "JOB_FILE_UNAVAILABLE"
    [] defect = "too_large" -> "JOB_DOCUMENT_TOO_LARGE"
    [] defect = "duplicate_key" -> "DUPLICATE_JOB_KEY"
    [] defect = "image_path" -> "INPUT_PATH_POLICY_REFUSAL"
    [] defect \in {"not_UTF_8_JSON", "fields", "schema_version", "job_id", "seed",
                   "background"} -> "INVALID_JOB_DOCUMENT"
    [] OTHER -> "VALID"

Defects ==
  {"none", "unreadable", "too_large", "not_UTF_8_JSON", "duplicate_key", "fields",
   "schema_version", "job_id", "image_path", "seed", "background"}

ReadDocument(defect, job) ==
  /\ command.pc = "document"
  /\ IF DocumentClass(defect) = "VALID"
     THEN Do([Next("roots") EXCEPT !.job = job])
     ELSE Refuse(DocumentClass(defect))
  /\ UNCHANGED <<Environment, historyVars>>

(* load_runtime_roots; relative: one of the paths is not absolute.         *)
RootsUsable(relative) ==
  ~relative /\ \A d \in {"input", "output", "workspace"} : roots[d] # "missing"

LoadRoots(relative) ==
  /\ command.pc = "roots"
  /\ IF RootsUsable(relative) THEN Do(Next("image")) ELSE Refuse("RUNTIME_ROOT_INVALID")
  /\ UNCHANGED <<Environment, historyVars>>

(* resolve_input_image: acceptable, refused by the policy, or gone between *)
(* two looks, which no handler expects.                                    *)
ResolveImage(image) ==
  /\ command.pc = "image"
  /\ CASE image = "acceptable" -> Do(Next("output"))
       [] image = "unacceptable" -> Refuse("INPUT_POLICY_REFUSAL")
       [] image = "gone" -> Refuse("INTERNAL_ERROR")
  /\ UNCHANGED <<Environment, historyVars>>

(* _derive_target, for the output and then for the workspace directory.    *)
DeriveTarget(d, then) ==
  /\ command.pc = d
  /\ IF <<d, command.job>> \in made THEN Refuse("SAFE_PATH_UNAVAILABLE") ELSE Do(Next(then))
  /\ UNCHANGED <<Environment, historyVars>>

(* A plan is ready here; the others resolve the backend.                   *)
ResolveBackend(id) ==
  /\ command.pc = "backend"
  /\ CASE command.name = "plan" -> Refuse("SHAPE_JOB_CONTRACT_READY")
       [] command.name # "plan" /\ id = "malformed" -> Refuse("MALFORMED_SHAPE_BACKEND")
       [] command.name # "plan" /\ id = "unknown" -> Refuse("UNKNOWN_SHAPE_BACKEND")
       [] command.name = "prepare" /\ id = "registered" -> Refuse("SHAPE_EXECUTION_REQUEST_READY")
       [] OTHER -> Do(Next("manifest"))
  /\ UNCHANGED <<Environment, historyVars>>

(* parse_manifest, then bind_parsed_model_manifest by its first defect.    *)
ManifestDefects ==
  {"none", "unparsable", "artifact_set", "revision", "namespace", "url", "role", "missing_role"}

BindManifest(defect) ==
  /\ command.pc = "manifest"
  /\ CASE defect = "none" -> Do(Next("look"))
       [] defect = "unparsable" -> Refuse("MODEL_MANIFEST_INVALID")
       [] OTHER -> Refuse("MODEL_BINDING_REFUSAL")
  /\ UNCHANGED <<Environment, historyVars>>
----------------------------------------------------------------------------
(* verify_parsed_manifest_cache: _file_state of one target after another.  *)

(* The target is done, with this state.                                    *)
Found(state) ==
  Do([Next("look") EXCEPT !.state[command.at] = state, !.at = "none", !.listed = {}])

(* The final path: nothing, something that is not a file, or a file.       *)
Look(t) ==
  /\ command.pc = "look" /\ command.state[t] = "UNSEEN"
  /\ LET c == [command EXCEPT !.at = t, !.state[t] = "LOOKED"] IN
     CASE files[t] = Irregular -> Do([command EXCEPT !.state[t] = "CORRUPTED"])
       [] files[t] = Missing -> Do([c EXCEPT !.pc = "glob"])
       [] OTHER -> Do([c EXCEPT !.pc = "hash"])
  /\ UNCHANGED <<Environment, historyVars>>

(* Mutant: the size alone is compared.                                     *)
Matches(t) == files[t] \in Contents

(* Its size and its SHA-256 are those of the manifest.                     *)
DigestMatches(t) == files[t] = Wanted[t]

(* A file that is gone by now is an error that no handler expects.         *)
Hash(t) ==
  /\ command.pc = "hash" /\ command.at = t
  /\ CASE DigestMatches(t) -> Do([Next("glob") EXCEPT !.state[t] = "MATCHED"])
       [] files[t] = Missing -> Refuse("INTERNAL_ERROR")
       [] OTHER -> Found("CORRUPTED")
  /\ UNCHANGED <<Environment, historyVars>>

(* The state of the target when every listed temporary path is a file.     *)
Regular(some) ==
  CASE command.state[command.at] = "MATCHED" -> "VERIFIED"
    [] some -> "PARTIAL"
    [] OTHER -> "ABSENT"

(* Temporary paths are listed first, and each is looked at later.          *)
Glob ==
  /\ command.pc = "glob"
  /\ LET listed == {x \in Temps : temps[x] # "none"} IN
     IF listed = {} THEN Found(Regular(FALSE))
     ELSE Do([Next("temps") EXCEPT !.listed = listed])
  /\ UNCHANGED <<Environment, historyVars>>

(* A path that is gone is not a file.                                      *)
CheckTemp(x) ==
  /\ command.pc = "temps" /\ x \in command.listed
  /\ CASE temps[x] # "file" -> Found("CORRUPTED")
       [] temps[x] = "file" /\ command.listed = {x} -> Found(Regular(TRUE))
       [] OTHER -> Do([command EXCEPT !.listed = @ \ {x}])
  /\ UNCHANGED <<Environment, historyVars>>

(* fully_cached: the sizes of the files that are not verified add up to 0. *)
FullyCached == \A t \in Targets : command.state[t] = "VERIFIED" \/ Size[t] = 0

(* The identity of the binding is that of the verification: both are taken *)
(* from one parsed manifest.                                               *)
Conclude ==
  /\ command.pc = "look" /\ \A t \in Targets : command.state[t] # "UNSEEN"
  /\ Refuse(IF FullyCached THEN "SHAPE_MODEL_PREFLIGHT_READY" ELSE "MODEL_CACHE_NOT_VERIFIED")
  /\ UNCHANGED <<Environment, historyVars>>
----------------------------------------------------------------------------
PreInit ==
  /\ files \in [Targets -> {Missing, Irregular} \cup Contents]
  /\ temps = [x \in Temps |-> "none"]
  /\ lock = FALSE
  /\ roots = [d \in Roots |-> "writable"]
  /\ made = {}
  /\ changes = 0
  /\ wrong = {} /\ lost = {}
  /\ command = Idle

Validate ==
  \/ \E name \in Commands : Start(name)
  \/ \E defect \in Defects, job \in Jobs : ReadDocument(defect, job)
  \/ \E relative \in BOOLEAN : LoadRoots(relative)
  \/ \E image \in {"acceptable", "unacceptable", "gone"} : ResolveImage(image)
  \/ DeriveTarget("output", "workspace")
  \/ DeriveTarget("workspace", "backend")
  \/ \E id \in {"registered", "malformed", "unknown"} : ResolveBackend(id)
  \/ \E defect \in ManifestDefects : BindManifest(defect)

Verify ==
  \/ \E t \in Targets : Look(t) \/ Hash(t)
  \/ Glob
  \/ \E x \in Temps : CheckTemp(x)
  \/ Conclude

PreNext ==
  \/ Acquisition \/ People
  \/ \E d \in {"output", "workspace"}, job \in Jobs : MakeTarget(d, job)
  \/ Validate
  \/ Verify

PreSpec == PreInit /\ [][PreNext]_preVars
----------------------------------------------------------------------------
(* A preflight that is ready had found every file right: one that is not   *)
(* right now was changed since the command began, whatever acquisitions    *)
(* and other people did meanwhile (src/asset_pipeline/cli.py:233-240).     *)
ReadyWasVerified ==
  command.pc = "SHAPE_MODEL_PREFLIGHT_READY" =>
    \A t \in Targets : files[t] = Wanted[t] \/ t \in lost

(* src/docker/README.md:262-273 says when a file is not verified: it is    *)
(* missing or wrong, or a reserved temporary path is not a regular file.   *)
RefusedForAReason ==
  command.pc = "MODEL_CACHE_NOT_VERIFIED" =>
    wrong # {} \/ \E x \in Temps : temps[x] = "irregular"
----------------------------------------------------------------------------
(* An inductive strengthening of ReadyWasVerified.                         *)

Classes ==
  {"JOB_FILE_UNAVAILABLE", "JOB_DOCUMENT_TOO_LARGE", "DUPLICATE_JOB_KEY",
   "INPUT_PATH_POLICY_REFUSAL", "INVALID_JOB_DOCUMENT", "RUNTIME_ROOT_INVALID",
   "INPUT_POLICY_REFUSAL", "SAFE_PATH_UNAVAILABLE", "MALFORMED_SHAPE_BACKEND",
   "UNKNOWN_SHAPE_BACKEND", "MODEL_MANIFEST_INVALID", "MODEL_BINDING_REFUSAL",
   "MODEL_CACHE_NOT_VERIFIED", "INTERNAL_ERROR", "SHAPE_JOB_CONTRACT_READY",
   "SHAPE_EXECUTION_REQUEST_READY", "SHAPE_MODEL_PREFLIGHT_READY"}

FileStates == {"UNSEEN", "LOOKED", "MATCHED", "ABSENT", "PARTIAL", "CORRUPTED", "VERIFIED"}

Progress ==
  [pc : {"idle"} \cup Checking \cup Classes, name : {"none"} \cup Commands,
   job : Jobs \cup {"none"}, at : Targets \cup {"none"}, listed : SUBSET Temps,
   state : [Targets -> FileStates]]

(* The variables have these types.                                         *)
PreTypeOK ==
  /\ files \in [Targets -> Contents \cup {Missing, Irregular}]
  /\ temps \in [Temps -> {"none", "file", "irregular"}]
  /\ lock \in BOOLEAN
  /\ roots \in [Roots -> {"missing", "readonly", "writable"}]
  /\ made \subseteq {"output", "workspace"} \X Jobs
  /\ changes \in 0..MaxChanges
  /\ wrong \subseteq Targets /\ lost \subseteq Targets
  /\ command \in Progress

(* A file that was found right has been lost if it is not right any more.  *)
StillRight(t) == files[t] = Wanted[t] \/ t \in lost

(* What a command has found, and what it looks at.                         *)
CommandKnown(c) ==
  /\ c.pc = "SHAPE_MODEL_PREFLIGHT_READY" => \A t \in Targets : StillRight(t)
  /\ \A t \in Targets : c.state[t] \in {"MATCHED", "VERIFIED"} => StillRight(t)
  /\ c.pc \in {"hash", "glob", "temps"} => c.at \in Targets
  /\ c.pc \in {"glob", "temps"} => c.state[c.at] \in {"LOOKED", "MATCHED"}

PreInv == PreTypeOK /\ CommandKnown(command)
=============================================================================
