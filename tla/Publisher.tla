----------------------------- MODULE Publisher ------------------------------
(***************************************************************************)
(* The container publisher: the job of publish-container.yml with the      *)
(* functions of src/scripts/publisher/publisher.ps1, for any number of     *)
(* dispatched runs on one self-hosted runner.                              *)
(*                                                                         *)
(* job[d] is run d: the step it has reached and the memory its steps       *)
(* share.  Every call of docker may fail, the runner may die in any step,  *)
(* and the registry shows each push on its own.  Runs of one repository    *)
(* share the registry, the temporary directory of the runner (one Docker   *)
(* configuration per run, one file for the build metadata) and GitHub's    *)
(* concurrency group.                                                      *)
(***************************************************************************)
EXTENDS Naturals, FiniteSets

CONSTANTS
  Dispatches,    \* dispatched runs of the workflow
  Shas,          \* commits of main; a commit stands for its SHA tag too
  Releases,      \* release tags
  NoRelease,     \* none was asked for
  Digests,       \* digests of images
  NoDigest,
  NoRun

ASSUME TagAssumption == Shas \cap Releases = {} /\ NoRelease \notin Shas \cup Releases
ASSUME DigestAssumption == NoDigest \notin Digests
ASSUME RunAssumption == NoRun \notin Dispatches

VARIABLES
  registry,      \* digest of each tag
  group,         \* the run that holds the concurrency group
  config,        \* Docker configuration of each run: "none", "empty" or "token"
  metadata,      \* digest in build-metadata.json
  job

pubVars == <<registry, group, config, metadata, job>>

Tags == Shas \cup Releases

(* What a run is dispatched with; trusted: the inputs pass the preflight.  *)
Request == [sha : Shas, release : Releases \cup {NoRelease}, trusted : BOOLEAN]

(* faulty and found are history: a call failed; a tag was seen to exist.   *)
NoJob ==
  [pc |-> "none", sha |-> NoDigest, tags |-> {}, trusted |-> FALSE, left |-> {}, exit |-> 0,
   digest |-> NoDigest, announced |-> NoDigest, failed |-> FALSE, faulty |-> FALSE, found |-> FALSE]

(* Mutant: the release tag is not looked up.                               *)
TagsShaOnly(d) == {job[d].sha}

TagsToCheck(d) == job[d].tags

(* Get-PublisherTags.                                                      *)
TagsOf(request) == {request.sha} \cup ({request.release} \ {NoRelease})

Running == {"preflight", "checkout", "login", "refuse", "build", "push", "verify", "cleanup"}

At(d, pc) == job[d].pc = pc
Goto(d, pc) == [job[d] EXCEPT !.pc = pc]

(* A step that throws: the rest is skipped but for the cleanup.            *)
Thrown(d) == [job[d] EXCEPT !.pc = "cleanup", !.failed = TRUE, !.left = {}]
Fault(d) == [Thrown(d) EXCEPT !.faulty = TRUE]

Set(d, j) == job' = [job EXCEPT ![d] = j]
----------------------------------------------------------------------------
(* GitHub: one run of the group at a time, one waiting; a later one takes  *)
(* the place of the one that waits.                                        *)
Dispatch(d, request) ==
  /\ At(d, "none")
  /\ job' = [e \in Dispatches |->
       CASE e = d -> [NoJob EXCEPT !.pc = "queued", !.sha = request.sha,
                        !.tags = TagsOf(request), !.trusted = request.trusted]
         [] e # d /\ At(e, "queued") -> [NoJob EXCEPT !.pc = "cancelled"]
         [] OTHER -> job[e]]
  /\ UNCHANGED <<registry, group, config, metadata>>

(* Mutant: no concurrency group.                                           *)
StartTogether(d) ==
  /\ At(d, "queued")
  /\ group' = d
  /\ Set(d, Goto(d, "preflight"))
  /\ UNCHANGED <<registry, config, metadata>>

Start(d) ==
  /\ At(d, "queued")
  /\ group = NoRun
  /\ group' = d
  /\ Set(d, Goto(d, "preflight"))
  /\ UNCHANGED <<registry, config, metadata>>

(* Trusted-context preflight.                                              *)
Preflight(d) ==
  /\ At(d, "preflight")
  /\ Set(d, IF job[d].trusted THEN Goto(d, "checkout") ELSE Thrown(d))
  /\ UNCHANGED <<registry, group, config, metadata>>

(* Checkout, its verification, the tags once more, the Docker preflight.   *)
Checkout(d) ==
  /\ At(d, "checkout")
  /\ Set(d, Goto(d, "login")) \/ Set(d, Fault(d))
  /\ UNCHANGED <<registry, group, config, metadata>>

(* New-PublisherTemporaryDockerConfig and docker login.                    *)
Login(d) ==
  /\ At(d, "login")
  /\ \/ config[d] = "none" /\ config' = [config EXCEPT ![d] = "token"]
          /\ Set(d, [Goto(d, "refuse") EXCEPT !.left = TagsToCheck(d)])
     \/ config[d] = "none" /\ config' = [config EXCEPT ![d] = "empty"] /\ Set(d, Fault(d))
     \/ UNCHANGED config /\ Set(d, Fault(d))
  /\ UNCHANGED <<registry, group, metadata>>

(* Mutant: the exit code of a lookup that found nothing stays.             *)
AbsentExit == 1

(* Reset-PublisherLastExitCodeAfterAbsence.                                *)
AbsentCode == 0

(* Assert-PublisherTagsAbsent, one lookup: "Existing", "Absent" or         *)
(* "Error".                                                                *)
Lookup(d, t) ==
  /\ At(d, "refuse") /\ t \in job[d].left
  /\ \/ registry[t] # NoDigest
          /\ Set(d, [Thrown(d) EXCEPT !.found = TRUE])
     \/ registry[t] = NoDigest
          /\ Set(d, [job[d] EXCEPT !.left = @ \ {t}, !.exit = AbsentCode])
     \/ Set(d, Fault(d))
  /\ UNCHANGED <<registry, group, config, metadata>>

(* The shell leaves the step with the exit code of its last command.       *)
LeaveLookups(d) ==
  /\ At(d, "refuse") /\ job[d].left = {}
  /\ Set(d, IF job[d].exit = 0 THEN Goto(d, "build") ELSE Thrown(d))
  /\ UNCHANGED <<registry, group, config, metadata>>

(* Invoke-PublisherBuildxBuild: the image is built, then pushed under each *)
(* tag, in an order that buildx chooses; it may fail before, between or    *)
(* after the pushes.  An image is not reproducible: any digest may result. *)
Build(d, g) ==
  /\ At(d, "build")
  /\ \/ Set(d, [Goto(d, "push") EXCEPT !.digest = g, !.left = job[d].tags])
     \/ Set(d, Fault(d))
  /\ UNCHANGED <<registry, group, config, metadata>>

PushTag(d, t) ==
  /\ At(d, "push") /\ t \in job[d].left
  /\ \/ /\ registry' = [registry EXCEPT ![t] = job[d].digest]
        /\ Set(d, [job[d] EXCEPT !.left = @ \ {t}])
     \/ UNCHANGED registry /\ Set(d, Fault(d))
  /\ UNCHANGED <<group, config, metadata>>

WriteMetadata(d) ==
  /\ At(d, "push") /\ job[d].left = {}
  /\ \/ metadata' = job[d].digest /\ Set(d, Goto(d, "verify"))
     \/ UNCHANGED metadata /\ Set(d, Fault(d))
  /\ UNCHANGED <<registry, group, config>>

(* Read-PublisherBuildMetadataDigest, Assert-PublisherPushedDigest and the *)
(* announcement in the run's summary.                                      *)
Verify(d) ==
  /\ At(d, "verify")
  /\ \/ /\ metadata # NoDigest
        /\ \A t \in job[d].tags : registry[t] = metadata
        /\ Set(d, [Goto(d, "cleanup") EXCEPT !.announced = metadata])
     \/ Set(d, Fault(d))
  /\ UNCHANGED <<registry, group, config, metadata>>

(* Mutant: the exit code of the logout is ignored.                         *)
VerdictOfSteps(d, logout) == IF job[d].failed THEN "failed" ELSE "succeeded"

(* A logout that fails is the last command of the step.                    *)
Verdict(d, logout) == IF job[d].failed \/ ~logout THEN "failed" ELSE "succeeded"

(* Cleanup, whatever happened before: a logout that succeeds takes the     *)
(* token away; removals fail without a word.  logout: it succeeded, or     *)
(* there was nothing to log out of.                                        *)
Cleanup(d) ==
  /\ At(d, "cleanup")
  /\ \E logout \in BOOLEAN, left \in {"none", "empty", "token"} :
       /\ config[d] = "none" => logout /\ left = "none"
       /\ config[d] = "empty" \/ logout => left # "token"
       /\ config' = [config EXCEPT ![d] = left]
       /\ Set(d, [Goto(d, Verdict(d, logout)) EXCEPT !.faulty = @ \/ ~logout])
  /\ metadata' \in {metadata, NoDigest}
  /\ group' = NoRun
  /\ UNCHANGED registry

(* The runner dies, or is given up after 180 minutes: no cleanup.          *)
Die(d) ==
  /\ job[d].pc \in Running
  /\ Set(d, Goto(d, "dead"))
  /\ group' = NoRun
  /\ UNCHANGED <<registry, config, metadata>>
----------------------------------------------------------------------------
PubInit ==
  /\ registry = [t \in Tags |-> NoDigest]
  /\ group = NoRun
  /\ config = [d \in Dispatches |-> "none"]
  /\ metadata = NoDigest
  /\ job = [d \in Dispatches |-> NoJob]

Steps(d) ==
  \/ Preflight(d) \/ Checkout(d) \/ Login(d)
  \/ \E t \in Tags : Lookup(d, t)
  \/ LeaveLookups(d)
  \/ \E g \in Digests : Build(d, g)
  \/ \E t \in Tags : PushTag(d, t)
  \/ WriteMetadata(d) \/ Verify(d) \/ Cleanup(d)

PubNext ==
  \E d \in Dispatches :
    \/ \E request \in Request : Dispatch(d, request)
    \/ Start(d) \/ Steps(d) \/ Die(d)

PubSpec == PubInit /\ [][PubNext]_pubVars
----------------------------------------------------------------------------
Announced ==
  {[tags |-> job[d].tags, digest |-> job[d].announced] :
     d \in {e \in Dispatches : job[e].announced # NoDigest}}

TagPromise == INSTANCE ImmutableTags WITH announced <- Announced

(* Tags are immutable, and an announced image is what every tag of its run *)
(* names for ever, whatever dispatches overlap, fail half way or die       *)
(* (the lookups, pushes and verification of publisher.ps1).                *)
ImplementsImmutableTags == TagPromise!TagsSpec

(* A run that ends green has left no token on the runner: the exit code of *)
(* the logout is the exit code of the step.                                *)
NoTokenAfterSuccess ==
  \A d \in Dispatches : At(d, "succeeded") => config[d] # "token"

(* A run with trusted inputs, in which nothing failed, is refused for a    *)
(* tag that exists and for nothing else: looking up absent tags, which     *)
(* fails in docker, does not fail the step.                                *)
RefusalJustified ==
  \A d \in Dispatches :
    At(d, "failed") /\ job[d].trusted /\ ~job[d].faulty => job[d].found
----------------------------------------------------------------------------
(* An inductive strengthening of the properties above.                     *)

JobStates ==
  Running \cup {"none", "queued", "cancelled", "succeeded", "failed", "dead"}

Jobs ==
  [pc : JobStates, sha : Shas \cup {NoDigest}, tags : SUBSET Tags, trusted : BOOLEAN,
   left : SUBSET Tags, exit : {0, 1}, digest : Digests \cup {NoDigest},
   announced : Digests \cup {NoDigest},
   failed : BOOLEAN, faulty : BOOLEAN, found : BOOLEAN]

(* The variables have these types.                                         *)
PubTypeOK ==
  /\ registry \in [Tags -> Digests \cup {NoDigest}]
  /\ group \in Dispatches \cup {NoRun}
  /\ config \in [Dispatches -> {"none", "empty", "token"}]
  /\ metadata \in Digests \cup {NoDigest}
  /\ job \in [Dispatches -> Jobs]

(* What a run has looked up or pushed so far is still so.                  *)
TagsKnown(j) ==
  /\ j.pc = "refuse" => \A t \in j.tags \ j.left : registry[t] = NoDigest
  /\ j.pc = "build" => \A t \in j.tags : registry[t] = NoDigest
  /\ j.pc = "push" => j.left \subseteq j.tags /\ \A t \in j.left : registry[t] = NoDigest
  /\ j.pc = "push" => j.digest # NoDigest
  /\ j.announced # NoDigest => \A t \in j.tags : registry[t] = j.announced

(* Why a run has failed, and that it has announced nothing before the end. *)
FailureKnown(j) ==
  /\ j.failed /\ j.trusted /\ ~j.faulty => j.found
  /\ j.pc \notin {"cleanup", "succeeded", "failed", "dead"} =>
       ~j.failed /\ j.exit = 0 /\ j.announced = NoDigest
  /\ j.pc = "failed" => j.failed \/ j.faulty

(* Everything the preservation of the properties rests on, typed.          *)
PubInv ==
  /\ PubTypeOK
  /\ \A d \in Dispatches :
       /\ job[d].pc \in Running => group = d
       /\ TagsKnown(job[d])
       /\ FailureKnown(job[d])
  /\ NoTokenAfterSuccess
==============================================================================
