--------------------------- MODULE PublisherProofs ---------------------------
(***************************************************************************)
(* Proofs about Publisher, for any number of dispatched runs, commits,     *)
(* release tags and images.                                                *)
(***************************************************************************)
EXTENDS Publisher, TLAPS

Configs == {"none", "empty", "token"}

(* What a job must know, for one job.                                      *)
JobKnown(j) == j \in Jobs /\ TagsKnown(j) /\ FailureKnown(j)

(* A step of one run that leaves the registry alone keeps the invariant    *)
(* when the new job is typed and knows what it should, and the group stays *)
(* with the run that is running.                                           *)
LEMMA OneJob ==
  ASSUME PubInv, NEW d \in Dispatches, NEW j, JobKnown(j), Set(d, j),
         UNCHANGED registry, group' \in Dispatches \cup {NoRun},
         j.pc \in Running => group' = d,
         \A e \in Dispatches \ {d} : job[e].pc \in Running => group' = e,
         config' \in [Dispatches -> Configs],
         \A e \in Dispatches \ {d} : config'[e] = config[e],
         j.pc = "succeeded" => config'[d] # "token",
         metadata' \in Digests \cup {NoDigest}
  PROVE  PubInv'
<1> USE DEF PubInv
<1>1. j \in Jobs /\ TagsKnown(j) /\ FailureKnown(j)
  BY DEF JobKnown
<1>2. PubTypeOK'
  BY <1>1 DEF PubTypeOK, Set, Configs
<1>3. \A e \in Dispatches : job'[e] = IF e = d THEN j ELSE job[e]
  BY DEF PubTypeOK, Set
<1>4. ASSUME NEW e \in Dispatches
      PROVE  (job[e].pc \in Running => group = e)' /\ TagsKnown(job[e])' /\ FailureKnown(job[e])'
  <2> PICK k : k = job'[e]
    OBVIOUS
  <2>1. TagsKnown(k) /\ FailureKnown(k) /\ (k.pc \in Running => group' = e)
    BY <1>1, <1>3
  <2> QED
    BY <2>1 DEF TagsKnown, FailureKnown
<1>5. NoTokenAfterSuccess'
  BY <1>3 DEF NoTokenAfterSuccess, At
<1> QED
  BY <1>2, <1>4, <1>5

(* The common case: a step of a running run that changes its job alone.    *)
LEMMA OneJobRunning ==
  ASSUME PubInv, NEW d \in Dispatches, NEW j, JobKnown(j), Set(d, j),
         job[d].pc \in Running, j.pc \in Running,
         UNCHANGED <<registry, group>>,
         config' \in [Dispatches -> Configs],
         \A e \in Dispatches \ {d} : config'[e] = config[e],
         metadata' \in Digests \cup {NoDigest}
  PROVE  PubInv'
<1>1. group = d /\ group \in Dispatches \cup {NoRun}
  BY DEF PubInv, PubTypeOK
<1>2. \A e \in Dispatches \ {d} : job[e].pc \in Running => group' = e
  BY DEF PubInv
<1>3. j.pc # "succeeded"
  BY DEF Running
<1> QED
  BY <1>1, <1>2, <1>3, OneJob

(* A step that throws.                                                     *)
LEMMA ThrownKnown ==
  ASSUME PubInv, NEW d \in Dispatches, job[d].pc \in Running \ {"cleanup"},
         NEW j, j.pc = "cleanup", j.failed = TRUE, j.left = {}, j.announced = job[d].announced,
         j.tags = job[d].tags, j.trusted = job[d].trusted, j.faulty \/ j.found \/ ~j.trusted,
         j \in Jobs
  PROVE  JobKnown(j)
<1>1. TagsKnown(job[d]) /\ FailureKnown(job[d])
  BY DEF PubInv
<1>2. TagsKnown(j)
  BY <1>1 DEF TagsKnown
<1>3. FailureKnown(j)
  BY <1>1 DEF FailureKnown, Running
<1> QED
  BY <1>2, <1>3 DEF JobKnown
-----------------------------------------------------------------------------
LEMMA NoJobKnown ==
  ASSUME NEW pc \in {"none", "cancelled"}
  PROVE  JobKnown([NoJob EXCEPT !.pc = pc])
BY DEF JobKnown, NoJob, Jobs, JobStates, Running, TagsKnown, FailureKnown

LEMMA PubInitKnown == PubInit => PubInv
<1> SUFFICES ASSUME PubInit PROVE PubInv
  OBVIOUS
<1>1. JobKnown(NoJob) /\ NoJob.pc = "none"
  BY DEF JobKnown, NoJob, Jobs, JobStates, Running, TagsKnown, FailureKnown
<1>2. PubTypeOK
  BY <1>1 DEF PubInit, PubTypeOK, JobKnown
<1>3. \A d \in Dispatches : job[d] = NoJob
  BY DEF PubInit
<1> QED
  BY <1>1, <1>2, <1>3 DEF PubInv, JobKnown, NoTokenAfterSuccess, At, Running

LEMMA DispatchKnown ==
  ASSUME PubInv, NEW d \in Dispatches, NEW request \in Request, Dispatch(d, request)
  PROVE  PubInv'
<1> PICK j : j = [NoJob EXCEPT !.pc = "queued", !.sha = request.sha,
                               !.tags = TagsOf(request), !.trusted = request.trusted]
  OBVIOUS
<1>1. UNCHANGED <<registry, group, config, metadata>>
  BY DEF Dispatch
<1>2. job' = [e \in Dispatches |->
                CASE e = d -> j
                  [] e # d /\ At(e, "queued") -> [NoJob EXCEPT !.pc = "cancelled"]
                  [] OTHER -> job[e]]
  BY DEF Dispatch
<1>3. JobKnown(j) /\ j.pc = "queued"
  <2>1. TagsOf(request) \subseteq Tags
    BY DEF TagsOf, Request, Tags
  <2> QED
    BY <2>1
    DEF JobKnown, NoJob, Jobs, JobStates, Running, TagsKnown, FailureKnown, Request
<1>4. JobKnown([NoJob EXCEPT !.pc = "cancelled"])
  BY NoJobKnown
<1>5. \A e \in Dispatches : JobKnown(job[e])
  BY DEF PubInv, PubTypeOK, JobKnown
<1>6. ASSUME NEW e \in Dispatches
      PROVE  /\ JobKnown(job'[e])
             /\ job'[e].pc = job[e].pc \/ job'[e].pc \in {"queued", "cancelled"}
  <2>1. CASE e = d
    BY <1>2, <1>3, <2>1
  <2>2. CASE e # d /\ At(e, "queued")
    <3>1. job'[e] = [NoJob EXCEPT !.pc = "cancelled"]
      BY <1>2, <2>2
    <3> QED
      BY <1>4, <3>1 DEF NoJob
  <2>3. CASE e # d /\ ~At(e, "queued")
    BY <1>2, <1>5, <2>3
  <2> QED
    BY <2>1, <2>2, <2>3
<1>7. PubTypeOK'
  <2>1. \A e \in Dispatches : job'[e] \in Jobs
    BY <1>6 DEF JobKnown
  <2>2. job' \in [Dispatches -> Jobs]
    BY <1>2, <2>1
  <2> QED
    BY <1>1, <2>2 DEF PubInv, PubTypeOK
<1>8. ASSUME NEW e \in Dispatches
      PROVE  (job[e].pc \in Running => group = e)' /\ TagsKnown(job[e])' /\ FailureKnown(job[e])'
  <2> PICK k : k = job'[e]
    OBVIOUS
  <2>1. TagsKnown(k) /\ FailureKnown(k)
    BY <1>6 DEF JobKnown
  <2>2. k.pc \in Running => group = e
    BY <1>6 DEF PubInv, Running
  <2> QED
    BY <1>1, <2>1, <2>2 DEF TagsKnown, FailureKnown
<1>9. NoTokenAfterSuccess'
  BY <1>1, <1>6 DEF PubInv, NoTokenAfterSuccess, At
<1> QED
  BY <1>7, <1>8, <1>9 DEF PubInv
-----------------------------------------------------------------------------
LEMMA FaultKnown ==
  ASSUME PubInv, NEW d \in Dispatches, job[d].pc \in Running \ {"cleanup"}
  PROVE  JobKnown(Fault(d)) /\ Fault(d).pc = "cleanup"
<1> PICK j : j = Fault(d)
  OBVIOUS
<1>1. job[d] \in Jobs
  BY DEF PubInv, PubTypeOK
<1>2. /\ j \in Jobs /\ j.pc = "cleanup" /\ j.failed = TRUE /\ j.left = {} /\ j.faulty = TRUE
      /\ j.announced = job[d].announced /\ j.tags = job[d].tags /\ j.trusted = job[d].trusted
  BY <1>1 DEF Fault, Thrown, Jobs, JobStates, Running
<1> QED
  BY <1>2, ThrownKnown

(* A step that keeps the configurations and the metadata, and succeeds     *)
(* with a job that is known, or fails.                                     *)
LEMMA StepOrFault ==
  ASSUME PubInv, NEW d \in Dispatches, job[d].pc \in Running \ {"cleanup"},
         NEW j, JobKnown(j), j.pc \in Running, Set(d, j) \/ Set(d, Fault(d)),
         UNCHANGED <<registry, group, config, metadata>>
  PROVE  PubInv'
<1>1. config \in [Dispatches -> Configs] /\ metadata \in Digests \cup {NoDigest}
  BY DEF PubInv, PubTypeOK, Configs
<1>2. CASE Set(d, j)
  BY <1>1, <1>2, OneJobRunning
<1>3. CASE Set(d, Fault(d))
  <2>1. JobKnown(Fault(d)) /\ Fault(d).pc \in Running
    BY FaultKnown DEF Running
  <2> QED
    BY <1>1, <1>3, <2>1, OneJobRunning
<1> QED
  BY <1>2, <1>3

LEMMA StartKnown ==
  ASSUME PubInv, NEW d \in Dispatches, Start(d)
  PROVE  PubInv'
<1> PICK j : j = Goto(d, "preflight")
  OBVIOUS
<1>1. job[d] \in Jobs /\ TagsKnown(job[d]) /\ FailureKnown(job[d]) /\ job[d].pc = "queued"
  BY DEF PubInv, PubTypeOK, Start, At
<1>2. JobKnown(j) /\ j.pc = "preflight"
  <2>1. /\ j.pc = "preflight" /\ j.announced = NoDigest /\ j \in Jobs
        /\ j.failed = job[d].failed /\ j.trusted = job[d].trusted /\ j.exit = job[d].exit
        /\ j.faulty = job[d].faulty /\ j.found = job[d].found
    BY <1>1 DEF Goto, Jobs, JobStates, Running, FailureKnown
  <2> QED
    BY <1>1, <2>1 DEF JobKnown, TagsKnown, FailureKnown, Running
<1>3. /\ UNCHANGED <<registry, config, metadata>> /\ group' = d /\ Set(d, j)
      /\ \A e \in Dispatches : job[e].pc \notin Running
  BY RunAssumption DEF Start, PubInv
<1> QED
  BY <1>2, <1>3, OneJob DEF PubInv, PubTypeOK, Configs

LEMMA PreflightKnown ==
  ASSUME PubInv, NEW d \in Dispatches, Preflight(d)
  PROVE  PubInv'
<1>1. /\ job[d] \in Jobs /\ TagsKnown(job[d]) /\ FailureKnown(job[d])
      /\ job[d].pc = "preflight" /\ job[d].pc \in Running \ {"cleanup"}
  BY DEF PubInv, PubTypeOK, Preflight, At, Running
<1>2. JobKnown(Goto(d, "checkout")) /\ Goto(d, "checkout").pc \in Running
  BY <1>1 DEF Goto, JobKnown, Jobs, JobStates, Running, TagsKnown, FailureKnown
<1>3. ~job[d].trusted => JobKnown(Thrown(d)) /\ Thrown(d).pc \in Running
  <2> PICK j : j = Thrown(d)
    OBVIOUS
  <2>1. /\ j \in Jobs /\ j.pc = "cleanup" /\ j.failed = TRUE /\ j.left = {}
        /\ j.announced = job[d].announced /\ j.tags = job[d].tags
        /\ j.trusted = job[d].trusted
    BY <1>1 DEF Thrown, Jobs, JobStates, Running
  <2> QED
    BY <1>1, <2>1, ThrownKnown DEF Running
<1>4. config \in [Dispatches -> Configs] /\ metadata \in Digests \cup {NoDigest}
  BY DEF PubInv, PubTypeOK, Configs
<1> QED
  BY <1>1, <1>2, <1>3, <1>4, OneJobRunning DEF Preflight

LEMMA CheckoutKnown ==
  ASSUME PubInv, NEW d \in Dispatches, Checkout(d)
  PROVE  PubInv'
<1>1. /\ job[d] \in Jobs /\ TagsKnown(job[d]) /\ FailureKnown(job[d])
      /\ job[d].pc = "checkout" /\ job[d].pc \in Running \ {"cleanup"}
  BY DEF PubInv, PubTypeOK, Checkout, At, Running
<1>2. JobKnown(Goto(d, "login")) /\ Goto(d, "login").pc \in Running
  BY <1>1 DEF Goto, JobKnown, Jobs, JobStates, Running, TagsKnown, FailureKnown
<1> QED
  BY <1>1, <1>2, StepOrFault DEF Checkout

LEMMA LoginKnown ==
  ASSUME PubInv, NEW d \in Dispatches, Login(d)
  PROVE  PubInv'
<1> PICK j : j = [Goto(d, "refuse") EXCEPT !.left = TagsToCheck(d)]
  OBVIOUS
<1>1. /\ job[d] \in Jobs /\ TagsKnown(job[d]) /\ FailureKnown(job[d])
      /\ job[d].pc = "login" /\ job[d].pc \in Running \ {"cleanup"}
  BY DEF PubInv, PubTypeOK, Login, At, Running
<1>2. /\ j \in Jobs /\ j.pc = "refuse" /\ j.left = j.tags /\ j.announced = job[d].announced
      /\ j.failed = job[d].failed /\ j.trusted = job[d].trusted /\ j.exit = job[d].exit
      /\ j.faulty = job[d].faulty /\ j.found = job[d].found
  BY <1>1 DEF Goto, TagsToCheck, Jobs, JobStates, Running
<1>3. JobKnown(j) /\ j.pc \in Running
  BY <1>1, <1>2 DEF JobKnown, TagsKnown, FailureKnown, Running
<1>4. JobKnown(Fault(d)) /\ Fault(d).pc \in Running
  BY <1>1, FaultKnown DEF Running
<1>5. /\ config' \in [Dispatches -> Configs]
      /\ \A e \in Dispatches \ {d} : config'[e] = config[e]
  BY DEF PubInv, PubTypeOK, Configs, Login
<1>6. Set(d, j) \/ Set(d, Fault(d))
  BY DEF Login
<1>7. UNCHANGED <<registry, group, metadata>> /\ metadata \in Digests \cup {NoDigest}
  BY DEF Login, PubInv, PubTypeOK
<1> QED
  BY <1>1, <1>3, <1>4, <1>5, <1>6, <1>7, OneJobRunning

(* A step that keeps the configurations and the metadata.                  *)
LEMMA StepKnown ==
  ASSUME PubInv, NEW d \in Dispatches, job[d].pc \in Running,
         NEW j, JobKnown(j), j.pc \in Running, Set(d, j),
         UNCHANGED <<registry, group, config, metadata>>
  PROVE  PubInv'
<1>1. config \in [Dispatches -> Configs] /\ metadata \in Digests \cup {NoDigest}
  BY DEF PubInv, PubTypeOK, Configs
<1> QED
  BY <1>1, OneJobRunning

LEMMA LookupKnown ==
  ASSUME PubInv, NEW d \in Dispatches, NEW t \in Tags, Lookup(d, t)
  PROVE  PubInv'
<1>1. /\ job[d] \in Jobs /\ TagsKnown(job[d]) /\ FailureKnown(job[d])
      /\ job[d].pc = "refuse" /\ job[d].pc \in Running \ {"cleanup"}
  BY DEF PubInv, PubTypeOK, Lookup, At, Running
<1>2. UNCHANGED <<registry, group, config, metadata>>
  BY DEF Lookup
<1>3. CASE Set(d, [Thrown(d) EXCEPT !.found = TRUE])
  <2> PICK j : j = [Thrown(d) EXCEPT !.found = TRUE]
    OBVIOUS
  <2>1. /\ j \in Jobs /\ j.pc = "cleanup" /\ j.failed = TRUE /\ j.left = {} /\ j.found
        /\ j.announced = job[d].announced /\ j.tags = job[d].tags
        /\ j.trusted = job[d].trusted
    BY <1>1 DEF Thrown, Jobs, JobStates, Running
  <2>2. JobKnown(j) /\ j.pc \in Running
    BY <1>1, <2>1, ThrownKnown DEF Running
  <2> QED
    BY <1>1, <1>2, <1>3, <2>2, StepKnown
<1>4. CASE registry[t] = NoDigest
             /\ Set(d, [job[d] EXCEPT !.left = @ \ {t}, !.exit = AbsentCode])
  <2> PICK j : j = [job[d] EXCEPT !.left = @ \ {t}, !.exit = AbsentCode]
    OBVIOUS
  <2>1. /\ j \in Jobs /\ j.pc = "refuse" /\ j.left = job[d].left \ {t} /\ j.exit = 0
        /\ j.tags = job[d].tags /\ j.announced = job[d].announced
        /\ j.failed = job[d].failed /\ j.trusted = job[d].trusted
        /\ j.faulty = job[d].faulty /\ j.found = job[d].found
    BY <1>1 DEF AbsentCode, Jobs
  <2>2. JobKnown(j) /\ j.pc \in Running
    BY <1>1, <1>4, <2>1 DEF JobKnown, TagsKnown, FailureKnown, Running
  <2> QED
    BY <1>1, <1>2, <1>4, <2>2, StepKnown
<1>5. CASE Set(d, Fault(d))
  <2>1. JobKnown(Fault(d)) /\ Fault(d).pc \in Running
    BY <1>1, FaultKnown DEF Running
  <2> QED
    BY <1>1, <1>2, <1>5, <2>1, StepKnown
<1> QED
  BY <1>3, <1>4, <1>5 DEF Lookup

LEMMA LeaveLookupsKnown ==
  ASSUME PubInv, NEW d \in Dispatches, LeaveLookups(d)
  PROVE  PubInv'
<1>1. /\ job[d] \in Jobs /\ TagsKnown(job[d]) /\ FailureKnown(job[d])
      /\ job[d].pc = "refuse" /\ job[d].left = {} /\ job[d].pc \in Running \ {"cleanup"}
  BY DEF PubInv, PubTypeOK, LeaveLookups, At, Running
<1>2. job[d].exit = 0
  BY <1>1 DEF FailureKnown
<1> PICK j : j = Goto(d, "build")
  OBVIOUS
<1>3. Set(d, j) /\ UNCHANGED <<registry, group, config, metadata>>
  BY <1>2 DEF LeaveLookups
<1>4. /\ j \in Jobs /\ j.pc = "build" /\ j.tags = job[d].tags
      /\ j.announced = job[d].announced /\ j.exit = job[d].exit
      /\ j.failed = job[d].failed /\ j.trusted = job[d].trusted
      /\ j.faulty = job[d].faulty /\ j.found = job[d].found
  BY <1>1 DEF Goto, Jobs, JobStates, Running
<1>5. JobKnown(j) /\ j.pc \in Running
  BY <1>1, <1>4 DEF JobKnown, TagsKnown, FailureKnown, Running
<1> QED
  BY <1>1, <1>3, <1>5, StepKnown

LEMMA BuildKnown ==
  ASSUME PubInv, NEW d \in Dispatches, NEW g \in Digests, Build(d, g)
  PROVE  PubInv'
<1>1. /\ job[d] \in Jobs /\ TagsKnown(job[d]) /\ FailureKnown(job[d])
      /\ job[d].pc = "build" /\ job[d].pc \in Running \ {"cleanup"}
  BY DEF PubInv, PubTypeOK, Build, At, Running
<1> PICK j : j = [Goto(d, "push") EXCEPT !.digest = g, !.left = job[d].tags]
  OBVIOUS
<1>2. /\ j \in Jobs /\ j.pc = "push" /\ j.tags = job[d].tags /\ j.left = job[d].tags
      /\ j.digest = g /\ j.announced = job[d].announced /\ j.exit = job[d].exit
      /\ j.failed = job[d].failed /\ j.trusted = job[d].trusted
      /\ j.faulty = job[d].faulty /\ j.found = job[d].found
  BY <1>1 DEF Goto, Jobs, JobStates, Running
<1>3. JobKnown(j) /\ j.pc \in Running
  BY <1>1, <1>2, DigestAssumption DEF JobKnown, TagsKnown, FailureKnown, Running
<1>4. Set(d, j) \/ Set(d, Fault(d))
  BY DEF Build
<1> QED
  BY <1>1, <1>3, <1>4, StepOrFault DEF Build

(* A tag that is pushed has not existed: it belongs to no announcement.    *)
LEMMA PushTagKnown ==
  ASSUME PubInv, NEW d \in Dispatches, NEW t \in Tags, PushTag(d, t)
  PROVE  /\ PubInv'
         /\ registry' # registry => registry[t] = NoDigest /\ job[d].digest \in Digests
<1>1. /\ job[d] \in Jobs /\ TagsKnown(job[d]) /\ FailureKnown(job[d]) /\ t \in job[d].left
      /\ job[d].pc = "push" /\ job[d].pc \in Running \ {"cleanup"}
      /\ UNCHANGED <<group, config, metadata>>
  BY DEF PubInv, PubTypeOK, PushTag, At, Running
<1>2. registry[t] = NoDigest /\ job[d].digest \in Digests
  BY <1>1 DEF TagsKnown, Jobs
<1>3. CASE UNCHANGED registry /\ Set(d, Fault(d))
  <2>1. JobKnown(Fault(d)) /\ Fault(d).pc \in Running
    BY <1>1, FaultKnown DEF Running
  <2> QED
    BY <1>1, <1>2, <1>3, <2>1, StepKnown
<1>4. CASE /\ registry' = [registry EXCEPT ![t] = job[d].digest]
           /\ Set(d, [job[d] EXCEPT !.left = @ \ {t}])
  <2> PICK j : j = [job[d] EXCEPT !.left = @ \ {t}]
    OBVIOUS
  <2>1. /\ j \in Jobs /\ j.pc = "push" /\ j.tags = job[d].tags /\ j.left = job[d].left \ {t}
        /\ j.digest = job[d].digest /\ j.announced = job[d].announced
        /\ j.exit = job[d].exit /\ j.failed = job[d].failed /\ j.trusted = job[d].trusted
        /\ j.faulty = job[d].faulty /\ j.found = job[d].found
    BY <1>1 DEF Jobs
  <2>2. \A e \in Dispatches : job'[e] = IF e = d THEN j ELSE job[e]
    BY <1>4 DEF PubInv, PubTypeOK, Set
  <2>3. \A u \in Tags : registry'[u] = IF u = t THEN job[d].digest ELSE registry[u]
    BY <1>4 DEF PubInv, PubTypeOK
  <2>4. PubTypeOK'
    BY <1>1, <1>2, <1>4, <2>1 DEF PubInv, PubTypeOK, Set
  <2>5. TagsKnown(j)' /\ FailureKnown(j)'
    BY <1>1, <2>1, <2>3 DEF TagsKnown, FailureKnown, Jobs
  <2>6. ASSUME NEW e \in Dispatches, e # d
        PROVE  /\ (job[e].pc \in Running => group = e)'
               /\ TagsKnown(job[e])' /\ FailureKnown(job[e])'
    <3> PICK k : k = job[e]
      OBVIOUS
    <3>1. /\ k \in Jobs /\ TagsKnown(k) /\ FailureKnown(k) /\ k.pc \notin Running
          /\ job'[e] = k
      BY <1>1, <2>2, <2>6 DEF PubInv, PubTypeOK
    <3>2. \A u \in k.tags : k.announced # NoDigest => registry'[u] = k.announced
      BY <1>2, <2>3, <3>1 DEF TagsKnown, Jobs
    <3>3. TagsKnown(k)'
      BY <3>1, <3>2 DEF TagsKnown, Running
    <3> QED
      BY <3>1, <3>3 DEF FailureKnown
  <2>7. (job[d].pc \in Running => group = d)' /\ TagsKnown(job[d])' /\ FailureKnown(job[d])'
    BY <1>1, <2>2, <2>5 DEF PubInv
  <2>8. NoTokenAfterSuccess'
    BY <1>1, <2>1, <2>2 DEF PubInv, NoTokenAfterSuccess, At
  <2> QED
    BY <1>2, <2>4, <2>6, <2>7, <2>8 DEF PubInv
<1> QED
  BY <1>3, <1>4 DEF PushTag

LEMMA WriteMetadataKnown ==
  ASSUME PubInv, NEW d \in Dispatches, WriteMetadata(d)
  PROVE  PubInv'
<1>1. /\ job[d] \in Jobs /\ TagsKnown(job[d]) /\ FailureKnown(job[d])
      /\ job[d].pc = "push" /\ job[d].pc \in Running \ {"cleanup"}
      /\ UNCHANGED <<registry, group, config>>
  BY DEF PubInv, PubTypeOK, WriteMetadata, At, Running
<1> PICK j : j = Goto(d, "verify")
  OBVIOUS
<1>2. /\ j \in Jobs /\ j.pc = "verify" /\ j.tags = job[d].tags
      /\ j.announced = job[d].announced /\ j.exit = job[d].exit
      /\ j.failed = job[d].failed /\ j.trusted = job[d].trusted
      /\ j.faulty = job[d].faulty /\ j.found = job[d].found
  BY <1>1 DEF Goto, Jobs, JobStates, Running
<1>3. JobKnown(j) /\ j.pc \in Running
  BY <1>1, <1>2 DEF JobKnown, TagsKnown, FailureKnown, Running
<1>4. JobKnown(Fault(d)) /\ Fault(d).pc \in Running
  BY <1>1, FaultKnown DEF Running
<1>5. config \in [Dispatches -> Configs] /\ metadata' \in Digests \cup {NoDigest}
  BY <1>1 DEF PubInv, PubTypeOK, Configs, WriteMetadata, Jobs
<1>6. Set(d, j) \/ Set(d, Fault(d))
  BY DEF WriteMetadata
<1> QED
  BY <1>1, <1>3, <1>4, <1>5, <1>6, OneJobRunning

LEMMA VerifyKnown ==
  ASSUME PubInv, NEW d \in Dispatches, Verify(d)
  PROVE  PubInv'
<1>1. /\ job[d] \in Jobs /\ TagsKnown(job[d]) /\ FailureKnown(job[d])
      /\ job[d].pc = "verify" /\ job[d].pc \in Running \ {"cleanup"}
      /\ UNCHANGED <<registry, group, config, metadata>>
  BY DEF PubInv, PubTypeOK, Verify, At, Running
<1>2. CASE /\ metadata # NoDigest
           /\ \A t \in job[d].tags : registry[t] = metadata
           /\ Set(d, [Goto(d, "cleanup") EXCEPT !.announced = metadata])
  <2> PICK j : j = [Goto(d, "cleanup") EXCEPT !.announced = metadata]
    OBVIOUS
  <2>1. metadata \in Digests \cup {NoDigest}
    BY DEF PubInv, PubTypeOK
  <2>2. /\ j \in Jobs /\ j.pc = "cleanup" /\ j.tags = job[d].tags /\ j.announced = metadata
        /\ j.failed = job[d].failed /\ j.trusted = job[d].trusted
        /\ j.faulty = job[d].faulty /\ j.found = job[d].found
    BY <1>1, <2>1 DEF Goto, Jobs, JobStates, Running
  <2>3. JobKnown(j) /\ j.pc \in Running
    BY <1>1, <1>2, <2>2 DEF JobKnown, TagsKnown, FailureKnown, Running
  <2> QED
    BY <1>1, <1>2, <2>3, StepKnown
<1>3. CASE Set(d, Fault(d))
  <2>1. JobKnown(Fault(d)) /\ Fault(d).pc \in Running
    BY <1>1, FaultKnown DEF Running
  <2> QED
    BY <1>1, <1>3, <2>1, StepKnown
<1> QED
  BY <1>2, <1>3 DEF Verify

(* When the run that holds the group gives it up, no run is running.       *)
LEMMA GroupReleased ==
  ASSUME PubInv, NEW d \in Dispatches, job[d].pc \in Running
  PROVE  \A e \in Dispatches \ {d} : job[e].pc \notin Running
BY DEF PubInv

LEMMA CleanupKnown ==
  ASSUME PubInv, NEW d \in Dispatches, Cleanup(d)
  PROVE  PubInv'
<1>1. /\ job[d] \in Jobs /\ TagsKnown(job[d]) /\ FailureKnown(job[d])
      /\ job[d].pc = "cleanup" /\ job[d].pc \in Running
      /\ UNCHANGED registry /\ group' = NoRun /\ metadata' \in {metadata, NoDigest}
  BY DEF PubInv, PubTypeOK, Cleanup, At, Running
<1>2. PICK logout \in BOOLEAN, left \in {"none", "empty", "token"} :
        /\ config[d] = "none" => logout /\ left = "none"
        /\ config[d] = "empty" \/ logout => left # "token"
        /\ config' = [config EXCEPT ![d] = left]
        /\ Set(d, [Goto(d, Verdict(d, logout)) EXCEPT !.faulty = @ \/ ~logout])
  BY DEF Cleanup
<1> PICK j : j = [Goto(d, Verdict(d, logout)) EXCEPT !.faulty = @ \/ ~logout]
  OBVIOUS
<1> PICK verdict : verdict = Verdict(d, logout)
  OBVIOUS
<1>3. /\ verdict \in {"failed", "succeeded"}
      /\ verdict = "failed" <=> job[d].failed \/ ~logout
  BY DEF Verdict
<1>4. /\ j.pc = verdict /\ j.tags = job[d].tags /\ j.announced = job[d].announced
      /\ j.failed = job[d].failed /\ j.trusted = job[d].trusted /\ j.found = job[d].found
      /\ j.faulty = (job[d].faulty \/ ~logout)
  BY <1>1 DEF Goto, Jobs
<1>5. j \in Jobs
  <2>1. (job[d].faulty \/ ~logout) \in BOOLEAN /\ verdict \in JobStates
    BY <1>3 DEF JobStates
  <2>2. \A b \in BOOLEAN, pc \in JobStates :
          [[job[d] EXCEPT !.pc = pc] EXCEPT !.faulty = b] \in Jobs
    BY <1>1 DEF Jobs
  <2>3. j = [[job[d] EXCEPT !.pc = verdict] EXCEPT !.faulty = (job[d].faulty \/ ~logout)]
    BY <1>1 DEF Goto, Jobs
  <2> QED
    BY <2>1, <2>2, <2>3, Zenon
<1>6. JobKnown(j)
  BY <1>1, <1>3, <1>4, <1>5 DEF JobKnown, TagsKnown, FailureKnown, Running
<1>7. /\ config' \in [Dispatches -> Configs]
      /\ \A e \in Dispatches \ {d} : config'[e] = config[e]
      /\ j.pc = "succeeded" => config'[d] # "token"
  BY <1>2, <1>3, <1>4 DEF PubInv, PubTypeOK, Configs
<1>8. metadata' \in Digests \cup {NoDigest} /\ j.pc \notin Running
  BY <1>1, <1>3, <1>4 DEF PubInv, PubTypeOK, Running
<1> QED
  BY <1>1, <1>2, <1>6, <1>7, <1>8, GroupReleased, OneJob

LEMMA DieKnown ==
  ASSUME PubInv, NEW d \in Dispatches, Die(d)
  PROVE  PubInv'
<1>1. /\ job[d] \in Jobs /\ TagsKnown(job[d]) /\ FailureKnown(job[d])
      /\ job[d].pc \in Running /\ group' = NoRun
      /\ UNCHANGED <<registry, config, metadata>>
  BY DEF PubInv, PubTypeOK, Die
<1> PICK j : j = Goto(d, "dead")
  OBVIOUS
<1>2. /\ j \in Jobs /\ j.pc = "dead" /\ j.tags = job[d].tags
      /\ j.announced = job[d].announced /\ j.failed = job[d].failed
      /\ j.trusted = job[d].trusted /\ j.found = job[d].found /\ j.faulty = job[d].faulty
  BY <1>1 DEF Goto, Jobs, JobStates
<1>3. JobKnown(j) /\ j.pc \notin Running
  BY <1>1, <1>2 DEF JobKnown, TagsKnown, FailureKnown, Running
<1>4. config \in [Dispatches -> Configs] /\ metadata \in Digests \cup {NoDigest}
  BY DEF PubInv, PubTypeOK, Configs
<1> QED
  BY <1>1, <1>2, <1>3, <1>4, GroupReleased, OneJob DEF Die

LEMMA PubStutterKnown ==
  ASSUME PubInv, UNCHANGED pubVars
  PROVE  PubInv'
BY DEF PubInv, pubVars, PubTypeOK, TagsKnown, FailureKnown, NoTokenAfterSuccess, At
-----------------------------------------------------------------------------
LEMMA PubStepKnown ==
  ASSUME PubInv, [PubNext]_pubVars
  PROVE  PubInv'
<1>1. ASSUME NEW d \in Dispatches, Steps(d)
      PROVE  PubInv'
  BY <1>1, PreflightKnown, CheckoutKnown, LoginKnown, LookupKnown, LeaveLookupsKnown,
     BuildKnown, PushTagKnown, WriteMetadataKnown, VerifyKnown, CleanupKnown DEF Steps
<1> QED
  BY <1>1, DispatchKnown, StartKnown, DieKnown, PubStutterKnown DEF PubNext

(* PubInv is an invariant of publish-container.yml with publisher.ps1, for *)
(* any number of dispatches and in whatever step the runner dies.          *)
THEOREM PublisherInvariant == PubSpec => []PubInv
BY PubInitKnown, PubStepKnown, PTL DEF PubSpec

(* A publication that ends green has left no token on the runner (the      *)
(* logout in the cleanup of publish-container.yml).                        *)
THEOREM GreenLeavesNoToken == PubSpec => []NoTokenAfterSuccess
<1>1. PubInv => NoTokenAfterSuccess
  BY DEF PubInv
<1> QED
  BY <1>1, PublisherInvariant, PTL

(* Absent tags are not mistaken for a failure: what is refused without a   *)
(* fault has found a tag (Assert-PublisherTagsAbsent of publisher.ps1).    *)
THEOREM RefusalsJustified == PubSpec => []RefusalJustified
<1>1. PubInv => RefusalJustified
  BY DEF PubInv, FailureKnown, RefusalJustified, At
<1> QED
  BY <1>1, PublisherInvariant, PTL
-----------------------------------------------------------------------------
(* Publisher implements ImmutableTags: only PushTag assigns a tag and only *)
(* Verify announces; every other step keeps what is announced.             *)

LEMMA AnnouncedKept ==
  ASSUME \A e \in Dispatches :
           \/ job'[e].announced = job[e].announced /\ job'[e].tags = job[e].tags
           \/ job'[e].announced = NoDigest /\ job[e].announced = NoDigest
  PROVE  Announced' = Announced
<1>1. {e \in Dispatches : job'[e].announced # NoDigest}
        = {e \in Dispatches : job[e].announced # NoDigest}
  OBVIOUS
<1> QED
  BY <1>1 DEF Announced

(* A step of one run that keeps what it has announced.                     *)
LEMMA OneJobAnnounced ==
  ASSUME PubInv, NEW d \in Dispatches, NEW j, Set(d, j),
         j.announced = job[d].announced, j.tags = job[d].tags
  PROVE  Announced' = Announced
<1>1. \A e \in Dispatches : job'[e] = IF e = d THEN j ELSE job[e]
  BY DEF PubInv, PubTypeOK, Set
<1> QED
  BY <1>1, AnnouncedKept

LEMMA FaultAnnounced ==
  ASSUME PubInv, NEW d \in Dispatches
  PROVE  /\ Thrown(d).announced = job[d].announced /\ Thrown(d).tags = job[d].tags
         /\ Fault(d).announced = job[d].announced /\ Fault(d).tags = job[d].tags
         /\ \A pc : /\ Goto(d, pc).announced = job[d].announced
                    /\ Goto(d, pc).tags = job[d].tags
BY DEF PubInv, PubTypeOK, Jobs, Thrown, Fault, Goto

LEMMA DispatchAnnounced ==
  ASSUME PubInv, NEW d \in Dispatches, NEW request \in Request, Dispatch(d, request)
  PROVE  Announced' = Announced
<1>1. ASSUME NEW e \in Dispatches
      PROVE  \/ job'[e] = job[e]
             \/ job'[e].announced = NoDigest /\ job[e].announced = NoDigest
  <2>1. job[e].pc \in {"none", "queued"} => job[e].announced = NoDigest
    BY DEF PubInv, FailureKnown
  <2>2. CASE e = d
    <3>1. job'[e] = [NoJob EXCEPT !.pc = "queued", !.sha = request.sha,
                                  !.tags = TagsOf(request), !.trusted = request.trusted]
      BY <2>2 DEF Dispatch
    <3>2. job'[e].announced = NoDigest
      BY <3>1 DEF NoJob
    <3> QED
      BY <2>1, <2>2, <3>2 DEF Dispatch, At
  <2>3. CASE e # d /\ At(e, "queued")
    <3>1. job'[e] = [NoJob EXCEPT !.pc = "cancelled"]
      BY <2>3 DEF Dispatch
    <3> QED
      BY <2>1, <2>3, <3>1 DEF NoJob, At
  <2>4. CASE e # d /\ ~At(e, "queued")
    BY <2>4 DEF Dispatch
  <2> QED
    BY <2>2, <2>3, <2>4
<1> QED
  BY <1>1, AnnouncedKept

LEMMA QuietSteps ==
  ASSUME PubInv, NEW d \in Dispatches,
         \/ Start(d) \/ Preflight(d) \/ Checkout(d) \/ Login(d)
         \/ \E t \in Tags : Lookup(d, t)
         \/ LeaveLookups(d)
         \/ \E g \in Digests : Build(d, g)
         \/ WriteMetadata(d) \/ Cleanup(d) \/ Die(d)
  PROVE  UNCHANGED registry /\ Announced' = Announced
<1> USE FaultAnnounced, OneJobAnnounced
<1>0. job[d] \in Jobs
  BY DEF PubInv, PubTypeOK
<1>1. CASE Start(d)
  BY <1>1 DEF Start
<1>2. CASE Preflight(d)
  BY <1>2 DEF Preflight
<1>3. CASE Checkout(d)
  BY <1>3 DEF Checkout
<1>4. CASE Login(d)
  <2> PICK j : j = [Goto(d, "refuse") EXCEPT !.left = TagsToCheck(d)]
    OBVIOUS
  <2>1. j.announced = job[d].announced /\ j.tags = job[d].tags
    BY <1>0 DEF Goto, Jobs
  <2>2. UNCHANGED registry /\ (Set(d, j) \/ Set(d, Fault(d)))
    BY <1>4 DEF Login
  <2> QED
    BY <2>1, <2>2
<1>5. ASSUME NEW t \in Tags, Lookup(d, t)
      PROVE  UNCHANGED registry /\ Announced' = Announced
  <2> PICK j : j = [Thrown(d) EXCEPT !.found = TRUE]
    OBVIOUS
  <2> PICK k : k = [job[d] EXCEPT !.left = @ \ {t}, !.exit = AbsentCode]
    OBVIOUS
  <2>1. /\ j.announced = job[d].announced /\ j.tags = job[d].tags
        /\ k.announced = job[d].announced /\ k.tags = job[d].tags
    BY <1>0 DEF Thrown, Jobs
  <2>2. UNCHANGED registry /\ (Set(d, j) \/ Set(d, k) \/ Set(d, Fault(d)))
    BY <1>5 DEF Lookup
  <2> QED
    BY <2>1, <2>2
<1>6. CASE LeaveLookups(d)
  BY <1>6 DEF LeaveLookups
<1>7. ASSUME NEW g \in Digests, Build(d, g)
      PROVE  UNCHANGED registry /\ Announced' = Announced
  <2> PICK j : j = [Goto(d, "push") EXCEPT !.digest = g, !.left = job[d].tags]
    OBVIOUS
  <2>1. j.announced = job[d].announced /\ j.tags = job[d].tags
    BY <1>0 DEF Goto, Jobs
  <2>2. UNCHANGED registry /\ (Set(d, j) \/ Set(d, Fault(d)))
    BY <1>7 DEF Build
  <2> QED
    BY <2>1, <2>2
<1>8. CASE WriteMetadata(d)
  BY <1>8 DEF WriteMetadata
<1>9. CASE Cleanup(d)
  <2>1. PICK logout \in BOOLEAN :
          Set(d, [Goto(d, Verdict(d, logout)) EXCEPT !.faulty = @ \/ ~logout])
    BY <1>9 DEF Cleanup
  <2> PICK j : j = [Goto(d, Verdict(d, logout)) EXCEPT !.faulty = @ \/ ~logout]
    OBVIOUS
  <2>2. j.announced = job[d].announced /\ j.tags = job[d].tags
    BY <1>0 DEF Goto, Jobs
  <2> QED
    BY <1>9, <2>1, <2>2 DEF Cleanup
<1>10. CASE Die(d)
  BY <1>10 DEF Die
<1> QED
  BY <1>1, <1>2, <1>3, <1>4, <1>5, <1>6, <1>7, <1>8, <1>9, <1>10

LEMMA PushTagAssigns ==
  ASSUME PubInv, NEW d \in Dispatches, NEW t \in Tags, PushTag(d, t)
  PROVE  [TagPromise!TagsNext]_(TagPromise!tagVars)
<1> PICK j : j = [job[d] EXCEPT !.left = @ \ {t}]
  OBVIOUS
<1>1. job[d] \in Jobs
  BY DEF PubInv, PubTypeOK
<1>2. j.announced = job[d].announced /\ j.tags = job[d].tags
  BY <1>1 DEF Jobs
<1>3. Announced' = Announced
  BY <1>2, FaultAnnounced, OneJobAnnounced DEF PushTag
<1>4. CASE UNCHANGED registry
  BY <1>3, <1>4 DEF TagPromise!tagVars
<1>5. CASE registry' # registry
  <2>1. registry[t] = NoDigest /\ job[d].digest \in Digests
    BY <1>5, PushTagKnown
  <2>2. registry' = [registry EXCEPT ![t] = job[d].digest]
    BY <1>5 DEF PushTag
  <2>3. TagPromise!Assign(t, job[d].digest)
    BY <1>3, <2>1, <2>2 DEF TagPromise!Assign
  <2> QED
    BY <2>1, <2>3 DEF TagPromise!TagsNext
<1> QED
  BY <1>4, <1>5

LEMMA VerifyAnnounces ==
  ASSUME PubInv, NEW d \in Dispatches, Verify(d)
  PROVE  [TagPromise!TagsNext]_(TagPromise!tagVars)
<1>1. job[d] \in Jobs /\ job[d].announced = NoDigest /\ UNCHANGED registry
  BY DEF PubInv, PubTypeOK, Verify, At, FailureKnown
<1>2. CASE Set(d, Fault(d))
  <2>1. Announced' = Announced
    BY <1>2, FaultAnnounced, OneJobAnnounced
  <2> QED
    BY <1>1, <2>1 DEF TagPromise!tagVars
<1>3. CASE /\ metadata # NoDigest
           /\ \A t \in job[d].tags : registry[t] = metadata
           /\ Set(d, [Goto(d, "cleanup") EXCEPT !.announced = metadata])
  <2> PICK j : j = [Goto(d, "cleanup") EXCEPT !.announced = metadata]
    OBVIOUS
  <2>1. j.announced = metadata /\ j.tags = job[d].tags
    BY <1>1 DEF Goto, Jobs
  <2>2. \A e \in Dispatches : job'[e] = IF e = d THEN j ELSE job[e]
    BY <1>3 DEF PubInv, PubTypeOK, Set
  <2>3. {e \in Dispatches : job'[e].announced # NoDigest}
          = {e \in Dispatches : job[e].announced # NoDigest} \cup {d}
    BY <1>3, <2>1, <2>2
  <2>4. Announced' = Announced \cup {[tags |-> job[d].tags, digest |-> metadata]}
    <3>1. ASSUME NEW a \in Announced'
          PROVE  a \in Announced \cup {[tags |-> job[d].tags, digest |-> metadata]}
      <4>1. PICK e \in Dispatches :
              /\ job'[e].announced # NoDigest
              /\ a = [tags |-> job'[e].tags, digest |-> job'[e].announced]
        BY <3>1 DEF Announced
      <4> QED
        BY <2>1, <2>2, <4>1 DEF Announced
    <3>2. ASSUME NEW a \in Announced
          PROVE  a \in Announced'
      <4>1. PICK e \in Dispatches :
              /\ job[e].announced # NoDigest
              /\ a = [tags |-> job[e].tags, digest |-> job[e].announced]
        BY <3>2 DEF Announced
      <4>2. job'[e] = job[e]
        BY <1>1, <2>2, <4>1
      <4> QED
        BY <4>1, <4>2 DEF Announced
    <3>3. [tags |-> job[d].tags, digest |-> metadata] \in Announced'
      <4>1. job'[d].tags = job[d].tags /\ job'[d].announced = metadata
        BY <2>1, <2>2
      <4>2. d \in {e \in Dispatches : job'[e].announced # NoDigest}
        BY <1>3, <4>1
      <4>3. [tags |-> job'[d].tags, digest |-> job'[d].announced] \in Announced'
        BY <4>2, Zenon DEF Announced
      <4> QED
        BY <4>1, <4>3
    <3> QED
      BY <3>1, <3>2, <3>3
  <2>5. metadata \in Digests /\ job[d].tags \in SUBSET Tags
    BY <1>1, <1>3 DEF PubInv, PubTypeOK, Jobs
  <2>6. TagPromise!Announce(job[d].tags, metadata)
    BY <1>1, <1>3, <2>4 DEF TagPromise!Announce
  <2> QED
    BY <2>5, <2>6 DEF TagPromise!TagsNext
<1> QED
  BY <1>2, <1>3 DEF Verify

LEMMA PubStepRefines ==
  ASSUME PubInv, [PubNext]_pubVars
  PROVE  [TagPromise!TagsNext]_(TagPromise!tagVars)
<1>1. ASSUME UNCHANGED registry, Announced' = Announced
      PROVE  [TagPromise!TagsNext]_(TagPromise!tagVars)
  BY <1>1 DEF TagPromise!tagVars
<1>2. ASSUME NEW d \in Dispatches, NEW request \in Request, Dispatch(d, request)
      PROVE  [TagPromise!TagsNext]_(TagPromise!tagVars)
  <2>1. UNCHANGED registry
    BY <1>2 DEF Dispatch
  <2> QED
    BY <1>1, <1>2, <2>1, DispatchAnnounced
<1>3. ASSUME NEW d \in Dispatches, Start(d) \/ Steps(d) \/ Die(d)
      PROVE  [TagPromise!TagsNext]_(TagPromise!tagVars)
  <2>1. CASE \E t \in Tags : PushTag(d, t)
    BY <2>1, PushTagAssigns
  <2>2. CASE Verify(d)
    BY <2>2, VerifyAnnounces
  <2>3. CASE ~Verify(d) /\ ~\E t \in Tags : PushTag(d, t)
    <3>1. UNCHANGED registry /\ Announced' = Announced
      BY <1>3, <2>3, QuietSteps DEF Steps
    <3> QED
      BY <1>1, <3>1
  <2> QED
    BY <2>1, <2>2, <2>3
<1>4. CASE UNCHANGED pubVars
  <2>1. UNCHANGED registry /\ Announced' = Announced
    BY <1>4 DEF pubVars, Announced
  <2> QED
    BY <1>1, <2>1
<1> QED
  BY <1>2, <1>3, <1>4 DEF PubNext

(* The publisher keeps what ImmutableTags promises: a tag names one image  *)
(* for ever, and an announced image is what all its tags name              *)
(* (publish-container.yml with publisher.ps1).                             *)
THEOREM PublisherRefinement == PubSpec => ImplementsImmutableTags
<1>1. PubInit => TagPromise!TagsInit
  <2> SUFFICES ASSUME PubInit PROVE TagPromise!TagsInit
    OBVIOUS
  <2>1. \A d \in Dispatches : job[d].announced = NoDigest
    BY DEF PubInit, NoJob
  <2>2. Announced = {}
    BY <2>1 DEF Announced
  <2> QED
    BY <2>2 DEF PubInit, TagPromise!TagsInit
<1>2. PubInv /\ [PubNext]_pubVars => [TagPromise!TagsNext]_(TagPromise!tagVars)
  BY PubStepRefines
<1> QED
  BY <1>1, <1>2, PublisherInvariant, PTL
  DEF PubSpec, ImplementsImmutableTags, TagPromise!TagsSpec

(* What a green run has announced stays true: every tag it named still     *)
(* names that image (Assert-PublisherPushedDigest of publisher.ps1).       *)
THEOREM AnnouncementsStayTrue == PubSpec => []TagPromise!AnnouncementsHold
<1>1. ASSUME PubInv
      PROVE  TagPromise!AnnouncementsHold
  <2> SUFFICES ASSUME NEW a \in Announced, NEW t \in a.tags
               PROVE  registry[t] = a.digest
    BY DEF TagPromise!AnnouncementsHold
  <2>1. PICK d \in Dispatches :
          /\ job[d].announced # NoDigest
          /\ a = [tags |-> job[d].tags, digest |-> job[d].announced]
    BY DEF Announced
  <2> QED
    BY <1>1, <2>1 DEF PubInv, TagsKnown
<1> QED
  BY <1>1, PublisherInvariant, PTL
=============================================================================
