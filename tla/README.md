# Formal model of the Pharaon Asset Factory

TLA+ modules, TLC configurations and TLAPS proofs kept beside the repository.
Paths below are relative to the repository root.

## 1. The system

Pharaon Asset Factory turns tickets into reviewed pull requests with disposable
agents, and prepares a container that generates 3D assets offline from pinned,
verified model files. Its parts share files and nothing else.

| part | state it keeps | operations | what is hard | what makes it correct |
|---|---|---|---|---|
| `orchestrator/` workflow, contract, persistence, cli | claim, state and evidence files under `.orchestration/`, the `status:` line of each ticket document | `run-once`: claim a ticket, or reconcile one, or dispatch a worker or reviewer; `list-ready`, `show-state` | invocations that race over one checkout, a crash between any two writes, agents that outlive the invocation, late and stale results, people who merge at any time | one legal workflow per ticket, one owner, no lost state, bounded retries, approval of the endorsed commit only, completion from outside only, no starvation |
| `worker/` contract, workflow, repository, github, cli | none (ticket documents, git branches, pull requests) | prepare a context, validate a result, ensure branch, ensure pull request | list-then-create of pull requests, a creation whose answer is lost | one pull request per ticket; review-ready means passing evidence |
| `reviewer/` contract, workflow, github, cli | none (comments on a pull request) | prepare, review, validate for posting, post | the head moves between any two calls; three judgements of the same checks | no self-review; an approval rests on checks that passed, of what it is attached to |
| `docker/model_cache.py` | artifact files, partial files, lock directories, progress in memory | plan, verify, acquire | competing acquisitions, crash with the lock held, resumption, a byte budget over retries and redirects, partial failure over several files | mutual exclusion, budget never exceeded, success only if every file is verified, no unverified file published |
| `docker/readiness.py`, `health.py`, smoke scripts, entrypoint | nothing that lasts (probe files, reports on standard output) | probe and decide | one fault hides another, and each program has its own conditions; a scan beside an acquisition | profiles nest; programs agree about one image; READY is enough for what comes next |
| `asset_pipeline/` | none (it reads job documents, directories and the cache) | plan, prepare, preflight | the cache changes during the preflight | ready only if every file was verified |
| `scripts/publisher/publisher.ps1`, `.github/workflows/publish-container.yml` | registry tags, Docker configuration, build metadata | preflight, login, assert absent, push, verify, clean up | check-then-push, failure between two pushes, death of the runner | a tag names one image for ever; what is announced is so; no token left by a green run |
| `validation/` | none | check documents, run CI | – | – |

The orchestrator calls the worker's and the reviewer's workflow objects in
process (`prepare`, `validate_result`, `validate_for_posting`), talks to agents
through two dispatcher protocols for which the repository has no
implementation, and learns about the outside from an evidence file that some
adapter writes. The asset pipeline reads what the model cache downloaded.
`PROJECT.json` lists the hazards of all parts at their lines.

## 2. Plan

Most important behaviour first; each step is checked before it is proved.

1. Orchestrator (done, section 3): `OrchestratorContract`, `Orchestrator`,
   `TicketLifecycle`, `OrchestratorInductive`, `OrchestratorProofs`,
   `OrchestratorSafety`, `OrchestratorOrder`. Theorems: types; the inductive
   invariant, hence ownership, retry budgets, completion from outside, backed
   approval, for both backends; no lost update and the refinement of
   `TicketLifecycle` when saves cannot overlap; dependencies before claims; a
   state beside every claim and the right status in every document until a crash.
2. Model cache (done, section 4): `ArtifactLock`, `ModelCache`, `VerifiedCache`,
   `ModelCacheInductive`, `ModelCacheAlone`, `ModelCacheProofs`. Theorems: types,
   the budget and that only wanted content is published, whatever is removed by
   hand; that the lock of an acquisition at work stands beside those whose lock was
   removed; mutual exclusion, no needless download, temporary files and the
   refinement of `VerifiedCache`, as long as no lock in use is removed.
3. Pull requests and reviews (done, section 5): `PullRequests`,
   `PullRequestsProofs`. Theorems: one pull request per branch, evidence behind
   every approval, agreement of the three judgements.
4. Publisher (done, section 6): `ImmutableTags`, `Publisher`, `PublisherProofs`.
   Theorems: the refinement of `ImmutableTags`, no token after a green run,
   justified refusals.
5. Asset pipeline and runtime (done, section 7): `Preflight`, `Readiness`,
   `RuntimeProofs`. Theorems: a ready preflight verified every file; the verdicts
   of the programs agree.

What is left is in section 8.

## 3. Orchestrator

### Modules

`OrchestratorContract` has what computes and does not touch the store: stages,
the transition table, the state record with its retry counters, and the
handlers of `workflow.py` as functions from a state to the next one
(`HandleWorkerResult`, `WorkerFailure`, `ReviewFailure`, `HandleReviewResult`,
`Block`). A state of revision 0 is "no state file". The audit history is
represented by its length, which is the revision. A result carries the fields
that later decisions read (attempt, status, commit) and a flag for everything
`validate_result` or `validate_for_posting` checks about its identity, criteria
and reasons; pull request, diff, checks and comments are one package, present or
not. Self-review is excluded when `Orchestrator` is constructed and again by
`validate_for_posting`; it is part of the flag. `SUPERSEDED` tickets are never
selected and left out.

`Orchestrator` is any number of invocations over one store. `run[p]` is the
memory of invocation `p`, with the point it has reached; an action is one access
to the store and the computation up to the next access:

| code | actions |
|---|---|
| `run_once`, `claim_next` | `RunOnce`, `SelectTicket`, `AcquireClaim` |
| `reconcile` | `ReconcileCompletion`, `ReconcileWorker`, `ReconcileReviewer`, `ReconcileNothing` |
| `_dispatch_worker`, `_dispatch_reviewer` | `DispatchWorker`, `WorkerReturns`, `WorkerRaises`, the evidence write; `DispatchReviewer`, `ReviewerReturns`, `ReviewerRaises`, the evidence write |
| `_save` | the compare-and-set, then `SetTicketStatus` |
| `save_state` of `InMemoryBackend` | `CompareFails`, `CompareAndSet` |
| `save_state` of `RepositoryStateBackend` | `CompareFails`, `CompareRevision`, `ReplaceState` |
| `save_worker_result`, `save_reviewer_result` of `InMemoryBackend` | `SaveWorkerResult`, `SaveReviewerResult` |
| the same of `RepositoryStateBackend` | `LoadEvidence`, `ReplaceEvidence` |

The two backends are the two values of `AtomicCas`. The repository's backend
loads the whole evidence file and replaces it, so what the adapter, an orphan or
another invocation records in between is lost; `record` is what an invocation is
about to write. `Crash` ends an invocation
between any two accesses; the agent it waits for may survive it (`orphans`,
`reviewing`), and then persists a result, or dies. Nothing checks a result when
it is recorded, so an orphan's result is any of `RecordedResults`: with the number
of any attempt, or of none, valid or not (of one that is not valid only the number
is read). The evidence adapter and
people are external: they record what became of agents, the pull request and a
merge. `merged` and `endorsed` are history variables, for the properties only.

Simplifications: scanning a directory is one step; the adapter records a fact in
one step; the files that `prepare` reads and the tickets of the backend are the same; ticket
documents are not edited except for their status; the adapter stops recording
the pull request once the workflow has ended.

`TicketLifecycle` is what is promised about a ticket, without store or
invocations. `Orchestrator` implements it by reading stage and counters from the
saved state (`Lifecycle`).

`OrchestratorInductive` is the invariant behind the proofs; `OrchestratorProofs`,
`OrchestratorSafety` and `OrchestratorOrder` are the proofs; `MCOrchestrator` has
the values TLC uses.

Operators introduced by the comment "Mutant" are deliberate mistakes: replacing
the definition that follows by one of them makes the property named in
`PROJECT.json` fail.

### Runs

| run | instance | shows |
|---|---|---|
| `OrchestratorCrash` | file backend, 1 ticket, 1 invocation, 1 crash, 2 commits (symmetric), 2 attempts | `ImplementsLifecycle`, `RetriesWithinPolicy`, `ApprovalIsBacked`, `CompletionIsExternal` |
| `OrchestratorRacing` | 1 ticket, 2 invocations, atomic compare-and-set | `NoLostUpdate`, `StateBelongsToClaimant`, `IInv` |
| `OrchestratorLiveness` | 2 tickets, one depending on the other, fair | `ReadyIsClaimed`, `DependenciesFirst`, `MergedIsDone`, `StatusFollowsStage`, `ClaimHasState`, `TypeOK` |
| `OrchestratorRecovery` | file backend, 1 crash, 1 raising dispatcher, fair | `WorkflowsEnd`, `IInv` |
| `OrchestratorLostUpdate` | 2 invocations, file backend | `NoLostUpdate` fails |
| `OrchestratorOrphanClaim` | 1 crash | `ClaimHasState` fails |
| `OrchestratorUncharged` | 1 raising dispatcher | `EveryFailureIsCharged` fails |

`RetriesWithinPolicy` says where a counter may be, not only how large it is. The
code takes the maximum of `worker_attempts` and the number that a recorded result
reports, uncapped (`orchestrator/workflow.py:311-315`), so `worker_attempts` may
pass its limit by any amount. It then is in a `BLOCKED` workflow: no worker is
running, failed-and-retriable or numbered beyond the last attempt. The other two
counters never pass their limits.

`MergedIsDone` is about a person's `DONE` that `set_ticket_status` overwrites with
the older status of an invocation. Such a document is wrong for a time; the next
`reconcile` finds the completion in the evidence and writes `DONE` again (its
mutant looks at the document only, and then the ticket stays as it is). It is
checked without crashes: an invocation that dies after saving `COMPLETED` leaves
the document behind.

Bounds. `MaxReported` bounds the numbers of recorded results. It is one above
`MaxWorkerAttempts`, so a result may carry the number of an earlier attempt, of
the current one, of a later one, and one past the limit; the proofs leave it
open. `MaxCrashes` and `MaxRaises` bound what the environment may do;
one crash suffices to put an orphan beside a restarted invocation, which is
where stale results come from. `MaxRevision` bounds the cycle of changes
requested and failures that are charged to nothing: an invocation that loads a
state of that revision behaves as one without dispatchers. It is above every
reachable revision except in the runs with two invocations, where it is 5 or 6:
far enough for a claim, a worker run, a failure or delivery, and the next
dispatch, each racing with the other invocation. Retry limits of 1 and 2
distinguish "exhausted" from "one left".

Deadlock is checked in every run: an idle invocation can always run again.

Fairness (`Fairness`): invocations are started again and run to their end
("A future GitHub Action or service can invoke `run-once` repeatedly",
`orchestrator/README.md:88`), what became of an orphan is recorded, an approved
pull request is merged and the merge is recorded. The last is an assumption
about people, and `ReadyIsClaimed` needs it: `run_once` claims nothing new while
a workflow waits for its merge. Nothing is assumed about results, verdicts,
crashes and raised errors.

### Proved

For any number of tickets and invocations, every retry policy, any numbers in
recorded results and every bound on crashes and raises. Assumed of the constants are only the named assumptions
of `OrchestratorContract` and `Orchestrator` (limits are positive, bounds are
natural numbers, "nobody" is not an invocation).

| theorem | conclusion | holds for |
|---|---|---|
| `TypeCorrect` | `TypeOK` | both backends |
| `Invariant` | `IInv` is inductive and always holds | both backends |
| `Ownership` | `StateBelongsToClaimant` | both backends |
| `BoundedRetries` | `RetriesWithinPolicy` | both backends |
| `ExternalCompletion` | `CompletionIsExternal` | both backends |
| `BackedApproval` | `ApprovalIsBacked` | both backends |
| `DependenciesBefore` | `DependenciesFirst` | both backends |
| `ClaimedHasState` | `ClaimHasState` | both backends, until a crash |
| `StatusIsStage` | `StatusFollowsStage` | one invocation at a time, until a crash |
| `NoUpdateLost` | `NoLostUpdate` | saves that cannot overlap |
| `Refinement` | `ImplementsLifecycle`: the specification implements `TicketLifecycle` | saves that cannot overlap |

"Both backends" means any number of invocations, an evidence write that loses
what others recorded, and for the file backend saved states that are lost.
"Saves that cannot overlap" is `SavesApart`: the atomic compare-and-set of
`InMemoryBackend`, or one invocation at a time over either backend; the run
`OrchestratorLostUpdate` refutes `NoLostUpdate` without it, and TLC refutes
`ImplementsLifecycle` in the same instance. "Until a crash" is
`crashes = 0 => ...`: the run `OrchestratorOrphanClaim` refutes `ClaimHasState`
after one, and a crash between the two writes of `_save` leaves a stale status
that nothing corrects. `StatusFollowsStage` needs a single invocation also
without crashes, whatever the backend (TLC refutes it in the instance of
`OrchestratorRacing`): between the compare-and-set of one
invocation and its `set_ticket_status` another may save the next stage and write
its status, which the first then overwrites.

None of the properties is inductive. An invocation computes a successor long
before it saves it, so an invariant about the store alone says nothing about
what the next save writes; what matters is what each invocation remembers.
`IInv` has, beside the types, four parts. `StoreInv` is about files: a saved
state is within the retry policy, has a claim of the same owner, carries only
what it can justify (an approved commit that was endorsed, a completion that was
a merge). `EvidenceInv` is about the adapter's file (`TrueRecord`): an approving
review is of an endorsed commit, a merge was a merge. Nothing is known of the
number of a recorded result: the budgets rest on the handlers, which accept only
the number they expect and block on one past the limit (`WithinPolicy`). Each of these says something that stays true once it is true, so they
survive a backend that puts an old file back: what an invocation is about to
write (`NextFollows`, and `TrueRecord` of its `record`) was justified when it was
computed and still is. `MemoryInv` is about each invocation's memory, and `FreshInv` adds what needs
`SavesApart`. Two conjuncts carry the proof:

- `LoadedIsCurrent` (in `FreshInv`): if the revision an invocation loaded is still
  the saved one, then the state it loaded is still the saved one. Revisions only
  grow when saves cannot overlap, so the comparison of revisions that `save_state`
  makes is as good as a comparison of states. This is what the file backend lacks
  when invocations race.
- `Follows` (in `MemoryInv`): whatever an invocation is about to save is a
  lifecycle successor, one revision later, of the state it loaded. It is
  established by each handler and stays true because nothing else writes that
  memory. Being within the policy is part of it, which is why the budgets hold
  even if the state that is replaced is another.

Together they give, at the save, a lifecycle step from the saved state to the
new one; `NoLostUpdate` and `Refinement` are this, and the others are what a
lifecycle step preserves. The step lemmas follow the actions of `Next`, one per
action, under one lemma per handler of `OrchestratorContract`.

`OrchestratorOrder` adds, relative to `IInv`, what relates two files.
`DependenciesFirst` rests on what an invocation that is about to claim has seen
(`SelectedIsReady`): every dependency was completed, and `merged` never becomes
false again, so it does not matter that `claim_next` does not look twice.
`ClaimHasState` follows from who may move an invocation away from a first state
that it holds: its own save, which leaves a state behind, or a crash; the save of
a first state compares with "no state" and fails only once there is one.
`StatusFollowsStage` needs that what an invocation has just saved is what is
saved (`SavedIsCurrent`).

Only model-checked: the liveness properties (`WorkflowsEnd`, `MergedIsDone`,
`ReadyIsClaimed`), since neither fairness nor `ENABLED` is within the prover's
reach. No module uses `RECURSIVE` operators, and nothing proved needs induction
over data.

### Disagreements with the documents

1. `RepositoryStateBackend.save_state` is not a compare-and-set
   (`OrchestratorLostUpdate`).
2. A failure that a dispatcher raises, or an invalid result, is charged to no
   budget (`OrchestratorUncharged`): `_worker_failure` takes the maximum of
   `worker_attempts` and a reported attempt that is not passed.
3. A claim can be left without a workflow and is then skipped for ever
   (`OrchestratorOrphanClaim`).

Seen while modelling and not given a run:

- A crash between the state and the ticket document leaves a stale status that
  nothing corrects. After `CHANGES_REQUESTED` the document still says `REVIEW`,
  for which `prepare` has no context, and the ticket is blocked; after
  `COMPLETED`, the tickets that depend on this one never become ready. Two
  invocations of one ticket may leave a stale status too. These are the reasons
  why `StatusFollowsStage` and `MergedIsDone` are checked with one invocation and
  without crashes.
- A recorded result whose number is not the expected one is charged with its own
  number: one that is too large blocks a ticket with attempts left, with
  `worker_attempts` beyond `max_worker_attempts`; one of an earlier attempt is
  charged nothing, and makes a worker that disappeared a `VALIDATION` failure
  rather than an `INFRASTRUCTURE` one.

## 4. Model cache

### Modules

`ArtifactLock` is `_ArtifactLock`: a directory that one `mkdir` creates, an owner
file in it, and a release in three steps (compare the token, unlink the owner
file, remove the directory). `phase[p]` is how far invocation `p` is with it. An operator may remove any lock
at any time (`OperatorRemovesLock`), also one in use; `robbed` is history: from
whom, and in which phase. `Undisturbed(p)` says that the lock of `p` was never
removed under it, and no other while its owner was between two steps of taking or
releasing it.

`ModelCache` is `models acquire`: any number of invocations over one cache root,
each with its own manifest (`Namespace`, `Wanted`) and `--max-bytes`
(`Allowance`). `mem[p]` is the memory of invocation `p`: the point reached, the
files still to be handled (`todo`), the counters of the loops, what
`_TransferBudget` recorded (`received`). An action is one step of the code that
others can see or that can fail:

| code | actions |
|---|---|
| `run_acquire` up to the lock | `Start` |
| `_ArtifactLock.acquire` | `Lock`: `MakeLock`, `WriteOwner`, `OwnerNotWritten`, `GiveUp` |
| `_collect_states` under the lock | `Recheck` |
| the loop over the files, `_validate_destination` | `NextFile` |
| `_download_file` | `Request`, `BreakOff` |
| `_redirect_with_budget` | `FollowRedirect`, `OpenRedirect` |
| `_stream_once` | `BadResponse`, `AcceptResponse`, `Stream` |
| `os.replace` | `Promote` |
| removal of temporary files, final verification | `Cleanup`, `Verify` |
| `except`, `finally` | `Raise`, `LocalFault`, `Interrupt` |
| `_ArtifactLock.release` | `Release`: `ConfirmOwner`, `UnlinkOwner`, `RemoveLock` |

`Crash` is the death of a process, which leaves its lock and its temporary file;
`Spoil` is somebody who deletes, damages or replaces a file; `OperatorRemoves` is
the remedy for a lock that a crash left, and, done carelessly, the removal of a
lock in use. `wire` and `lost` are history
variables: the bytes that reads returned, and those that had arrived when a read
timed out. They are forgotten, with the counters, when an invocation leaves the
lock; `outcome` is kept.

`VerifiedCache` is what is promised about the files, without locks, requests,
retries or temporary files: a file changes in one step from missing or wrong to
what a manifest asks for, and success means that everything is in place at that
moment. `ModelCache` implements it by reading `outcome` as a verdict, until a lock
in use is removed: two acquisitions in one directory may then undo each other's
work between a verification and its success.

Simplifications:

- A content stands for its SHA-256: digests do not collide. A complete body is
  any content of the right size, the wrong ones included.
- A read returns at most `CHUNK_SIZE` bytes and reads are recorded as they
  return, so a partial file is only "partial" or complete.
- Symbolic links, unsafe temporary paths and failures to unlink are failures of
  local operations (`LocalFault`); a lock root that is refused is a lock that
  cannot be had (`GiveUp`).
- The cleanup of all directories of a manifest is one step. Each temporary file
  that it can meet belongs to an invocation with the same lock, which does not
  run then (`LiveTempKept`); after the removal of a lock in use nothing is
  claimed that depends on the order.
- Nobody changes a file between its final verification and the return of
  success (`Vouched`): no program can promise anything about that.
- The heartbeat changes a time that only a message mentions, and progress output
  is left out.

### Runs

Two invocations in all of them. The namespaces are `models/rev` and `models`, so
both reach the same directory under the lock of `models`; the manifests agree
about one file (1 byte) and disagree about the other (2 bytes).

| run | instance | shows |
|---|---|---|
| `CacheAcquisition` | fair, 1 byte lost in a read that times out; careful operators with 1 crash or interrupt and 1 file spoilt over an empty cache, or careless operators over one that has the files of `p1` | `MutualExclusion`, `BudgetRespected`, `NoNeedlessDownload`, `LiveTempKept`, `NoTempsAfterSuccess`, `ImplementsVerifiedCache`, `AcquisitionEnds`, `LockStands`, `TypeOK`, `IInv` |
| `CacheLostBytes` | 1 byte lost | `HardCap` fails |

Bounds. The allowances are 5 and 3 and both manifests are 3 bytes: one
invocation can afford to repeat its larger file, the other nothing at all, so
both "the allowance no longer suffices" and "the attempts are used up" occur.
Chunks of up to 2 bytes make the larger file arrive whole or in two pieces. One
retry distinguishes the first attempt from the last; redirect bodies of at most
1 byte are enough to be refused, to be followed for nothing and to be charged.
Nothing bounds the number of redirects, in the model as in the code:
`_RestrictedRedirectHandler` overrides the handlers in which `urllib` counts them,
so a chain of redirects without bodies goes on as long as servers want. One crash
leaves a lock, an owner file and a temporary file beside an invocation that goes
on. All of `RedirectBody`, `MaxLost`, `MaxCrashes` and `MaxSpoils` bound the
environment, none of them the program.

The run has two parts, told apart by the variable `part` of `MCModelCache`. With
careful operators, who remove a lock only when no invocation is past `mkdir`,
everything is claimed of every state. With careless ones, who remove a lock under
a working acquisition, what is claimed is `LockStands` (about whoever is
undisturbed), `MutualExclusion` of those that are, the budget and the end; that
part starts with the files of `p1` in place and has no crash and no change by
others, so that an acquisition that was robbed, its replacement and both releases
are reached with few steps in between. `LockStands` is what the comparison of
tokens is for: without it (mutant `ConfirmOwnerBlindly`) the release of an
acquisition whose lock was removed and replaced unlinks the replacement.

Deadlock is not checked: an invocation runs once, and when all are done nothing
happens any more.

`AcquisitionEnds` excepts an acquisition that is redirected for ever
(`[]<>At(p, "redirect")`), and nothing else: without the exception TLC shows the
chain of redirects.

Fairness: an invocation that was started and is not dead goes on
(`WF_vars(Advance(p))`). Each of its waits is limited: the lock has a deadline,
connections and reads have timeouts. That it is started, that servers answer
well, or that a crash happens is not assumed. The lock need not be had, because
waiting for it ends with `LOCK_CONFLICT`.

### Proved

For any number of invocations, any manifests, sizes and allowances, any number
of retries and redirects, crashes, interrupts and changes by others. Assumed are
the named assumptions of `ArtifactLock` and `ModelCache` (targets extend the
namespace of their manifest and none is the directory of another, which parsing
checks; sizes are positive; what others put in place of a file is not what is
wanted). Nothing is assumed about operators. What needs their care says so
itself: `MutualExclusion` and `LockStands` speak of invocations that are
`Undisturbed`, and the other four of `ModelCacheProofs` hold while `robbed = {}`,
that is until a lock in use is removed. After that nothing promises them.

| module | theorem | conclusion |
|---|---|---|
| `ModelCacheAlone` | `AloneInvariant` | `AloneInv` is inductive and always holds |
| | `TypeCorrect` | `TypeOK` |
| | `WithinBudget` | `BudgetRespected` |
| | `PublishesWanted` | `OnlyWantedAppears`: what appears at a final path is what the manifest of the invocation that puts it there asks for |
| `ModelCacheProofs` | `Invariant` | `IInv` is inductive and always holds |
| | `Exclusion` | `MutualExclusion` |
| | `LocksStand` | `LockStands` |
| | `OnlyNeeded` | `NoNeedlessDownload` |
| | `TempsOfOthers` | `LiveTempKept` |
| | `TempsGone` | `NoTempsAfterSuccess` |
| | `Refinement` | `ImplementsVerifiedCache` |

`AloneInv` is what rests on no lock: the types, the budget (`BudgetInv`: everything
read is recorded, which each check of the allowance rests on) and `DownloadFits`,
that a temporary file about to be renamed, if it is still there, has the content
whose digest was compared. Two acquisitions that meet in one directory because
somebody removed a lock may repeat downloads and remove each other's temporary
files, but neither exceeds its allowance nor publishes anything unverified.
`PublishesWanted` is stated of steps, and no run repeats it: while no lock in use
is removed it is part of `ImplementsVerifiedCache`.

`MutualExclusion` says nothing about an invocation that has made the directory
and not yet written the owner file, or is releasing. `LockInv` does. `Owns`:
whoever got past `mkdir` undisturbed is the maker of the directory that is there,
so the directory, and not the owner file, is what excludes; and the owner file
holds its token until it unlinks it. `Dispossessed` is the other half, about an
invocation whose lock was removed while it worked: it is never again the owner in
the file, because tokens are not reused and only their invocation writes them,
and so its release ends with the comparison. `LockStands` follows from both:
nobody else unlinks the owner file or removes the directory of an undisturbed
invocation.

What an invocation knows about files was read earlier. `TodoFits` says that it
is still so: before the cleanup everything in `todo` is missing or wrong, after
it everything outside `todo` is in place. `PartFits` says the same of its
temporary file. The lemmas that carry them compare paths: equal targets, and
equal directories of targets, have the same first component
(`KeyIsFirstName`, `SameDirSameKey`), hence the same lock; by `LockInv` no two
undisturbed invocations under the same lock are both under way (`Apart`); so what another
invocation publishes, removes or creates is somewhere else (`OthersKeep`), and
what an invocation does itself keeps its own knowledge (`OwnKept`). This is why
`_lock_key` takes the first component: with the whole namespace, its mutant,
`LiveTempKept` fails.

Only model-checked: `AcquisitionEnds`, since fairness is out of the prover's
reach.

### Disagreements with the documents

4. Bytes that had arrived when a read times out are counted nowhere
   (`CacheLostBytes`): `docker/README.md:218-225` calls `--max-bytes` a hard cap
   on the bytes received and says that every consumed byte is accounted.
   `BudgetRespected` is what holds: the cap on what reads returned.

Seen and not given a run:

- Redirects without a body are followed without limit, within one attempt and at
  no charge; `docker/README.md:231` calls transport behaviour finite.
- A destination that cannot be written is refused when its turn comes, after the
  files before it were requested (`docker/model_cache.py:1461`);
  `docker/README.md:276-277` says before any network request.
- `release` compares the token and unlinks the owner file in two steps. If the
  lock is removed and replaced in between, the replacement is unlinked; the
  docstrings (`docker/model_cache.py:689-691`, `863-868`) say that a replaced lock
  is never touched. This is the case that `Undisturbed` leaves out of
  `LockStands`. An owner file written into a directory that replaced one's own
  (between `mkdir` and `write_text`) is the other.

## 5. Pull requests and reviews

### Module

`PullRequests` is one ticket branch: GitHub, any number of calls of
`GitHubCli.ensure_pull_request` by workers that retry, and any number of review
sessions. `pulls` is what GitHub shows of the pull requests, `buckets` of the
checks; `call[w]` is the point that a worker has reached and `session[r]` all
that a review has gathered and decided. Each call of `gh` is an action, so
commits, checks, closings and merges come between any two of them.

| code | actions |
|---|---|
| `worker/github.py`: `ensure_pull_request` | `List`, `Edit`, `Create`, `View`, `Raise`, `CallAgain` |
| `reviewer/github.py`: `pull_request`, `pull_request_diff`, `checks` | `Read`, one action for each of the three |
| `reviewer/workflow.py`: `prepare` | `Prepare` (evidence of GitHub), `PreparePackage` (a JSON package of `reviewer/cli.py`) |
| `review` with `validate_for_posting` | `Review` |
| `submit_review` | `Confirm` (validation and the account of `gh`), `Post`, `Abandon` |

External are `Push`, `Report` and `Close`, and `CallAgain`, the next attempt.
GitHub is taken to allow one open pull request per branch and base.

Simplifications: a commit stands for its content and for the diff of it; an
attempt matches or not (`matches` stands for its status, validity, branch, head
commit and pull request, which are inputs); criteria and findings are two flags,
well formed and one left unsatisfied; `submit_review` validates a result and a
context that cannot have changed since `Review`, so its validation is that of
`Review`. `green` and `moved` are history. What `validate_for_posting` compares
that is the same in result and context by construction is left out.

### Run

`Delivery` has two workers, one reviewer, two commits, one check, two accounts
and at most two pull requests; packages with no check, an optional failure, a
failure and an infrastructure failure. Two workers are what the race needs; a
second pull request is what must not happen, so a bound of two lets it happen
(the mutant `ListOpenOnly` finds it). Reviews do not affect each other, so one
session is enough; two commits make "moved" and "not moved" differ. The same run
has the publications of section 6: the variable `part` of `MCDelivery` says which
of the two moves, since they share nothing. Deadlock is not checked: calls that
are posted, refused or dead stay so. No liveness is claimed: `gh` may fail for
ever, so no fairness is assumed.

| property | says |
|---|---|
| `OnePullRequest` | the branch never has two pull requests |
| `ApprovalHasEvidence` | a posted approval comes from another account than the author's; if its evidence is GitHub's, the checks it saw had all really passed, and it is attached to the commit that all its parts were read of unless the branch moved after the first of them |
| `DecisionsAgree` | a review in form is never refused by `validate_for_posting` |
| `PullInv` | the invariant of the proof |

`OnePullRequest` needs `QuietPeople`: nobody closes or merges a pull request
between a list that found none and the creation. Two workers then end with one,
because GitHub refuses the second creation; with a person who closes the first
in that moment there are two, and `ensure_pull_request` refuses ever after.

### Proved

`PullRequestsProofs`, for any number of workers, reviewers, commits, checks,
packages and accounts, from the named assumptions of the module (the first
commit is one, there is a check, packages consist of checks).
`PullInvariant`: `PullInv` is inductive, whatever people do;
`OnePullRequestAlways` assumes `QuietPeople`; `ApprovalEvidence` and
`DecisionsAlwaysAgree` assume nothing more.

`PullInv` says what a point in a call knows. `CreationsKnown`: at a creation, all
pull requests that exist are open, since the list found none and nobody closed
any, so GitHub's rule decides. `HeadKnown`: what a session has read is the head
of its pull request now unless `moved`, and all heads are the branch's
(`HeadsKnown`), so a push that changes it is noticed by every session. `ChecksRead`
and `GreenKnown` carry "passed" from the moment of reading to the posting:
buckets change later, `green` does not. Two lemmas carry most steps: `OneSession`
and `OneCall` reduce preservation to facts about the one record that changes.

### Seen, and not given a run

- `reviewer/README.md:52` says that the head SHA is validated again before a
  review is posted; `submit_review` compares the result with the context that was
  read at the start and does not ask GitHub. This is why `ApprovalHasEvidence`
  excepts a branch that moved.

## 6. Publisher

### Modules

`Publisher` is the job of `publish-container.yml` with the functions of
`publisher.ps1`, for any number of dispatched runs on one self-hosted runner.
`job[d]` is the step reached by run `d` and the memory its steps share;
`registry` is the tags, `config` the Docker configuration of each run,
`metadata` the one file that `buildx` writes and `group` the holder of the
concurrency group.

| code | actions |
|---|---|
| `workflow_dispatch`, `concurrency` | `Dispatch`, `Start` |
| trusted-context preflight; checkout to Docker preflight | `Preflight`; `Checkout` |
| `New-PublisherTemporaryDockerConfig`, login | `Login` |
| `Assert-PublisherTagsAbsent` | `Lookup`, tag by tag, and `LeaveLookups`, the end of the shell step |
| `Invoke-PublisherBuildxBuild` | `Build`, `PushTag`, tag by tag, `WriteMetadata` |
| metadata, digests, announcement | `Verify` |
| cleanup step | `Cleanup` |
| timeout, death of the runner | `Die` |

Every docker call may fail (`Fault`), and pushes are visible one by one.
`faulty` and `found` are history.

`ImmutableTags` is what is promised about the registry: a tag is assigned once,
and a publication is announced when all its tags name its image. `Publisher`
implements it by reading the announcements off the jobs.

Simplifications: an input passes the preflight or not (`trusted`); a commit
stands for its `sha-` tag; the steps between preflight and login, which change
nothing that others see, are one step; nobody else writes to the registry, which
is the assumption behind the lookups.

### Run

In `Delivery`: two dispatches, two commits, one release tag, two images. Two
dispatches of one commit, of two commits with one release tag, one that waits
for the other and one that is cancelled by the other while it waits are all
among the behaviours; two tags per run are what a failure between two pushes
needs; two images distinguish an old tag from a new one. No liveness
is claimed.

| property | says |
|---|---|
| `ImplementsImmutableTags` | the specification implements `ImmutableTags` |
| `NoTokenAfterSuccess` | after a green run its Docker configuration has no token |
| `RefusalJustified` | a trusted run in which nothing failed is refused only for a tag that exists |
| `PubInv` | the invariant of the proof |

### Proved

`PublisherProofs`, for any number of dispatches, commits, tags and images, from
the assumptions that release tags differ from `sha-` tags and that "none" is no
digest, tag or run. `PublisherInvariant`, `GreenLeavesNoToken`,
`RefusalsJustified`, `PublisherRefinement`, `AnnouncementsStayTrue`.

The argument is check-then-act made safe by the group. `PubInv` says that a run
in any step but the first and last holds the group, so no other run is in any; so
what a lookup found absent (`TagsKnown`) is absent until this run pushes it, and
a push never meets an existing tag. It therefore never touches a tag of an
announcement. Without the group (mutant `StartTogether`) the refinement fails.
The metadata file is shared and may be old: `Verify` compares it with the
registry, so that what is announced is true in any case.

### Seen, and not given a run

- A run that fails between two pushes leaves its `sha-` tag, and the commit can
  never be published again; a commit published without a release can never get
  one later.
- A runner that dies leaves the directory with the token; nothing removes it.
- PowerShell compares without regard to case (`-ne`, `-notmatch`), so the
  confirmation word is accepted in any case.

## 7. Asset pipeline and runtime

### Modules

`Preflight` is one command of `asset_pipeline.cli shape` (`plan`, `prepare` or
`preflight`) at a time, check by check, beside acquisitions, other jobs and
people. `command` is the check it makes next and what it found about each file;
the end of a command is its classification. The last part is
`verify_parsed_manifest_cache`, that is `_file_state` of one target after
another, and is also how `models status` and `models verify` look at files.

| code | actions |
|---|---|
| `main` of `asset_pipeline/cli.py` | `Start`, `ReadDocument`, `LoadRoots`, `ResolveImage`, `DeriveTarget`, `ResolveBackend`, `BindManifest`, `Conclude` |
| `_file_state` | `Look`, `Hash`, `Glob`, `CheckTemp` |
| acquisitions, as others see them | `TakeLock`, `DropLock`, `OpenTemp`, `RemoveTemp`, `Promote` |
| people, disks, other jobs | `ChangeFile`, `ChangeTemp`, `Remount`, `MakeTarget` |

The acquisition is the interface of section 4: that a file becomes right in one
rename is what `ImplementsVerifiedCache` says of `ModelCache`.

`Readiness` adds the gates, `ready --profile cpu` and `native-gpu`, the health
report and the three smoke programs. A gate looks at the source directory and for
the model directory (`ListModels`), scans the latter and then probes software,
extensions and directories (`Probe`). The scan is `rglob` with `is_file`, step by
step: it lists the files (`ListFiles`), asks each whether it is one (`LookAt`),
lists and visits the directory of locks (`ListLocks`, `VisitLock`), and lists
directories once more at its end (`EndScan`); acquisitions and people go on in
between. A directory that is gone when it is visited ends the gate with a
diagnostic error. What a gate concludes, and what the other
programs would conclude of the same image, are functions of that observation
(`Failed`, `Ready`, `Healthy`, `HealthSucceeds` and so on). `broken` is what does
not work. Each program has its own order of imports and its own handlers, which
is what these functions keep: `NativeReport` for the one handler that covers all
of `native_smoke.py`.

Simplifications: what a document, a manifest, an image or a path contains is its
first defect (`Defects`, `ManifestDefects`), in the order in which the code looks;
all targets share one directory; the two job directories are looked at one after
the other and never made by these commands; a file stands for its SHA-256.
A gate looks at roots all at once. Versions, packages and libraries are single
parts. Envelopes, reports and exit codes other than success are left out.

### Runs

| run | instance | shows |
|---|---|---|
| `Runtime` | 2 files, one of them a weight, 2 temporary names, 1 job, 1 change by people; any one part broken, or two of the five that hide one another | `ReadyWasVerified`, `ProfilesNest`, `HealthAgrees`, `ReadyServes`, `WeightsReported`, `RuntimeInv` |
| `VanishedTemp` | the same | `RefusedForAReason` fails |

Two files are needed for one to be changed after it was verified and before the
other; two temporary names for a list of which one vanishes; one change by
people, since each change is noted in `lost` and the properties speak of one file
at a time. A gate only looks, so its run is explored from states in which no
command is in the middle, and acquisitions and people act between any two steps of
it; what is broken varies only before there was a command, on which it does not
depend. The three verdict properties are about one
observation: TLC tries single faults and pairs, the theorems all combinations.
Deadlock is not checked, and there is no liveness here: a command makes finitely
many checks, each of them once.

| property | says |
|---|---|
| `ReadyWasVerified` | after a ready preflight every file is right unless it was right and changed since the command began |
| `ProfilesNest` | `native-gpu` fails only in the checks it adds; the verdict about the rest is that of `cpu` |
| `HealthAgrees` | cpu readiness implies the health report (without weights), and the converse but for directories, configuration and the renderer operation |
| `ReadyServes` | `native-gpu` readiness implies success of all smoke programs and of the health check with its flags; cpu readiness that the pipeline accepts the directories, unless a path is relative |
| `WeightsReported` | a gate that lists the models beside a ready preflight reports weights, unless all were lost since, at the latest when it looked at them |

### Proved

`RuntimeProofs`, for any manifest, any number of files and temporary names, any
changes and any `FaultSets`, from the named assumptions (sizes are positive,
which parsing checks; "missing" and "irregular" are not contents; weights are
targets). `PreflightInvariant` and `ReadyVerified` for the commands alone;
`RuntimeInvariant`, `ReadyVerifiedBesideGates`, `WeightsAlwaysReported`,
`ProfilesAlwaysNest`, `HealthAlwaysAgrees`, `ReadyAlwaysServes` with the gates.

A command verifies files at different moments, so it never knows that all are
right at once. What it knows of a file, `StillRight`, is that it is right or has
been lost since; every change by others keeps this (`StillRightKept`), and a
target becomes `MATCHED` only at a moment when it is right, and `VERIFIED` only
from `MATCHED`. `SizeAssumption` is needed at the end: "fully cached" compares
sums of bytes, and an empty file that is missing would not count.
A scan owes a ready preflight its weights: what it has not come upon is lost or
still to be looked at (`RuntimeInv`).
The three verdict theorems need no invariant: they follow for every observation
from the programs' conditions.

### Disagreements with the documents

5. A temporary file that a concurrent acquisition promotes or removes between the
   listing and the look at it makes a verified file `CORRUPTED`, and the
   preflight is refused (`VanishedTemp`).

Seen and not given a run:

- A lock directory that disappears while the model directory is scanned
  (`docker/health.py:226`) ends `ready` with a diagnostic error and `health` with
  a traceback.
- Two preflights of one job are both ready with the same directories
  (`asset_pipeline/paths.py:189`), which only the execution will make.
- Readiness accepts relative directories that the pipeline refuses; output and
  workspace may be the same directory.
- The health report compares the revision with `HUNYUAN_COMMIT` and its messages
  name `EXPECTED_HUNYUAN_COMMIT`; it keeps an offline flag "0" that readiness
  sets to "1"; it becomes "not ready" once weights are present.

## 8. Not modelled

- `worker/repository.py` and `ensure_ticket_branch`: a checkout or a new branch
  in the worker's own clone; the command lines of worker and orchestrator beyond
  what they call.
- The model fixture server, which exists for tests.
- `validation/`, which checks documents, and the entry point of the image, which
  executes a command.
- Printing, envelopes, messages and the parsing of documents beyond the defects
  that a classification tells apart.
