----------------------------- MODULE Orchestrator -----------------------------
(***************************************************************************)
(* Concurrent invocations of `run-once` over one shared store.             *)
(*                                                                         *)
(* The store survives crashes: claim files, state files, ticket documents  *)
(* (their status field) and evidence files.  run[p] is the memory of       *)
(* invocation p, lost when it crashes.  One action is one access to the    *)
(* store, or one return of a dispatched worker or reviewer, with the       *)
(* computation up to the next access.  A scan of a directory is one step.  *)
(*                                                                         *)
(* The world outside src/ is modelled as the code uses it: dispatched      *)
(* agents answer, fail or outlive the invocation that started them, an     *)
(* adapter records what it observes as evidence, people merge.             *)
(***************************************************************************)
EXTENDS OrchestratorContract

CONSTANTS
  Deps,        \* Deps[t]: the tickets t depends on
  Priority,    \* Priority[t]: 1 is the highest
  Dispatching, \* the invocations that have dispatchers configured
  AtomicCas,   \* TRUE: InMemoryBackend, which saves while it holds a lock
               \* FALSE: RepositoryStateBackend, which loads, then replaces
  MaxCrashes,  \* bound on crashes of an invocation
  MaxRaises,   \* bound on exceptions raised by dispatchers
  MaxRevision  \* bound on revisions: beyond it invocations have no dispatchers

ASSUME DepsAssumption == Deps \in [Tickets -> SUBSET Tickets]
ASSUME PriorityAssumption == Priority \in [Tickets -> Nat]
ASSUME DispatchingAssumption == Dispatching \subseteq Procs
ASSUME AtomicCasAssumption == AtomicCas \in BOOLEAN

VARIABLES
  claims,    \* claims[t]: the invocation that created the claim file, or NoOne
  states,    \* states[t]: the saved workflow state
  tickets,   \* tickets[t]: the status in the ticket's document
  evidence,  \* evidence[t]: the recorded evidence
  run        \* run[p]: the memory of invocation p

VARIABLES
  merged,    \* merged[t]: the ticket's work really was completed outside
  orphans,   \* orphans[t]: attempts whose workers outlived their invocation
  reviewing, \* reviewing[t]: packages whose reviewers outlived theirs
  crashes, raises,
  endorsed   \* endorsed[t]: commits that a reviewer returned APPROVE for

store == <<claims, states, tickets, evidence>>
world == <<merged, orphans, reviewing, crashes, raises, endorsed>>
vars == <<store, run, world>>

(* What an invocation remembers: the ticket, the state it loaded, the      *)
(* successor it is saving, what an agent returned to it, and the evidence  *)
(* it is replacing the recorded one by.                                    *)
Runs ==
  [pc : {"idle", "select", "acquire", "reconcile", "dispatch", "save", "replace",
         "status", "worker", "save_result", "reviewer", "save_review",
         "replace_evidence"},
   ticket : Tickets \cup {0}, base : WorkflowStates, next : WorkflowStates,
   result : AttemptResults, package : Packages, review : ReviewResults,
   record : Evidences]

Idle ==
  [pc |-> "idle", ticket |-> 0, base |-> NoState, next |-> NoState,
   result |-> NoResult, package |-> NoPackage, review |-> NoReview,
   record |-> NoEvidence]

Init ==
  /\ claims = [t \in Tickets |-> NoOne]
  /\ states = [t \in Tickets |-> NoState]
  /\ tickets = [t \in Tickets |-> "READY"]
  /\ evidence = [t \in Tickets |-> NoEvidence]
  /\ run = [p \in Procs |-> Idle]
  /\ merged = [t \in Tickets |-> FALSE]
  /\ orphans = [t \in Tickets |-> {}]
  /\ reviewing = [t \in Tickets |-> {}]
  /\ crashes = 0
  /\ raises = 0
  /\ endorsed = [t \in Tickets |-> {}]

-----------------------------------------------------------------------------
(* Readiness, selection and preparation.                                   *)

DependenciesDone(t) == \A d \in Deps[t] : tickets[d] = "DONE"

(* Mutant: dependencies are not looked at.                                 *)
ReadyAtOnce(t) == tickets[t] = "READY"

Ready(t) == tickets[t] = "READY" /\ DependenciesDone(t)

Eligible(t) == claims[t] = NoOne /\ Ready(t)

Before(t, u) ==
  \/ Priority[t] < Priority[u]
  \/ Priority[t] = Priority[u] /\ t <= u

(* Mutant: approved workflows are left alone.                              *)
ActiveUntilApproved ==
  {t \in Tickets : states[t].revision > 0
     /\ states[t].stage \notin TerminalStages \cup {"APPROVED_AWAITING_MERGE"}}

Active == {t \in Tickets : states[t].revision > 0 /\ states[t].stage \notin TerminalStages}

(* WorkerWorkflow.prepare returns READY.                                   *)
Prepared(t) == tickets[t] \in {"READY", "IN_PROGRESS"} /\ DependenciesDone(t)

-----------------------------------------------------------------------------
(* run_once: pick the first active ticket, or look for a new one.          *)

RunOnce(p) ==
  /\ run[p].pc = "idle"
  /\ \/ /\ Active = {}
        /\ run' = [run EXCEPT ![p] = [Idle EXCEPT !.pc = "select"]]
     \/ \E t \in Active :
          /\ \A u \in Active : t <= u
          /\ run' = [run EXCEPT ![p] = [Idle EXCEPT !.pc = "reconcile", !.ticket = t,
                                                    !.base = states[t]]]
  /\ UNCHANGED <<store, world>>

(* Mutant: the first unclaimed ticket is taken, then its readiness read.   *)
SelectUnclaimed(p) ==
  /\ run[p].pc = "select"
  /\ \E t \in Tickets :
       /\ claims[t] = NoOne
       /\ \A u \in Tickets : claims[u] = NoOne => Before(t, u)
       /\ run' = IF Ready(t) THEN [run EXCEPT ![p].pc = "acquire", ![p].ticket = t]
                             ELSE [run EXCEPT ![p] = Idle]
  /\ UNCHANGED <<store, world>>

SelectTicket(p) ==
  /\ run[p].pc = "select"
  /\ \/ /\ \A t \in Tickets : ~Eligible(t)
        /\ run' = [run EXCEPT ![p] = Idle]
     \/ \E t \in Tickets :
          /\ Eligible(t)
          /\ \A u \in Tickets : Eligible(u) => Before(t, u)
          /\ run' = [run EXCEPT ![p].pc = "acquire", ![p].ticket = t]
  /\ UNCHANGED <<store, world>>

(* Mutant: creation that is not exclusive.                                 *)
AcquireClaimTruncating(p) ==
  /\ run[p].pc = "acquire"
  /\ claims' = [claims EXCEPT ![run[p].ticket] = p]
  /\ run' = [run EXCEPT ![p].pc = "save", ![p].next = Claimed(p)]
  /\ UNCHANGED <<states, tickets, evidence, world>>

(* acquire_claim: exclusive creation; the loser reports CLAIM_CONFLICT.    *)
AcquireClaim(p) ==
  LET t == run[p].ticket IN
  /\ run[p].pc = "acquire"
  /\ \/ /\ claims[t] = NoOne
        /\ claims' = [claims EXCEPT ![t] = p]
        /\ run' = [run EXCEPT ![p].pc = "save", ![p].next = Claimed(p)]
     \/ /\ claims[t] # NoOne
        /\ run' = [run EXCEPT ![p] = Idle]
        /\ UNCHANGED claims
  /\ UNCHANGED <<states, tickets, evidence, world>>

-----------------------------------------------------------------------------
(* reconcile: what the evidence says about the state just loaded.          *)

ToSave(p, next) == run' = [run EXCEPT ![p].pc = "save", ![p].next = next]

(* Mutant: an overwritten document hides the completion.                    *)
CompletedByDocument(t) == tickets[t] = "DONE"

Completed(t) == tickets[t] = "DONE" \/ evidence[t].completed

ReconcileCompletion(p) ==
  LET t == run[p].ticket IN
  /\ run[p].pc = "reconcile"
  /\ Completed(t)
  /\ ToSave(p, Transition(run[p].base, "COMPLETED", "NONE"))
  /\ UNCHANGED <<store, world>>

(* A persisted result is for this run of the worker when its number is.    *)
ExpectedAttempt(s) == IF s.active # 0 THEN s.active ELSE s.attempts + 1

ReconcileWorker(p) ==
  LET t == run[p].ticket
      s == run[p].base
      r == evidence[t].worker
  IN
  /\ run[p].pc = "reconcile"
  /\ ~Completed(t)
  /\ s.stage = "WORKER_RUNNING"
  /\ \/ /\ r # NoResult
        /\ Prepared(t) /\ r.valid /\ r.attempt = ExpectedAttempt(s)
        /\ ToSave(p, HandleWorkerResult(s, r))
     \/ /\ r # NoResult
        /\ ~(Prepared(t) /\ r.valid /\ r.attempt = ExpectedAttempt(s))
        /\ ToSave(p, WorkerFailure(s, "VALIDATION", TRUE, r.attempt))
     \/ /\ r = NoResult
        /\ evidence[t].workerGone
        /\ ToSave(p, WorkerFailure(s, "INFRASTRUCTURE", FALSE, 0))
  /\ UNCHANGED <<store, world>>

ReconcileReviewer(p) ==
  LET t == run[p].ticket
      s == run[p].base
      ev == evidence[t]
      context == ReviewerContext(ev)
  IN
  /\ run[p].pc = "reconcile"
  /\ ~Completed(t)
  /\ s.stage = "REVIEW_RUNNING"
  /\ \/ /\ ev.review # NoReview
        /\ context # "READY"
        /\ ToSave(p, ReviewFailure(s, context))
     \/ /\ ev.review # NoReview
        /\ context = "READY"
        /\ ~ValidForPosting(ev.package, ev.review)
        /\ ToSave(p, ReviewFailure(s, "REVIEWER_EXECUTION"))
     \/ /\ ev.review # NoReview
        /\ context = "READY"
        /\ ValidForPosting(ev.package, ev.review)
        /\ ToSave(p, HandleReviewResult(s, ev.review))
     \/ /\ ev.review = NoReview
        /\ ev.reviewerGone
        /\ ToSave(p, ReviewFailure(s, "INFRASTRUCTURE"))
  /\ UNCHANGED <<store, world>>

(* Nothing to reconcile: dispatch, or report what is being waited for.     *)
ReconcileNothing(p) ==
  LET t == run[p].ticket
      s == run[p].base
      ev == evidence[t]
  IN
  /\ run[p].pc = "reconcile"
  /\ ~Completed(t)
  /\ s.stage = "WORKER_RUNNING" => ev.worker = NoResult /\ ~ev.workerGone
  /\ s.stage = "REVIEW_RUNNING" => ev.review = NoReview /\ ~ev.reviewerGone
  /\ IF s.stage \in {"CLAIMED", "WORKER_FAILED", "CHANGES_REQUESTED", "REVIEW_PENDING"}
          /\ p \in Dispatching /\ s.revision < MaxRevision
       THEN run' = [run EXCEPT ![p].pc = "dispatch"]
       ELSE run' = [run EXCEPT ![p] = Idle]
  /\ UNCHANGED <<store, world>>

-----------------------------------------------------------------------------
(* _dispatch_worker and _dispatch_reviewer, up to the dispatch itself.     *)

(* Mutants: one attempt too many; an attempt that is not numbered.         *)
AttemptLeftPlusOne(s) == s.attempts <= MaxWorkerAttempts
RunningUnnumbered(s) == Transition(s, "WORKER_RUNNING", "NONE")

AttemptLeft(s) == s.attempts + 1 <= MaxWorkerAttempts

Running(s) ==
  Transition([s EXCEPT !.active = s.attempts + 1], "WORKER_RUNNING", "NONE")

DispatchWorker(p) ==
  LET t == run[p].ticket
      s == run[p].base
  IN
  /\ run[p].pc = "dispatch"
  /\ s.stage # "REVIEW_PENDING"
  /\ \/ /\ ~Prepared(t)
        /\ ToSave(p, Block(s, "VALIDATION"))
     \/ /\ Prepared(t)
        /\ ~AttemptLeft(s)
        /\ ToSave(p, Block(s, "IMPLEMENTATION"))
     \/ /\ Prepared(t)
        /\ AttemptLeft(s)
        /\ ToSave(p, Running(s))
  /\ UNCHANGED <<store, world>>

DispatchReviewer(p) ==
  LET s == run[p].base
      ev == evidence[run[p].ticket]
      context == ReviewerContext(ev)
  IN
  /\ run[p].pc = "dispatch"
  /\ s.stage = "REVIEW_PENDING"
  /\ \/ /\ context # "READY"
        /\ ToSave(p, ReviewFailure(s, context))
     \/ /\ context = "READY"
        /\ run' = [run EXCEPT ![p].pc = "save",
                              ![p].next = Transition(s, "REVIEW_RUNNING", "NONE"),
                              ![p].package = ev.package]
  /\ UNCHANGED <<store, world>>

-----------------------------------------------------------------------------
(* _save: the state by compare-and-set, then the ticket's status.          *)

(* A failed comparison raises RuntimeError, which ends the invocation.     *)
CompareFails(p) ==
  /\ run[p].pc = "save"
  /\ states[run[p].ticket].revision # run[p].base.revision
  /\ run' = [run EXCEPT ![p] = Idle]
  /\ UNCHANGED <<store, world>>

(* Mutant: the revision is not compared.                                   *)
SetBlindly(p) ==
  /\ AtomicCas
  /\ run[p].pc = "save"
  /\ states' = [states EXCEPT ![run[p].ticket] = run[p].next]
  /\ run' = [run EXCEPT ![p].pc = "status"]
  /\ UNCHANGED <<claims, tickets, evidence, world>>

CompareAndSet(p) ==
  LET t == run[p].ticket IN
  /\ AtomicCas
  /\ run[p].pc = "save"
  /\ states[t].revision = run[p].base.revision
  /\ states' = [states EXCEPT ![t] = run[p].next]
  /\ run' = [run EXCEPT ![p].pc = "status"]
  /\ UNCHANGED <<claims, tickets, evidence, world>>

CompareRevision(p) ==
  /\ ~AtomicCas
  /\ run[p].pc = "save"
  /\ states[run[p].ticket].revision = run[p].base.revision
  /\ run' = [run EXCEPT ![p].pc = "replace"]
  /\ UNCHANGED <<store, world>>

ReplaceState(p) ==
  /\ run[p].pc = "replace"
  /\ states' = [states EXCEPT ![run[p].ticket] = run[p].next]
  /\ run' = [run EXCEPT ![p].pc = "status"]
  /\ UNCHANGED <<claims, tickets, evidence, world>>

(* Mutant: the status of the stage that was left.                          *)
SetPreviousStatus(p) ==
  LET s == run[p].base
      next == run[p].next IN
  /\ run[p].pc = "status"
  /\ tickets' = [tickets EXCEPT ![run[p].ticket] = TicketStatusFor(s.stage)]
  /\ run' = [run EXCEPT ![p] =
       CASE next.stage = "WORKER_RUNNING" -> [@ EXCEPT !.pc = "worker", !.base = next]
         [] next.stage = "REVIEW_RUNNING" -> [@ EXCEPT !.pc = "reviewer", !.base = next]
         [] OTHER -> Idle]
  /\ UNCHANGED <<claims, states, evidence, world>>

(* After a running stage is saved the agent is dispatched, otherwise the   *)
(* invocation has made its one step and ends.                              *)
SetTicketStatus(p) ==
  LET next == run[p].next IN
  /\ run[p].pc = "status"
  /\ tickets' = [tickets EXCEPT ![run[p].ticket] = TicketStatusFor(next.stage)]
  /\ run' = [run EXCEPT ![p] =
       CASE next.stage = "WORKER_RUNNING" -> [@ EXCEPT !.pc = "worker", !.base = next]
         [] next.stage = "REVIEW_RUNNING" -> [@ EXCEPT !.pc = "reviewer", !.base = next]
         [] OTHER -> Idle]
  /\ UNCHANGED <<claims, states, evidence, world>>

-----------------------------------------------------------------------------
(* The dispatched worker or reviewer answers.                              *)

WorkerReturns(p) ==
  LET s == run[p].base IN
  /\ run[p].pc = "worker"
  /\ \E r \in ResultsOf(s.active) :
       run' = [run EXCEPT ![p].pc = "save_result", ![p].result = r,
                          ![p].next = HandleWorkerResult(s, r)]
  /\ UNCHANGED <<store, world>>

(* DispatchError of any category, or a result that fails validation or has *)
(* another attempt's number (ValueError, category VALIDATION); no attempt  *)
(* number is reported.                                                     *)
WorkerRaises(p) ==
  /\ run[p].pc = "worker"
  /\ raises < MaxRaises
  /\ \E category \in FailureCategories :
       ToSave(p, WorkerFailure(run[p].base, category, category # "INFRASTRUCTURE", 0))
  /\ raises' = raises + 1
  /\ UNCHANGED <<store, merged, orphans, reviewing, crashes, endorsed>>

WithResult(ev, r) == [ev EXCEPT !.worker = r, !.workerGone = TRUE]

SaveWorkerResult(p) ==
  LET t == run[p].ticket IN
  /\ AtomicCas
  /\ run[p].pc = "save_result"
  /\ evidence' = [evidence EXCEPT ![t] = WithResult(@, run[p].result)]
  /\ run' = [run EXCEPT ![p].pc = "save"]
  /\ UNCHANGED <<claims, states, tickets, world>>

(* The reviews that a reviewer may hand back, valid or not.                *)
Reviews ==
  [commit : Commits, decision : {"APPROVE", "REQUEST_CHANGES"}, valid : BOOLEAN]

Endorse(t, r) ==
  endorsed' = IF r.valid /\ r.decision = "APPROVE"
                THEN [endorsed EXCEPT ![t] = @ \cup {r.commit}] ELSE endorsed

ReviewerReturns(p) ==
  LET s == run[p].base IN
  /\ run[p].pc = "reviewer"
  /\ \E r \in Reviews :
       /\ IF ValidForPosting(run[p].package, r)
            THEN run' = [run EXCEPT ![p].pc = "save_review", ![p].review = r,
                                    ![p].next = HandleReviewResult(s, r)]
            ELSE ToSave(p, ReviewFailure(s, "REVIEWER_EXECUTION"))
       /\ Endorse(run[p].ticket, r)
  /\ UNCHANGED <<store, merged, orphans, reviewing, crashes, raises>>

ReviewerRaises(p) ==
  /\ run[p].pc = "reviewer"
  /\ raises < MaxRaises
  /\ \E category \in FailureCategories :
       ToSave(p, ReviewFailure(run[p].base, category))
  /\ raises' = raises + 1
  /\ UNCHANGED <<store, merged, orphans, reviewing, crashes, endorsed>>

WithReview(ev, r) == [ev EXCEPT !.review = r, !.reviewerGone = TRUE]

SaveReviewerResult(p) ==
  LET t == run[p].ticket IN
  /\ AtomicCas
  /\ run[p].pc = "save_review"
  /\ evidence' = [evidence EXCEPT ![t] = WithReview(@, run[p].review)]
  /\ run' = [run EXCEPT ![p].pc = "save"]
  /\ UNCHANGED <<claims, states, tickets, world>>

(* The repository's backend loads the evidence and replaces the whole      *)
(* file: what is recorded in between is lost.                              *)
LoadEvidence(p) ==
  LET ev == evidence[run[p].ticket] IN
  /\ ~AtomicCas
  /\ run[p].pc \in {"save_result", "save_review"}
  /\ run' = [run EXCEPT
       ![p].pc = "replace_evidence",
       ![p].record = IF run[p].pc = "save_result" THEN WithResult(ev, run[p].result)
                                                  ELSE WithReview(ev, run[p].review)]
  /\ UNCHANGED <<store, world>>

ReplaceEvidence(p) ==
  /\ run[p].pc = "replace_evidence"
  /\ evidence' = [evidence EXCEPT ![run[p].ticket] = run[p].record]
  /\ run' = [run EXCEPT ![p].pc = "save", ![p].record = NoEvidence]
  /\ UNCHANGED <<claims, states, tickets, world>>

(* The invocation dies between any two accesses; an agent it dispatched    *)
(* may go on without it.                                                   *)
Crash(p) ==
  LET t == run[p].ticket IN
  /\ run[p].pc # "idle"
  /\ crashes < MaxCrashes
  /\ crashes' = crashes + 1
  /\ run' = [run EXCEPT ![p] = Idle]
  /\ orphans' = IF run[p].pc = "worker"
                  THEN [orphans EXCEPT ![t] = @ \cup {run[p].base.active}] ELSE orphans
  /\ reviewing' = IF run[p].pc = "reviewer"
                    THEN [reviewing EXCEPT ![t] = @ \cup {run[p].package}] ELSE reviewing
  /\ UNCHANGED <<store, merged, raises, endorsed>>

-----------------------------------------------------------------------------
(* The world: agents that outlived their invocation, the evidence adapter, *)
(* people.                                                                 *)

OrphanPersists(t) ==
  /\ \E n \in orphans[t] :
       /\ \E r \in RecordedResults :
            evidence' = [evidence EXCEPT ![t].worker = r, ![t].workerGone = TRUE]
       /\ orphans' = [orphans EXCEPT ![t] = @ \ {n}]
  /\ UNCHANGED <<claims, states, tickets, run, merged, reviewing, crashes, raises, endorsed>>

OrphanDies(t) ==
  /\ \E n \in orphans[t] : orphans' = [orphans EXCEPT ![t] = @ \ {n}]
  /\ UNCHANGED <<store, run, merged, reviewing, crashes, raises, endorsed>>

(* The adapter finds a running stage without a live agent: the agent died  *)
(* with its invocation, or was never started.                              *)
Alive(t, pc) == \E p \in Procs : run[p].ticket = t /\ run[p].pc = pc

RecordWorkerGone(t) ==
  /\ states[t].stage = "WORKER_RUNNING"
  /\ orphans[t] = {} /\ ~Alive(t, "worker")
  /\ ~evidence[t].workerGone
  /\ evidence' = [evidence EXCEPT ![t].workerGone = TRUE]
  /\ UNCHANGED <<claims, states, tickets, run, world>>

RecordReviewerGone(t) ==
  /\ states[t].stage = "REVIEW_RUNNING"
  /\ reviewing[t] = {} /\ ~Alive(t, "reviewer")
  /\ ~evidence[t].reviewerGone
  /\ evidence' = [evidence EXCEPT ![t].reviewerGone = TRUE]
  /\ UNCHANGED <<claims, states, tickets, run, world>>

ReviewPersists(t) ==
  /\ \E package \in reviewing[t], r \in Reviews :
       /\ evidence' = [evidence EXCEPT ![t].review = r, ![t].reviewerGone = TRUE]
       /\ reviewing' = [reviewing EXCEPT ![t] = @ \ {package}]
       /\ Endorse(t, r)
  /\ UNCHANGED <<claims, states, tickets, run, merged, orphans, crashes, raises>>

OrphanReviewerDies(t) ==
  /\ \E package \in reviewing[t] : reviewing' = [reviewing EXCEPT ![t] = @ \ {package}]
  /\ UNCHANGED <<store, run, merged, orphans, crashes, raises, endorsed>>

(* The adapter records the pull request's head and its checks, from the    *)
(* first delivery of a worker until the workflow has ended.                *)
ObservePullRequest(t) ==
  /\ evidence[t].worker.status = "REVIEW_READY"
  /\ states[t].stage \notin TerminalStages
  /\ \E head \in Commits, ci \in {"PASS", "FAIL", "INFRA_FAILURE"} :
       evidence' = [evidence EXCEPT ![t].package = [head |-> head, ci |-> ci]]
  /\ UNCHANGED <<claims, states, tickets, run, world>>

(* A person completes the work; the ticket document may say so at once.    *)
MergeExternally(t) ==
  /\ ~merged[t]
  /\ merged' = [merged EXCEPT ![t] = TRUE]
  /\ tickets' \in {tickets, [tickets EXCEPT ![t] = "DONE"]}
  /\ UNCHANGED <<claims, states, evidence, run, orphans, reviewing, crashes, raises, endorsed>>

RecordCompletion(t) ==
  /\ merged[t]
  /\ ~evidence[t].completed
  /\ evidence' = [evidence EXCEPT ![t].completed = TRUE]
  /\ UNCHANGED <<claims, states, tickets, run, world>>

-----------------------------------------------------------------------------

Step(p) ==
  \/ RunOnce(p) \/ SelectTicket(p) \/ AcquireClaim(p)
  \/ ReconcileCompletion(p) \/ ReconcileWorker(p) \/ ReconcileReviewer(p)
  \/ ReconcileNothing(p)
  \/ DispatchWorker(p) \/ DispatchReviewer(p)
  \/ CompareFails(p) \/ CompareAndSet(p) \/ CompareRevision(p) \/ ReplaceState(p)
  \/ SetTicketStatus(p)
  \/ WorkerReturns(p) \/ WorkerRaises(p) \/ SaveWorkerResult(p)
  \/ ReviewerReturns(p) \/ ReviewerRaises(p) \/ SaveReviewerResult(p)
  \/ LoadEvidence(p) \/ ReplaceEvidence(p)

World(t) ==
  \/ OrphanPersists(t) \/ OrphanDies(t) \/ RecordWorkerGone(t)
  \/ ReviewPersists(t) \/ OrphanReviewerDies(t) \/ RecordReviewerGone(t)
  \/ ObservePullRequest(t) \/ MergeExternally(t) \/ RecordCompletion(t)

Next ==
  \/ \E p \in Procs : Step(p) \/ Crash(p)
  \/ \E t \in Tickets : World(t)

Spec == Init /\ [][Next]_vars

(* Every operation goes on being tried: invocations are started again and  *)
(* run to their end, what happened to an orphaned agent is recorded, an    *)
(* approved pull request is merged, a merge is recorded.                   *)
Fairness ==
  /\ \A p \in Procs : WF_vars(Step(p))
  /\ \A t \in Tickets :
       /\ WF_vars(OrphanPersists(t) \/ OrphanDies(t))
       /\ WF_vars(RecordWorkerGone(t))
       /\ WF_vars(ReviewPersists(t) \/ OrphanReviewerDies(t))
       /\ WF_vars(RecordReviewerGone(t))
       /\ WF_vars(states[t].stage = "APPROVED_AWAITING_MERGE" /\ MergeExternally(t))
       /\ WF_vars(RecordCompletion(t))

FairSpec == Spec /\ Fairness

-----------------------------------------------------------------------------
(* Properties.                                                             *)

(* The type invariant.                                                     *)
TypeOK ==
  /\ claims \in [Tickets -> Procs \cup {NoOne}]
  /\ states \in [Tickets -> WorkflowStates]
  /\ tickets \in [Tickets -> TicketStatuses]
  /\ evidence \in [Tickets -> Evidences]
  /\ run \in [Procs -> Runs]
  /\ merged \in [Tickets -> BOOLEAN]
  /\ orphans \in [Tickets -> SUBSET Nat]
  /\ reviewing \in [Tickets -> SUBSET Packages]
  /\ crashes \in Nat
  /\ raises \in Nat
  /\ endorsed \in [Tickets -> SUBSET Commits]

(* However invocations interleave and crash, each ticket's saved states    *)
(* form one legal workflow: one claim, legal stages, one budget charged at *)
(* a time and none refunded, approval by a review, completion from outside *)
(* (LEGAL_TRANSITIONS, RetryPolicy, save_state's compare-and-set).         *)
View(s) ==
  [stage |-> s.stage, attempts |-> s.attempts, infra |-> s.infra, reviews |-> s.reviews]

Lifecycle ==
  INSTANCE TicketLifecycle WITH workflow <- [t \in Tickets |-> View(states[t])]

ImplementsLifecycle == Lifecycle!Spec

(* A saved state belongs to the one invocation that holds the claim file,  *)
(* although the claim and the state are two writes (claim_next).           *)
StateBelongsToClaimant ==
  \A t \in Tickets : states[t].revision > 0 =>
    claims[t] # NoOne /\ states[t].owner = claims[t]

(* A ticket is approved only if a reviewer endorsed the very commit the    *)
(* state records, whatever stale results and moved heads the evidence held *)
(* (_handle_review_result, validate_for_posting).                          *)
ApprovalIsBacked ==
  \A t \in Tickets : states[t].stage = "APPROVED_AWAITING_MERGE" =>
    states[t].commit \in endorsed[t]

(* Neither the state nor the ticket document says the work is done unless  *)
(* it was completed outside: the orchestrator never merges (reconcile).    *)
CompletionIsExternal ==
  \A t \in Tickets :
    states[t].stage = "COMPLETED" \/ tickets[t] = "DONE" => merged[t]

(* No ticket is claimed before everything it depends on was completed      *)
(* (readiness_reasons).                                                    *)
DependenciesFirst ==
  \A t \in Tickets : claims[t] # NoOne => \A d \in Deps[t] : merged[d]

(* No worker works beyond the last attempt, and a workflow that used up a  *)
(* budget is BLOCKED, whichever results restarts count again and whatever  *)
(* number a recorded result carries: _worker_failure takes that number     *)
(* uncapped, but only into BLOCKED (_worker_failure, _review_failure).     *)
RetriesWithinPolicy ==
  \A t \in Tickets :
    /\ \/ states[t].attempts > MaxWorkerAttempts
       \/ states[t].infra >= MaxInfrastructureRetries
       \/ states[t].reviews >= MaxReviewerRetries
       => states[t].stage = "BLOCKED"
    /\ states[t].infra <= MaxInfrastructureRetries
    /\ states[t].reviews <= MaxReviewerRetries
    /\ states[t].stage \in {"WORKER_RUNNING", "WORKER_FAILED"} =>
         states[t].attempts < MaxWorkerAttempts
    /\ states[t].active <= MaxWorkerAttempts

(* save_state is a compare-and-set: each saved state is computed from the  *)
(* one it replaces, along an edge of LEGAL_TRANSITIONS.                    *)
NoLostUpdate ==
  [][\A t \in Tickets : states'[t] # states[t] =>
       /\ states'[t].revision = states[t].revision + 1
       /\ states'[t].stage \in LegalTransitions[states[t].stage]]_states

(* Between steps the ticket document shows the status of the stage, or an  *)
(* outside completion (_save, ticket_status_for).                          *)
StatusFollowsStage ==
  \A t \in Tickets :
    \/ tickets[t] = TicketStatusFor(states[t].stage)
    \/ tickets[t] = "DONE"
    \/ \E p \in Procs : run[p].ticket = t /\ run[p].pc = "status"

(* A claim comes with a workflow state, or its owner is about to save one  *)
(* (claim_next).                                                           *)
ClaimHasState ==
  \A t \in Tickets : claims[t] # NoOne =>
    \/ states[t].revision > 0
    \/ \E p \in Procs : run[p].ticket = t /\ run[p].pc \in {"save", "replace"}

(* Every recorded failure is charged to a retry budget or blocks, so that  *)
(* retries are finite (_worker_failure, _review_failure).                  *)
EveryFailureIsCharged ==
  [][\A t \in Tickets :
       states'[t] # states[t] /\ states'[t].failure # "NONE" =>
         \/ states'[t].stage = "BLOCKED"
         \/ states'[t].attempts + states'[t].infra + states'[t].reviews
              > states[t].attempts + states[t].infra + states[t].reviews]_states

(* Every workflow that has a state ends, once agents that outlive their    *)
(* invocation are accounted for and approved work is merged (run_once).    *)
WorkflowsEnd ==
  \A t \in Tickets :
    states[t].revision > 0 ~> states[t].stage \in TerminalStages

(* Where no invocation dies, work that was completed outside does not stay *)
(* open: its state and its document come to say so, or it is BLOCKED,      *)
(* although an invocation may write its own older status over a person's   *)
(* DONE (reconcile, set_ticket_status).                                    *)
MergedIsDone ==
  \A t \in Tickets :
    merged[t] /\ states[t].revision > 0 ~>
      states[t].stage = "BLOCKED" \/ (states[t].stage = "COMPLETED" /\ tickets[t] = "DONE")

(* A ticket that stays ready is claimed, although run_once looks for new   *)
(* work only when no workflow is active (run_once, claim_next).            *)
ReadyIsClaimed ==
  \A t \in Tickets : Eligible(t) ~> ~Eligible(t)
=============================================================================
