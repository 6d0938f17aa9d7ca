------------------------- MODULE OrchestratorContract -------------------------
(***************************************************************************)
(* The pure half of the orchestrator: the stages of a ticket's workflow,   *)
(* the table of legal transitions, the state record with its retry         *)
(* counters, and the functions of workflow.py that compute the next state  *)
(* from the present one.  Nothing here reads or writes the store.          *)
(*                                                                         *)
(* A state whose revision is 0 stands for "no state file": the READY       *)
(* state that claim_next builds is never saved, the first state ever saved *)
(* is its successor, at revision 1.                                        *)
(***************************************************************************)
EXTENDS Naturals

CONSTANTS
  Tickets,                  \* ticket ids, compared by their number
  Procs,                    \* invocations of the orchestrator
  Commits,                  \* commits that workers push
  NoCommit,                 \* current_commit_sha, commit_sha is None
  NoOne,                    \* no claim file
  MaxWorkerAttempts,        \* RetryPolicy.max_worker_attempts
  MaxInfrastructureRetries, \* RetryPolicy.max_infrastructure_retries
  MaxReviewerRetries,       \* RetryPolicy.max_reviewer_retries
  MaxReported               \* bound on the attempt numbers that recorded results carry

ASSUME TicketsAssumption == Tickets \subseteq Nat
ASSUME NullsAssumption == NoCommit \notin Commits /\ NoOne \notin Procs
ASSUME RetryPolicyAssumption ==
  /\ MaxWorkerAttempts \in Nat \ {0}
  /\ MaxInfrastructureRetries \in Nat \ {0}
  /\ MaxReviewerRetries \in Nat \ {0}
ASSUME ReportedAssumption == MaxReported \in Nat

-----------------------------------------------------------------------------
(* Stages, failure categories and the transition table of contract.py.     *)

Stages ==
  {"READY", "CLAIMED", "WORKER_RUNNING", "WORKER_FAILED", "REVIEW_PENDING",
   "REVIEW_RUNNING", "CHANGES_REQUESTED", "APPROVED_AWAITING_MERGE",
   "BLOCKED", "COMPLETED"}

TerminalStages == {"BLOCKED", "COMPLETED"}

FailureCategories ==
  {"IMPLEMENTATION", "VALIDATION", "REVIEWER_EXECUTION", "INFRASTRUCTURE"}

LegalTransitions ==
  [READY |-> {"CLAIMED", "COMPLETED"},
   CLAIMED |-> {"WORKER_RUNNING", "BLOCKED", "COMPLETED"},
   WORKER_RUNNING |-> {"WORKER_FAILED", "REVIEW_PENDING", "BLOCKED", "COMPLETED"},
   WORKER_FAILED |-> {"WORKER_RUNNING", "BLOCKED", "COMPLETED"},
   REVIEW_PENDING |-> {"REVIEW_RUNNING", "BLOCKED", "REVIEW_PENDING", "COMPLETED"},
   REVIEW_RUNNING |-> {"REVIEW_PENDING", "CHANGES_REQUESTED",
                       "APPROVED_AWAITING_MERGE", "BLOCKED", "COMPLETED"},
   CHANGES_REQUESTED |-> {"WORKER_RUNNING", "BLOCKED", "COMPLETED"},
   APPROVED_AWAITING_MERGE |-> {"COMPLETED", "BLOCKED"},
   BLOCKED |-> {"COMPLETED"},
   COMPLETED |-> {}]

TicketStatuses == {"READY", "IN_PROGRESS", "REVIEW", "BLOCKED", "DONE"}

(* Mutants: the stage's own name; approval counted as done.                *)
TicketStatusVerbatim(stage) == stage
TicketStatusEager(stage) ==
  CASE stage = "READY" -> "READY"
    [] stage \in {"REVIEW_PENDING", "REVIEW_RUNNING"} -> "REVIEW"
    [] stage = "BLOCKED" -> "BLOCKED"
    [] stage \in {"APPROVED_AWAITING_MERGE", "COMPLETED"} -> "DONE"
    [] OTHER -> "IN_PROGRESS"

TicketStatusFor(stage) ==
  CASE stage = "READY" -> "READY"
    [] stage \in {"CLAIMED", "WORKER_RUNNING", "WORKER_FAILED",
                  "CHANGES_REQUESTED"} -> "IN_PROGRESS"
    [] stage \in {"REVIEW_PENDING", "REVIEW_RUNNING",
                  "APPROVED_AWAITING_MERGE"} -> "REVIEW"
    [] stage = "BLOCKED" -> "BLOCKED"
    [] stage = "COMPLETED" -> "DONE"

(* WorkflowState.  active = 0 is active_attempt None; the audit history is *)
(* represented by its length, which is the revision.                       *)
WorkflowStates ==
  [revision : Nat, stage : Stages, owner : Procs \cup {NoOne},
   attempts : Nat, active : Nat, infra : Nat, reviews : Nat,
   commit : Commits \cup {NoCommit}, failure : FailureCategories \cup {"NONE"}]

NoState ==
  [revision |-> 0, stage |-> "READY", owner |-> NoOne,
   attempts |-> 0, active |-> 0, infra |-> 0, reviews |-> 0,
   commit |-> NoCommit, failure |-> "NONE"]

(* WorkflowState.transition, after the caller's field changes.             *)
Transition(s, target, category) ==
  [s EXCEPT !.revision = @ + 1, !.stage = target, !.failure = category]

-----------------------------------------------------------------------------
(* What workers and reviewers hand back.                                   *)

AttemptStatuses ==
  {"BLOCKED", "IMPLEMENTATION_FAILED", "VALIDATION_FAILED", "INFRA_FAILURE",
   "REVIEW_READY"}

(* AttemptResult.  valid abstracts validate_result: identity of ticket,    *)
(* branch and criteria, and PASS evidence behind REVIEW_READY.             *)
AttemptResults ==
  [attempt : Nat, status : AttemptStatuses \cup {"NONE"},
   commit : Commits \cup {NoCommit}, valid : BOOLEAN]

NoResult == [attempt |-> 0, status |-> "NONE", commit |-> NoCommit, valid |-> FALSE]

(* The results that _dispatch_worker accepts for attempt n; any other ends *)
(* in a ValueError.  validate_result asks a review-ready one for evidence, *)
(* but not for a commit.                                                   *)
ResultsOf(n) ==
  [attempt : {n}, status : AttemptStatuses, commit : Commits \cup {NoCommit},
   valid : {TRUE}]

(* The results that may be recorded as evidence: nothing checks them, nor  *)
(* the number they carry, before the next reconcile.  A valid one has a    *)
(* number of at least 1; of one that is not valid only the number is read. *)
RecordedResults ==
  {r \in [attempt : 0..MaxReported, status : AttemptStatuses,
          commit : Commits \cup {NoCommit}, valid : BOOLEAN] :
     IF r.valid THEN r.attempt > 0 ELSE r.status = "REVIEW_READY" /\ r.commit = NoCommit}

(* ReviewResult.  valid abstracts the identity, criteria and reason checks *)
(* of validate_for_posting, the other checks are written out below.        *)
ReviewResults ==
  [commit : Commits \cup {NoCommit},
   decision : {"APPROVE", "REQUEST_CHANGES", "NONE"}, valid : BOOLEAN]

NoReview == [commit |-> NoCommit, decision |-> "NONE", valid |-> FALSE]

(* PR metadata, diff, checks and comments as one package; NoPackage when   *)
(* any of the four is missing.                                             *)
Packages ==
  [head : Commits \cup {NoCommit}, ci : {"PASS", "FAIL", "INFRA_FAILURE", "NONE"}]

NoPackage == [head |-> NoCommit, ci |-> "NONE"]

Evidences ==
  [worker : AttemptResults, workerGone : BOOLEAN, package : Packages,
   review : ReviewResults, reviewerGone : BOOLEAN, completed : BOOLEAN]

NoEvidence ==
  [worker |-> NoResult, workerGone |-> FALSE, package |-> NoPackage,
   review |-> NoReview, reviewerGone |-> FALSE, completed |-> FALSE]

-----------------------------------------------------------------------------
(* The state computations of workflow.py.                                  *)

(* Mutant: the claimed state does not count as a revision.                 *)
ClaimedUnrevised(p) == [NoState EXCEPT !.owner = p, !.stage = "CLAIMED"]

Claimed(p) ==
  Transition([NoState EXCEPT !.owner = p], "CLAIMED", "NONE")

(* Mutant: blocking refunds the infrastructure retries.                    *)
BlockRefunding(s, category) ==
  Transition([s EXCEPT !.active = 0, !.infra = 0], "BLOCKED", category)

Block(s, category) ==
  Transition([s EXCEPT !.active = 0], "BLOCKED", category)

WorkerFailure(s, category, consumeAttempt, reportedAttempt) ==
  LET attempts == IF consumeAttempt /\ reportedAttempt > s.attempts
                    THEN reportedAttempt ELSE s.attempts
      infra == IF category = "INFRASTRUCTURE" THEN s.infra + 1 ELSE s.infra
      exhausted == IF category = "INFRASTRUCTURE"
                     THEN infra >= MaxInfrastructureRetries
                     ELSE attempts >= MaxWorkerAttempts
      charged == [s EXCEPT !.attempts = attempts, !.infra = infra, !.active = 0]
  IN Transition(charged, IF exhausted THEN "BLOCKED" ELSE "WORKER_FAILED", category)

HandleWorkerResult(s, r) ==
  CASE r.status = "REVIEW_READY" ->
         Transition([s EXCEPT !.attempts = r.attempt, !.active = 0,
                              !.commit = r.commit],
                    "REVIEW_PENDING", "NONE")
    [] r.status = "BLOCKED" ->
         Block([s EXCEPT !.attempts = r.attempt], "IMPLEMENTATION")
    [] r.status = "IMPLEMENTATION_FAILED" ->
         WorkerFailure(s, "IMPLEMENTATION", TRUE, r.attempt)
    [] r.status = "VALIDATION_FAILED" ->
         WorkerFailure(s, "VALIDATION", TRUE, r.attempt)
    [] OTHER ->
         WorkerFailure(s, "INFRASTRUCTURE", FALSE, r.attempt)

ReviewFailure(s, category) ==
  LET infra == IF category = "INFRASTRUCTURE" THEN s.infra + 1 ELSE s.infra
      reviews == IF category = "REVIEWER_EXECUTION" THEN s.reviews + 1 ELSE s.reviews
      exhausted == IF category = "INFRASTRUCTURE"
                     THEN infra >= MaxInfrastructureRetries
                     ELSE reviews >= MaxReviewerRetries
      charged == [s EXCEPT !.infra = infra, !.reviews = reviews]
  IN IF exhausted THEN Block(charged, category)
                  ELSE Transition(charged, "REVIEW_PENDING", category)

(* _reviewer_context: READY, or the category of the failure it raises.     *)
ReviewerContext(ev) ==
  CASE ev.worker = NoResult \/ ev.package = NoPackage -> "REVIEWER_EXECUTION"
    [] ev.package.ci = "INFRA_FAILURE" -> "INFRASTRUCTURE"
    [] ~ev.worker.valid \/ ev.package.head # ev.worker.commit -> "REVIEWER_EXECUTION"
    [] OTHER -> "READY"

(* ReviewerWorkflow.validate_for_posting against the package under review. *)
ValidForPosting(package, r) ==
  /\ r.valid
  /\ r.commit = package.head
  /\ r.decision = "APPROVE" => package.ci = "PASS"

(* Mutant: the reviewed commit is not compared with the state's.           *)
HandleReviewResultStale(s, r) ==
  IF r.decision = "APPROVE" THEN Transition(s, "APPROVED_AWAITING_MERGE", "NONE")
                            ELSE Transition(s, "CHANGES_REQUESTED", "NONE")

HandleReviewResult(s, r) ==
  CASE r.commit # s.commit -> ReviewFailure(s, "REVIEWER_EXECUTION")
    [] r.commit = s.commit /\ r.decision = "APPROVE" ->
         Transition(s, "APPROVED_AWAITING_MERGE", "NONE")
    [] r.commit = s.commit /\ r.decision = "REQUEST_CHANGES" ->
         Transition(s, "CHANGES_REQUESTED", "NONE")
    [] OTHER -> ReviewFailure(s, "REVIEWER_EXECUTION")
=============================================================================
