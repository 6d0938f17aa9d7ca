-------------------------- MODULE OrchestratorSafety --------------------------
(***************************************************************************)
(* The inductive invariant of OrchestratorInductive is one, for both       *)
(* backends; hence the safety properties and, where saves cannot overlap,  *)
(* that no update is lost and that Orchestrator implements                 *)
(* TicketLifecycle.                                                        *)
(*                                                                         *)
(* First, every state that the code computes follows the one it was        *)
(* computed from; then, action by action, what an invocation remembers     *)
(* stays true while others change the store; then that what it loaded is   *)
(* current; last, the theorems.                                            *)
(***************************************************************************)
EXTENDS OrchestratorProofs

-----------------------------------------------------------------------------
(* Every computed state follows the one it is computed from.               *)

LEMMA Fields ==
  ASSUME NEW s \in WorkflowStates
  PROVE  /\ s.revision \in Nat /\ s.stage \in Stages /\ s.owner \in Procs \cup {NoOne}
         /\ s.attempts \in Nat /\ s.active \in Nat /\ s.infra \in Nat /\ s.reviews \in Nat
BY DEF WorkflowStates

LEMMA TransitionFields ==
  ASSUME NEW s \in WorkflowStates, NEW stage, NEW category, NEW n,
         n = Transition(s, stage, category)
  PROVE  /\ n.revision = s.revision + 1 /\ n.stage = stage /\ n.owner = s.owner
         /\ n.attempts = s.attempts /\ n.active = s.active
         /\ n.infra = s.infra /\ n.reviews = s.reviews
BY DEF Transition, WorkflowStates

(* What is left to show of Follows once the fields are known.              *)
LEMMA FollowsFrom ==
  ASSUME NEW s \in WorkflowStates, NEW n,
         n.revision = s.revision + 1, n.owner = s.owner, n.stage # "READY",
         n.stage \in LegalTransitions[s.stage], WithinPolicy(n),
         Lifecycle!Successor(View(s), View(n))
  PROVE  Follows(s, n)
BY Fields DEF Follows, WellFormed

(* How TicketLifecycle sees a step that charges one budget.                *)
LEMMA ToView ==
  ASSUME NEW s, NEW stage
  PROVE  Lifecycle!To(View(s), stage) =
           [stage |-> stage, attempts |-> s.attempts, infra |-> s.infra, reviews |-> s.reviews]
BY DEF Lifecycle!To, View

LEMMA ChargedView ==
  ASSUME NEW s, NEW n
  PROVE  /\ n.infra = s.infra /\ n.reviews = s.reviews =>
              View(n) = [Lifecycle!To(View(s), n.stage) EXCEPT !.attempts = n.attempts]
         /\ n.attempts = s.attempts /\ n.reviews = s.reviews =>
              View(n) = [Lifecycle!To(View(s), n.stage) EXCEPT !.infra = n.infra]
         /\ n.attempts = s.attempts /\ n.infra = s.infra =>
              View(n) = [Lifecycle!To(View(s), n.stage) EXCEPT !.reviews = n.reviews]
<1> DEFINE w == Lifecycle!To(View(s), n.stage)
<1>1. w = [stage |-> n.stage, attempts |-> s.attempts, infra |-> s.infra, reviews |-> s.reviews]
  BY ToView
<1> HIDE DEF w
<1>2. /\ [w EXCEPT !.attempts = n.attempts] =
            [stage |-> n.stage, attempts |-> n.attempts, infra |-> s.infra, reviews |-> s.reviews]
      /\ [w EXCEPT !.infra = n.infra] =
            [stage |-> n.stage, attempts |-> s.attempts, infra |-> n.infra, reviews |-> s.reviews]
      /\ [w EXCEPT !.reviews = n.reviews] =
            [stage |-> n.stage, attempts |-> s.attempts, infra |-> s.infra, reviews |-> n.reviews]
  BY <1>1
<1> QED
  BY <1>2 DEF View, w

LEMMA ClaimFollows ==
  ASSUME NEW p \in Procs
  PROVE  /\ Follows(NoState, Claimed(p))
         /\ Claimed(p).owner = p /\ Claimed(p).stage = "CLAIMED"
<1> DEFINE c == Claimed(p)
<1>1. /\ c.revision = 1 /\ c.stage = "CLAIMED" /\ c.owner = p /\ c.attempts = 0
      /\ c.active = 0 /\ c.infra = 0 /\ c.reviews = 0
  BY DEF Claimed, Transition, NoState
<1>2. /\ NoState.revision = 0 /\ NoState.stage = "READY" /\ NoState.attempts = 0
      /\ NoState.infra = 0 /\ NoState.reviews = 0
  BY DEF NoState
<1> HIDE DEF c
<1>3. Lifecycle!Claim(View(NoState), View(c))
  BY <1>1, <1>2 DEF Lifecycle!Claim, Lifecycle!To, View
<1>4. WithinPolicy(c)
  BY <1>1, RetryPolicyAssumption DEF WithinPolicy
<1>5. c.stage \in LegalTransitions[NoState.stage]
  BY <1>1, <1>2 DEF LegalTransitions
<1>6. Follows(NoState, c)
  BY <1>1, <1>2, <1>3, <1>4, <1>5 DEF Follows, WellFormed, Lifecycle!Successor
<1> QED
  BY <1>1, <1>6 DEF c

LEMMA CompleteFollows ==
  ASSUME NEW s \in WorkflowStates, WithinPolicy(s),
         s.stage \notin {"READY", "BLOCKED", "COMPLETED"},
         NEW n, n = Transition(s, "COMPLETED", "NONE")
  PROVE  Follows(s, n)
<1>1. /\ n.revision = s.revision + 1 /\ n.stage = "COMPLETED" /\ n.owner = s.owner
      /\ n.attempts = s.attempts /\ n.active = s.active
      /\ n.infra = s.infra /\ n.reviews = s.reviews
  BY TransitionFields
<1>2. Lifecycle!Complete(View(s), View(n))
  BY <1>1 DEF Lifecycle!Complete, Lifecycle!To, View
<1>3. n.stage \in LegalTransitions[s.stage]
  BY <1>1, Fields DEF LegalTransitions, Stages
<1>4. WithinPolicy(n)
  BY <1>1, Fields, RetryPolicyAssumption DEF WithinPolicy
<1> QED
  BY <1>1, <1>2, <1>3, <1>4, FollowsFrom DEF Lifecycle!Successor

LEMMA RunningFollows ==
  ASSUME NEW s \in WorkflowStates, WithinPolicy(s), AttemptLeft(s),
         s.stage \in {"CLAIMED", "WORKER_FAILED", "CHANGES_REQUESTED"},
         NEW n, n = Running(s)
  PROVE  Follows(s, n) /\ n.stage = "WORKER_RUNNING"
<1>1. /\ n.revision = s.revision + 1 /\ n.stage = "WORKER_RUNNING" /\ n.owner = s.owner
      /\ n.attempts = s.attempts /\ n.infra = s.infra /\ n.reviews = s.reviews
      /\ n.active = s.attempts + 1
  BY DEF Running, Transition, WorkflowStates
<1>2. Lifecycle!StartWorker(View(s), View(n))
  BY <1>1, Fields, RetryPolicyAssumption
  DEF AttemptLeft, Lifecycle!StartWorker, Lifecycle!To, View
<1>3. n.stage \in LegalTransitions[s.stage]
  BY <1>1 DEF LegalTransitions
<1>4. WithinPolicy(n)
  BY <1>1, Fields, RetryPolicyAssumption DEF WithinPolicy, AttemptLeft
<1> QED
  BY <1>1, <1>2, <1>3, <1>4, FollowsFrom DEF Lifecycle!Successor

(* Blocking, after the attempts of a running worker were charged or not.   *)
LEMMA BlockFollows ==
  ASSUME NEW s \in WorkflowStates, WithinPolicy(s),
         s.stage \in {"CLAIMED", "WORKER_RUNNING", "WORKER_FAILED", "CHANGES_REQUESTED"},
         NEW a \in Nat, s.attempts <= a,
         a = s.attempts \/ s.stage = "WORKER_RUNNING",
         NEW category, NEW n, n = Block([s EXCEPT !.attempts = a], category)
  PROVE  Follows(s, n) /\ n.stage = "BLOCKED"
<1>1. /\ n.revision = s.revision + 1 /\ n.stage = "BLOCKED" /\ n.owner = s.owner
      /\ n.attempts = a /\ n.active = 0 /\ n.infra = s.infra /\ n.reviews = s.reviews
  BY DEF Block, Transition, WorkflowStates
<1>2. View(n) = [Lifecycle!To(View(s), "BLOCKED") EXCEPT !.attempts = n.attempts]
  BY <1>1, ChargedView
<1>3. a = s.attempts => View(n) = Lifecycle!To(View(s), "BLOCKED")
  BY <1>1, ToView DEF View
<1>4. Lifecycle!GiveUpWorking(View(s), View(n))
  BY <1>1, <1>2, <1>3, Fields DEF Lifecycle!GiveUpWorking, View
<1>5. n.stage \in LegalTransitions[s.stage]
  BY <1>1 DEF LegalTransitions
<1>6. WithinPolicy(n)
  BY <1>1, Fields, RetryPolicyAssumption DEF WithinPolicy
<1> QED
  BY <1>1, <1>4, <1>5, <1>6, FollowsFrom DEF Lifecycle!Successor

LEMMA WorkerFailureFollows ==
  ASSUME NEW s \in WorkflowStates, WithinPolicy(s), s.stage = "WORKER_RUNNING",
         NEW category \in FailureCategories, NEW consume \in BOOLEAN,
         category = "INFRASTRUCTURE" => ~consume,
         NEW reported \in Nat,
         NEW n, n = WorkerFailure(s, category, consume, reported)
  PROVE  Follows(s, n) /\ n.stage \in {"BLOCKED", "WORKER_FAILED"}
<1> DEFINE a == IF consume /\ reported > s.attempts THEN reported ELSE s.attempts
           i == IF category = "INFRASTRUCTURE" THEN s.infra + 1 ELSE s.infra
           exhausted == IF category = "INFRASTRUCTURE"
                          THEN i >= MaxInfrastructureRetries ELSE a >= MaxWorkerAttempts
           charged == [s EXCEPT !.attempts = a, !.infra = i, !.active = 0]
           stage == IF exhausted THEN "BLOCKED" ELSE "WORKER_FAILED"
<1>1. /\ a \in Nat /\ i \in Nat /\ s.attempts <= a
      /\ s.infra < MaxInfrastructureRetries /\ s.reviews < MaxReviewerRetries
      /\ i <= MaxInfrastructureRetries
      /\ s.attempts < MaxWorkerAttempts
  BY Fields, RetryPolicyAssumption DEF WithinPolicy
<1>2. n = Transition(charged, stage, category)
  BY Zenon DEF WorkerFailure
<1>3. /\ n.revision = s.revision + 1 /\ n.stage = stage /\ n.owner = s.owner
      /\ n.attempts = a /\ n.active = 0 /\ n.infra = i /\ n.reviews = s.reviews
  <2> HIDE DEF a, i, stage
  <2> QED
    BY <1>2 DEF Transition, WorkflowStates
<1>4. Lifecycle!WorkerFails(View(s), View(n)) \/ Lifecycle!GiveUpWorking(View(s), View(n))
  <2>1. CASE category = "INFRASTRUCTURE"
    <3>1. View(n) = [Lifecycle!To(View(s), stage) EXCEPT !.infra = s.infra + 1]
      BY <1>3, <2>1, ChargedView
    <3>2. stage = "WORKER_FAILED" => s.infra < MaxInfrastructureRetries - 1
      BY <1>1, <2>1, Fields, RetryPolicyAssumption
    <3> QED
      BY <1>1, <3>1, <3>2
      DEF Lifecycle!WorkerFails, Lifecycle!GiveUpWorking, Lifecycle!ChargesInfra,
          Lifecycle!To, View
  <2>2. CASE category # "INFRASTRUCTURE"
    <3>1. View(n) = [Lifecycle!To(View(s), stage) EXCEPT !.attempts = a]
      BY <1>3, <2>2, ChargedView
    <3>2. stage = "WORKER_FAILED" => a \in s.attempts..(MaxWorkerAttempts - 1)
      BY <1>1, <2>2, Fields, RetryPolicyAssumption
    <3>3. stage \in {"BLOCKED", "WORKER_FAILED"}
      OBVIOUS
    <3>4. n.attempts >= s.attempts
      BY <1>1, <1>3, Fields
    <3> HIDE DEF a, stage
    <3> QED
      BY <1>3, <3>1, <3>2, <3>3, <3>4
      DEF Lifecycle!WorkerFails, Lifecycle!GiveUpWorking, Lifecycle!ChargesAttempts, View
  <2> QED
    BY <2>1, <2>2
<1>5. n.stage \in LegalTransitions[s.stage]
  BY <1>3 DEF LegalTransitions
<1>6. WithinPolicy(n)
  BY <1>1, <1>3, Fields, RetryPolicyAssumption DEF WithinPolicy
<1>7. stage \in {"BLOCKED", "WORKER_FAILED"}
  OBVIOUS
<1> HIDE DEF stage
<1> QED
  BY <1>3, <1>4, <1>5, <1>6, <1>7, FollowsFrom DEF Lifecycle!Successor

LEMMA HandleWorkerResultFollows ==
  ASSUME NEW s \in WorkflowStates, WithinPolicy(s), s.stage = "WORKER_RUNNING",
         NEW r \in AttemptResults, r.attempt = s.active,
         NEW n, n = HandleWorkerResult(s, r)
  PROVE  Follows(s, n) /\ n.stage \in {"BLOCKED", "WORKER_FAILED", "REVIEW_PENDING"}
<1>1. /\ r.attempt = s.attempts + 1 /\ r.attempt \in Nat
      /\ s.attempts < MaxWorkerAttempts /\ r.attempt <= MaxWorkerAttempts
  BY Fields, RetryPolicyAssumption DEF WithinPolicy
<1>2. CASE r.status = "REVIEW_READY"
  <2>1. n = Transition([s EXCEPT !.attempts = r.attempt, !.active = 0, !.commit = r.commit],
                       "REVIEW_PENDING", "NONE")
    BY <1>2, Zenon DEF HandleWorkerResult
  <2>2. /\ n.revision = s.revision + 1 /\ n.stage = "REVIEW_PENDING" /\ n.owner = s.owner
        /\ n.attempts = r.attempt /\ n.active = 0
        /\ n.infra = s.infra /\ n.reviews = s.reviews
    BY <2>1 DEF Transition, WorkflowStates
  <2>3. View(n) = [Lifecycle!To(View(s), "REVIEW_PENDING") EXCEPT !.attempts = s.attempts + 1]
    BY <1>1, <2>2, ChargedView
  <2>4. Lifecycle!WorkerDelivers(View(s), View(n))
    BY <1>1, <2>3 DEF Lifecycle!WorkerDelivers, Lifecycle!To, View
  <2>5. n.stage \in LegalTransitions[s.stage]
    BY <2>2 DEF LegalTransitions
  <2>6. WithinPolicy(n)
    BY <1>1, <2>2, Fields, RetryPolicyAssumption DEF WithinPolicy
  <2> QED
    BY <2>2, <2>4, <2>5, <2>6, FollowsFrom DEF Lifecycle!Successor
<1>3. CASE r.status = "BLOCKED"
  <2>1. n = Block([s EXCEPT !.attempts = r.attempt], "IMPLEMENTATION")
    BY <1>3, Zenon DEF HandleWorkerResult
  <2> QED
    BY <1>1, <2>1, Fields, BlockFollows
<1>4. CASE r.status \notin {"REVIEW_READY", "BLOCKED"}
  <2>1. \/ n = WorkerFailure(s, "IMPLEMENTATION", TRUE, r.attempt)
        \/ n = WorkerFailure(s, "VALIDATION", TRUE, r.attempt)
        \/ n = WorkerFailure(s, "INFRASTRUCTURE", FALSE, r.attempt)
    BY <1>4, Zenon DEF HandleWorkerResult
  <2> QED
    BY <1>1, <2>1, WorkerFailureFollows DEF FailureCategories
<1> QED
  BY <1>2, <1>3, <1>4

(* A review that fails while it runs may be charged to nothing, when the   *)
(* dispatcher raises a worker's category.                                  *)
LEMMA ReviewFailureFollows ==
  ASSUME NEW s \in WorkflowStates, WithinPolicy(s),
         s.stage \in {"REVIEW_PENDING", "REVIEW_RUNNING"},
         NEW category \in FailureCategories,
         s.stage = "REVIEW_PENDING" => category \in {"INFRASTRUCTURE", "REVIEWER_EXECUTION"},
         NEW n, n = ReviewFailure(s, category)
  PROVE  Follows(s, n) /\ n.stage \in {"BLOCKED", "REVIEW_PENDING"}
<1> DEFINE i == IF category = "INFRASTRUCTURE" THEN s.infra + 1 ELSE s.infra
           v == IF category = "REVIEWER_EXECUTION" THEN s.reviews + 1 ELSE s.reviews
           exhausted == IF category = "INFRASTRUCTURE"
                          THEN i >= MaxInfrastructureRetries ELSE v >= MaxReviewerRetries
           charged == [s EXCEPT !.infra = i, !.reviews = v]
           stage == IF exhausted THEN "BLOCKED" ELSE "REVIEW_PENDING"
<1>1. /\ i \in Nat /\ v \in Nat
      /\ s.infra < MaxInfrastructureRetries /\ s.reviews < MaxReviewerRetries
      /\ i <= MaxInfrastructureRetries /\ v <= MaxReviewerRetries
  BY Fields, RetryPolicyAssumption DEF WithinPolicy
<1>2. /\ exhausted => n = Block(charged, category)
      /\ ~exhausted => n = Transition(charged, "REVIEW_PENDING", category)
  BY Zenon DEF ReviewFailure
<1>3. /\ n.revision = s.revision + 1 /\ n.stage = stage /\ n.owner = s.owner
      /\ n.attempts = s.attempts /\ n.active \in {0, s.active}
      /\ n.infra = i /\ n.reviews = v
  <2> HIDE DEF i, v, exhausted
  <2>1. CASE exhausted
    BY <1>2, <2>1 DEF Block, Transition, WorkflowStates
  <2>2. CASE ~exhausted
    BY <1>2, <2>2 DEF Transition, WorkflowStates
  <2> QED
    BY <2>1, <2>2
<1>4. Lifecycle!ReviewFails(View(s), View(n)) \/ Lifecycle!GiveUpReviewing(View(s), View(n))
  <2>1. CASE category = "INFRASTRUCTURE"
    <3>1. View(n) = [Lifecycle!To(View(s), stage) EXCEPT !.infra = s.infra + 1]
      BY <1>3, <2>1, ChargedView
    <3>2. stage = "REVIEW_PENDING" => s.infra < MaxInfrastructureRetries - 1
      BY <1>1, <2>1, Fields, RetryPolicyAssumption
    <3> QED
      BY <1>1, <3>1, <3>2
      DEF Lifecycle!ReviewFails, Lifecycle!GiveUpReviewing, Lifecycle!ChargesInfra,
          Lifecycle!To, View
  <2>2. CASE category = "REVIEWER_EXECUTION"
    <3>1. View(n) = [Lifecycle!To(View(s), stage) EXCEPT !.reviews = s.reviews + 1]
      BY <1>3, <2>2, ChargedView
    <3>2. stage = "REVIEW_PENDING" => s.reviews < MaxReviewerRetries - 1
      BY <1>1, <2>2, Fields, RetryPolicyAssumption
    <3> QED
      BY <1>1, <3>1, <3>2
      DEF Lifecycle!ReviewFails, Lifecycle!GiveUpReviewing, Lifecycle!ChargesReviews,
          Lifecycle!To, View
  <2>3. CASE category \notin {"INFRASTRUCTURE", "REVIEWER_EXECUTION"}
    <3>1. s.stage = "REVIEW_RUNNING" /\ n.stage = "REVIEW_PENDING"
      BY <1>1, <1>3, <2>3, Fields, RetryPolicyAssumption
    <3>2. View(n) = Lifecycle!To(View(s), "REVIEW_PENDING")
      BY <1>3, <2>3, <3>1, ToView DEF View
    <3> QED
      BY <3>1, <3>2 DEF Lifecycle!ReviewFails, View
  <2> QED
    BY <2>1, <2>2, <2>3
<1>5. stage \in {"BLOCKED", "REVIEW_PENDING"}
  OBVIOUS
<1>6. n.stage \in LegalTransitions[s.stage]
  BY <1>3 DEF LegalTransitions
<1>7. WithinPolicy(n)
  BY <1>1, <1>3, Fields, RetryPolicyAssumption DEF WithinPolicy
<1> HIDE DEF stage
<1> QED
  BY <1>3, <1>4, <1>5, <1>6, <1>7, FollowsFrom DEF Lifecycle!Successor

(* Steps that only move the stage: a review starts or is decided.          *)
LEMMA ReviewStepFollows ==
  ASSUME NEW s \in WorkflowStates, WithinPolicy(s), NEW stage,
         \/ s.stage = "REVIEW_PENDING" /\ stage = "REVIEW_RUNNING"
         \/ /\ s.stage = "REVIEW_RUNNING"
            /\ stage \in {"CHANGES_REQUESTED", "APPROVED_AWAITING_MERGE"},
         NEW n, n = Transition(s, stage, "NONE")
  PROVE  Follows(s, n) /\ n.stage = stage
<1>1. /\ n.revision = s.revision + 1 /\ n.stage = stage /\ n.owner = s.owner
      /\ n.attempts = s.attempts /\ n.active = s.active
      /\ n.infra = s.infra /\ n.reviews = s.reviews
  BY TransitionFields
<1>2. View(n) = Lifecycle!To(View(s), stage)
  BY <1>1, ToView DEF View
<1>3. Lifecycle!StartReview(View(s), View(n)) \/ Lifecycle!Decide(View(s), View(n))
  BY <1>2 DEF Lifecycle!StartReview, Lifecycle!Decide, View
<1>4. n.stage \in LegalTransitions[s.stage]
  BY <1>1 DEF LegalTransitions
<1>5. WithinPolicy(n)
  BY <1>1, Fields, RetryPolicyAssumption DEF WithinPolicy
<1> QED
  BY <1>1, <1>3, <1>4, <1>5, FollowsFrom DEF Lifecycle!Successor

LEMMA HandleReviewResultFollows ==
  ASSUME NEW s \in WorkflowStates, WithinPolicy(s), s.stage = "REVIEW_RUNNING",
         NEW r, NEW n, n = HandleReviewResult(s, r)
  PROVE  Follows(s, n) /\ n.stage # "COMPLETED"
<1>1. \/ n = ReviewFailure(s, "REVIEWER_EXECUTION")
      \/ n = Transition(s, "APPROVED_AWAITING_MERGE", "NONE")
      \/ n = Transition(s, "CHANGES_REQUESTED", "NONE")
  BY Zenon DEF HandleReviewResult
<1> QED
  BY <1>1, ReviewFailureFollows, ReviewStepFollows DEF FailureCategories

LEMMA ReviewerContextCategory ==
  ASSUME NEW ev, ReviewerContext(ev) # "READY"
  PROVE  ReviewerContext(ev) \in {"INFRASTRUCTURE", "REVIEWER_EXECUTION"}
BY DEF ReviewerContext

-----------------------------------------------------------------------------
(* What one step does to the invariant.                                    *)

(* What happened outside, what was endorsed, a claim and that a ticket has *)
(* a state are never taken back.                                           *)
Grows ==
  \A t \in Tickets :
    /\ merged[t] => merged'[t]
    /\ endorsed[t] \subseteq endorsed'[t]
    /\ claims[t] # NoOne => claims'[t] = claims[t]
    /\ states[t].revision > 0 => states'[t].revision > 0

(* Whatever one invocation does, what the others remember stays true.      *)
LEMMA OthersRemember ==
  ASSUME RunsOK, MemoryInv, Grows, NEW q \in Procs, run'[q] = run[q]
  PROVE  Remembers(run[q])'
<1>1. HasTicket(q) => run[q].ticket \in Tickets
  BY DEF RunsOK
<1>2. Remembers(run[q])
  BY DEF MemoryInv
<1> USE DEF Computing, Holding, Saved
<1>3. StageFits(run[q])'
  BY <1>1, <1>2 DEF Remembers, StageFits, TrueRecord, Endorsed, Owned, HasTicket, Grows
<1>4. NextFollows(run[q])'
  BY <1>1, <1>2 DEF Remembers, NextFollows, Justified, Owned, HasTicket, Grows
<1> QED
  BY <1>3, <1>4 DEF Remembers

LEMMA OneRemembers ==
  ASSUME RunsOK, MemoryInv, Grows,
         NEW p \in Procs, NEW r, run' = [run EXCEPT ![p] = r], Remembers(run[p])'
  PROVE  MemoryInv'
<1> SUFFICES ASSUME NEW q \in Procs PROVE Remembers(run[q])'
  BY DEF MemoryInv
<1>1. CASE q = p
  BY <1>1
<1>2. CASE q # p
  BY <1>2, run'[q] = run[q], OthersRemember DEF RunsOK
<1> QED
  BY <1>1, <1>2

LEMMA AllRemember ==
  ASSUME RunsOK, MemoryInv, Grows, UNCHANGED run
  PROVE  MemoryInv'
BY OthersRemember DEF MemoryInv

LEMMA IdleRemembers ==
  ASSUME RunsOK, MemoryInv, Grows, NEW p \in Procs, run' = [run EXCEPT ![p] = Idle]
  PROVE  MemoryInv'
<1>1. run'[p] = Idle /\ Idle.pc = "idle"
  BY DEF RunsOK, Idle
<1>2. Remembers(run[p])'
  BY <1>1 DEF Remembers, StageFits, NextFollows, Computing, Holding, Saved
<1> QED
  BY <1>2, OneRemembers

(* A computed successor is held, to be saved now or after a result.        *)
LEMMA Computes ==
  ASSUME RunsOK, MemoryInv, Grows, UNCHANGED <<states, claims>>,
         NEW p \in Procs, Computing(run[p]),
         NEW r, run' = [run EXCEPT ![p] = r], r.pc \in {"save", "save_result", "save_review"},
         r.base = run[p].base, r.ticket = run[p].ticket,
         Follows(run[p].base, r.next),
         r.next.stage = "COMPLETED" => merged[r.ticket],
         r.next.stage = "APPROVED_AWAITING_MERGE" => r.next.commit \in endorsed'[r.ticket],
         r.pc = "save_review" /\ r.review.valid /\ r.review.decision = "APPROVE"
           => r.review.commit \in endorsed'[r.ticket]
  PROVE  MemoryInv'
<1>1. run'[p] = r /\ r.ticket \in Tickets
  BY DEF RunsOK, HasTicket, Computing
<1>2. /\ r.base.revision > 0 /\ r.base.revision \in Nat /\ Owned(r.base, r.ticket)
      /\ states[r.ticket].revision > 0
  BY DEF RunsOK, Runs, WorkflowStates, MemoryInv, Remembers, NextFollows, StageFits
<1>3. /\ WithinPolicy(r.next) /\ WellFormed(r.next) /\ r.next.revision > 0
      /\ Owned(r.next, r.ticket)
  BY <1>2 DEF Follows, Owned
<1>4. StageFits(run[p])'
  BY <1>1, <1>2 DEF StageFits, Endorsed, Computing
<1>5. Justified(run[p].next, run[p].ticket)'
  BY <1>1, Zenon DEF Justified, Grows
<1>6. Owned(run[p].next, run[p].ticket)' /\ states'[r.ticket].revision > 0
  BY <1>1, <1>2, <1>3 DEF Owned
<1>7. NextFollows(run[p])'
  BY <1>1, <1>2, <1>3, <1>5, <1>6 DEF NextFollows, Holding, Computing, Saved
<1> QED
  BY <1>4, <1>7, OneRemembers DEF Remembers

LEMMA ComputesToSave ==
  ASSUME RunsOK, MemoryInv, Grows, UNCHANGED <<states, claims>>,
         NEW p \in Procs, Computing(run[p]), NEW n, ToSave(p, n),
         Follows(run[p].base, n),
         n.stage = "COMPLETED" => merged[run[p].ticket],
         n.stage = "APPROVED_AWAITING_MERGE" => n.commit \in endorsed[run[p].ticket]
  PROVE  MemoryInv'
<1> DEFINE r == [run[p] EXCEPT !.pc = "save", !.next = n]
<1>1. run' = [run EXCEPT ![p] = r]
  BY Zenon DEF ToSave
<1>2. /\ r.pc = "save" /\ r.base = run[p].base /\ r.ticket = run[p].ticket /\ r.next = n
  BY DEF RunsOK, Runs
<1>3. run[p].ticket \in Tickets
  BY DEF RunsOK, HasTicket, Computing
<1> HIDE DEF r
<1> QED
  BY <1>1, <1>2, <1>3, Computes DEF Grows

LEMMA StoreKept ==
  ASSUME StoreInv, Grows, UNCHANGED <<claims, states, tickets>>
  PROVE  StoreInv'
BY DEF StoreInv, Grows, Justified, Owned

LEMMA EvidenceKept ==
  ASSUME EvidenceInv, Grows, UNCHANGED evidence
  PROVE  EvidenceInv'
BY DEF EvidenceInv, TrueRecord, Grows, Endorsed

(* What is known about an invocation that computes.                        *)
LEMMA ComputingFacts ==
  ASSUME RunsOK, MemoryInv, NEW p \in Procs, Computing(run[p])
  PROVE  LET s == run[p].base IN
         /\ HasTicket(p) /\ run[p].ticket \in Tickets
         /\ s \in WorkflowStates /\ WithinPolicy(s)
         /\ s.revision > 0 /\ s.stage \in Stages \ {"READY"}
         /\ run[p].pc = "reconcile" => s.stage \notin TerminalStages
         /\ run[p].pc = "dispatch" =>
              s.stage \in {"CLAIMED", "WORKER_FAILED", "CHANGES_REQUESTED", "REVIEW_PENDING"}
         /\ run[p].pc = "worker" => s.stage = "WORKER_RUNNING"
         /\ run[p].pc = "reviewer" => s.stage = "REVIEW_RUNNING"
<1> DEFINE s == run[p].base
<1>1. HasTicket(p) /\ run[p].ticket \in Tickets /\ s \in WorkflowStates
  BY DEF RunsOK, Runs, HasTicket, Computing
<1>2. StageFits(run[p])
  BY DEF MemoryInv, Remembers
<1>3. s.revision \in Nat /\ s.stage \in Stages
  BY <1>1, Fields
<1>4. s.revision > 0 /\ s.stage # "READY"
  BY <1>2, <1>3 DEF StageFits, WellFormed
<1> QED
  BY <1>1, <1>2, <1>3, <1>4 DEF StageFits

(* A running worker works on an attempt that the policy allows.            *)
LEMMA RunningAttempt ==
  ASSUME NEW s \in WorkflowStates, WithinPolicy(s), s.stage = "WORKER_RUNNING"
  PROVE  /\ s.active \in Nat /\ s.active <= MaxWorkerAttempts /\ s.active # 0
         /\ ExpectedAttempt(s) = s.active
BY Fields, RetryPolicyAssumption DEF WithinPolicy, ExpectedAttempt

LEMMA ApprovalCommit ==
  ASSUME NEW s \in WorkflowStates, WithinPolicy(s), s.stage = "REVIEW_RUNNING",
         NEW r, NEW n, n = HandleReviewResult(s, r), n.stage = "APPROVED_AWAITING_MERGE"
  PROVE  r.decision = "APPROVE" /\ n.commit = r.commit
<1>1. n # ReviewFailure(s, "REVIEWER_EXECUTION")
  BY ReviewFailureFollows DEF FailureCategories
<1>2. n # Transition(s, "CHANGES_REQUESTED", "NONE")
  BY TransitionFields
<1>3. /\ r.decision = "APPROVE" /\ r.commit = s.commit
      /\ n = Transition(s, "APPROVED_AWAITING_MERGE", "NONE")
  BY <1>1, <1>2, Zenon DEF HandleReviewResult
<1>4. n.commit = s.commit
  BY <1>3 DEF Transition, WorkflowStates
<1> QED
  BY <1>3, <1>4

-----------------------------------------------------------------------------
(* Each action keeps what invocations remember.                            *)

LEMMA RunOnceRemembers ==
  ASSUME RunsOK, StoreInv, MemoryInv, NEW p \in Procs, RunOnce(p), Grows,
         states \in [Tickets -> WorkflowStates]
  PROVE  MemoryInv'
<1>1. UNCHANGED <<states, claims>>
  BY DEF RunOnce, store
<1>2. CASE run' = [run EXCEPT ![p] = [Idle EXCEPT !.pc = "select"]]
  <2> DEFINE r == [Idle EXCEPT !.pc = "select"]
  <2>1. r.pc = "select" /\ r.base = NoState
    BY DEF Idle
  <2> HIDE DEF r
  <2>2. run'[p] = r
    BY <1>2 DEF RunsOK, r
  <2>3. Remembers(run[p])'
    BY <2>1, <2>2
    DEF Remembers, StageFits, NextFollows, Computing, Holding, Saved
  <2> QED
    BY <1>2, <2>3, OneRemembers DEF r
<1>3. ASSUME NEW u \in Active,
             run' = [run EXCEPT ![p] = [Idle EXCEPT !.pc = "reconcile", !.ticket = u,
                                                    !.base = states[u]]]
      PROVE  MemoryInv'
  <2> DEFINE r == [Idle EXCEPT !.pc = "reconcile", !.ticket = u, !.base = states[u]]
  <2>1. r.pc = "reconcile" /\ r.base = states[u] /\ r.ticket = u
    BY DEF Idle
  <2> HIDE DEF r
  <2>2. run'[p] = r
    BY <1>3 DEF RunsOK, r
  <2>3. /\ u \in Tickets /\ states[u].revision \in Nat /\ states[u].revision > 0
        /\ states[u].stage \notin TerminalStages
        /\ WithinPolicy(states[u]) /\ WellFormed(states[u]) /\ Owned(states[u], u)
    BY Fields DEF Active, StoreInv
  <2>4. StageFits(run[p])'
    BY <1>1, <2>1, <2>2, <2>3 DEF StageFits, Computing, WithinPolicy, WellFormed, Owned
  <2>5. NextFollows(run[p])'
    BY <1>1, <2>1, <2>2, <2>3 DEF NextFollows, Computing, Holding, Saved
  <2> QED
    BY <1>3, <2>4, <2>5, OneRemembers DEF Remembers, r
<1> QED
  BY <1>2, <1>3 DEF RunOnce

LEMMA SelectTicketRemembers ==
  ASSUME RunsOK, MemoryInv, NEW p \in Procs, SelectTicket(p), Grows
  PROVE  MemoryInv'
<1>1. ASSUME NEW u \in Tickets, run' = [run EXCEPT ![p].pc = "acquire", ![p].ticket = u]
      PROVE  MemoryInv'
  <2> DEFINE r == [run[p] EXCEPT !.pc = "acquire", !.ticket = u]
  <2>1. run' = [run EXCEPT ![p] = r]
    BY <1>1, Zenon
  <2>2. run[p].base = NoState
    BY DEF MemoryInv, Remembers, StageFits, SelectTicket
  <2>3. r.pc = "acquire" /\ r.base = NoState
    BY <2>2 DEF RunsOK, Runs
  <2> HIDE DEF r
  <2>4. run'[p] = r
    BY <2>1 DEF RunsOK
  <2>5. Remembers(run[p])'
    BY <2>3, <2>4
    DEF Remembers, StageFits, NextFollows, Computing, Holding, Saved
  <2> QED
    BY <2>1, <2>5, OneRemembers
<1> QED
  BY <1>1, IdleRemembers DEF SelectTicket

(* The claim file is created: nobody else holds a first state for it.      *)
LEMMA AcquireClaimRemembers ==
  ASSUME RunsOK, StoreInv, MemoryInv, NEW p \in Procs, AcquireClaim(p), Grows,
         claims \in [Tickets -> Procs \cup {NoOne}], states \in [Tickets -> WorkflowStates]
  PROVE  MemoryInv' /\ StoreInv'
<1> DEFINE t == run[p].ticket
<1>1. t \in Tickets /\ run[p].base = NoState
  BY DEF RunsOK, HasTicket, MemoryInv, Remembers, StageFits, AcquireClaim
<1>2. UNCHANGED <<states, tickets>>
  BY DEF AcquireClaim
<1>3. CASE UNCHANGED claims /\ run' = [run EXCEPT ![p] = Idle]
  BY <1>2, <1>3, IdleRemembers, StoreKept
<1>4. CASE /\ claims[t] = NoOne
           /\ claims' = [claims EXCEPT ![t] = p]
           /\ run' = [run EXCEPT ![p].pc = "save", ![p].next = Claimed(p)]
  <2>1. states[t].revision = 0 /\ states[t] = NoState
    BY <1>1, <1>4, Fields DEF StoreInv, Owned
  <2>2. StoreInv'
    BY <1>2, <1>4, <2>1, Fields DEF StoreInv, Grows, Justified, Owned
  <2>3. MemoryInv'
    <3> DEFINE r == [run[p] EXCEPT !.pc = "save", !.next = Claimed(p)]
    <3>1. run' = [run EXCEPT ![p] = r]
      BY <1>4, Zenon
    <3>2. r.pc = "save" /\ r.base = NoState /\ r.next = Claimed(p) /\ r.ticket = t
      BY <1>1 DEF RunsOK, Runs
    <3> HIDE DEF r
    <3>3. run'[p] = r
      BY <3>1 DEF RunsOK
    <3>4. Follows(NoState, Claimed(p)) /\ Claimed(p).owner = p /\ Claimed(p).stage = "CLAIMED"
      BY ClaimFollows
    <3>5. WithinPolicy(Claimed(p)) /\ WellFormed(Claimed(p)) /\ Claimed(p).revision > 0
      BY <3>4, NoState.revision = 0 DEF Follows, NoState
    <3>6. claims'[t] = p /\ p # NoOne
      BY <1>1, <1>4, NullsAssumption
    <3>7. StageFits(run[p])'
      BY <3>2, <3>3 DEF StageFits, Computing
    <3>8. NextFollows(run[p])'
      BY <3>2, <3>3, <3>4, <3>5, <3>6, NoState.revision = 0
      DEF NextFollows, Justified, Holding, Computing, Saved, Owned, NoState
    <3> QED
      BY <3>1, <3>7, <3>8, OneRemembers DEF Remembers
  <2> QED
    BY <2>2, <2>3
<1> QED
  BY <1>3, <1>4 DEF AcquireClaim

(* Everything that computes a successor without writing to the store.      *)
LEMMA ReconcileRemembers ==
  ASSUME TypeInv, RunsOK, StoreInv, EvidenceInv, MemoryInv, Grows, NEW p \in Procs,
         ReconcileCompletion(p) \/ ReconcileWorker(p) \/ ReconcileReviewer(p)
  PROVE  MemoryInv'
<1> DEFINE t == run[p].ticket
           s == run[p].base
           ev == evidence[t]
<1>1. UNCHANGED <<states, claims>>
  BY DEF ReconcileCompletion, ReconcileWorker, ReconcileReviewer, store
<1>2. Computing(run[p]) /\ run[p].pc = "reconcile"
  BY DEF ReconcileCompletion, ReconcileWorker, ReconcileReviewer, Computing
<1>3. /\ t \in Tickets /\ s \in WorkflowStates /\ WithinPolicy(s)
      /\ s.stage \notin {"READY", "BLOCKED", "COMPLETED"}
  BY <1>2, ComputingFacts DEF TerminalStages
<1>4. ev.worker \in AttemptResults /\ ev.worker.attempt \in Nat /\ Endorsed(ev.review, t)
  BY <1>3 DEF TypeInv, TypeOK, Evidences, AttemptResults, EvidenceInv, TrueRecord
<1>5. CASE ReconcileCompletion(p)
  <2> DEFINE n == Transition(s, "COMPLETED", "NONE")
  <2>1. Follows(s, n) /\ n.stage = "COMPLETED"
    BY <1>3, CompleteFollows, TransitionFields
  <2>2. merged[t]
    BY <1>3, <1>5 DEF ReconcileCompletion, Completed, StoreInv, EvidenceInv, TrueRecord
  <2>3. ToSave(p, n)
    BY <1>5 DEF ReconcileCompletion
  <2> HIDE DEF n
  <2> QED
    BY <1>1, <1>2, <2>1, <2>2, <2>3, ComputesToSave
<1>6. CASE ReconcileWorker(p)
  <2>1. s.stage = "WORKER_RUNNING" /\ ExpectedAttempt(s) = s.active
    BY <1>3, <1>6, RunningAttempt DEF ReconcileWorker
  <2>2. ASSUME NEW n, ToSave(p, n), Follows(s, n),
               n.stage \notin {"COMPLETED", "APPROVED_AWAITING_MERGE"}
        PROVE  MemoryInv'
    BY <1>1, <1>2, <2>2, ComputesToSave
  <2>3. CASE ev.worker.attempt = ExpectedAttempt(s) /\ ToSave(p, HandleWorkerResult(s, ev.worker))
    BY <1>3, <1>4, <2>1, <2>2, <2>3, HandleWorkerResultFollows
  <2>4. CASE ToSave(p, WorkerFailure(s, "VALIDATION", TRUE, ev.worker.attempt))
    BY <1>3, <1>4, <2>1, <2>2, <2>4, WorkerFailureFollows DEF FailureCategories
  <2>5. CASE ToSave(p, WorkerFailure(s, "INFRASTRUCTURE", FALSE, 0))
    <3> DEFINE n == WorkerFailure(s, "INFRASTRUCTURE", FALSE, 0)
    <3>1. Follows(s, n) /\ n.stage \in {"BLOCKED", "WORKER_FAILED"}
      BY <1>3, <2>1, 0 \in Nat, WorkerFailureFollows DEF FailureCategories
    <3> QED
      BY <2>2, <2>5, <3>1
  <2> QED
    BY <1>6, <2>3, <2>4, <2>5, Zenon DEF ReconcileWorker
<1>7. CASE ReconcileReviewer(p)
  <2>1. s.stage = "REVIEW_RUNNING"
    BY <1>7 DEF ReconcileReviewer
  <2>2. ASSUME NEW category \in {"INFRASTRUCTURE", "REVIEWER_EXECUTION"},
               ToSave(p, ReviewFailure(s, category))
        PROVE  MemoryInv'
    <3>1. /\ Follows(s, ReviewFailure(s, category))
          /\ ReviewFailure(s, category).stage \in {"BLOCKED", "REVIEW_PENDING"}
      BY <1>3, <2>1, ReviewFailureFollows DEF FailureCategories
    <3> QED
      BY <1>1, <1>2, <2>2, <3>1, ComputesToSave
  <2>3. CASE ReviewerContext(ev) # "READY" /\ ToSave(p, ReviewFailure(s, ReviewerContext(ev)))
    BY <2>2, <2>3, ReviewerContextCategory
  <2>4. CASE ToSave(p, ReviewFailure(s, "REVIEWER_EXECUTION"))
    BY <2>2, <2>4
  <2>5. CASE ToSave(p, ReviewFailure(s, "INFRASTRUCTURE"))
    BY <2>2, <2>5
  <2>6. CASE ValidForPosting(ev.package, ev.review) /\ ToSave(p, HandleReviewResult(s, ev.review))
    <3> DEFINE n == HandleReviewResult(s, ev.review)
    <3>1. Follows(s, n) /\ n.stage # "COMPLETED"
      BY <1>3, <2>1, HandleReviewResultFollows
    <3>2. n.stage = "APPROVED_AWAITING_MERGE" => n.commit \in endorsed[t]
      BY <1>3, <1>4, <2>1, <2>6, ApprovalCommit DEF ValidForPosting, Endorsed
    <3>3. ToSave(p, n)
      BY <2>6
    <3> HIDE DEF n
    <3> QED
      BY <1>1, <1>2, <3>1, <3>2, <3>3, ComputesToSave
  <2> QED
    BY <1>7, <2>3, <2>4, <2>5, <2>6, Zenon DEF ReconcileReviewer
<1> QED
  BY <1>5, <1>6, <1>7

LEMMA ReconcileNothingRemembers ==
  ASSUME RunsOK, MemoryInv, Grows, NEW p \in Procs, ReconcileNothing(p)
  PROVE  MemoryInv'
<1>1. UNCHANGED <<states, claims>>
  BY DEF ReconcileNothing, store
<1>2. CASE run' = [run EXCEPT ![p] = Idle]
  BY <1>1, <1>2, IdleRemembers
<1>3. CASE /\ run[p].base.stage \in
                {"CLAIMED", "WORKER_FAILED", "CHANGES_REQUESTED", "REVIEW_PENDING"}
           /\ run' = [run EXCEPT ![p].pc = "dispatch"]
  <2> DEFINE r == [run[p] EXCEPT !.pc = "dispatch"]
  <2>1. run' = [run EXCEPT ![p] = r]
    BY <1>3, Zenon
  <2>2. r.pc = "dispatch" /\ r.base = run[p].base /\ r.ticket = run[p].ticket
    BY DEF RunsOK, Runs
  <2> HIDE DEF r
  <2>3. run'[p] = r
    BY <2>1 DEF RunsOK
  <2>4. Remembers(run[p]) /\ run[p].pc = "reconcile"
    BY DEF MemoryInv, ReconcileNothing
  <2>5. StageFits(run[p])'
    BY <1>1, <1>3, <2>2, <2>3, <2>4 DEF Remembers, StageFits, Computing, Owned
  <2>6. NextFollows(run[p])'
    BY <1>1, <2>2, <2>3, <2>4 DEF Remembers, NextFollows, Computing, Holding, Saved
  <2> QED
    BY <2>1, <2>5, <2>6, OneRemembers DEF Remembers
<1> QED
  BY <1>2, <1>3, Zenon DEF ReconcileNothing

LEMMA DispatchRemembers ==
  ASSUME TypeInv, RunsOK, MemoryInv, Grows, NEW p \in Procs,
         DispatchWorker(p) \/ DispatchReviewer(p)
  PROVE  MemoryInv'
<1> DEFINE s == run[p].base
           ev == evidence[run[p].ticket]
<1>1. UNCHANGED <<states, claims>>
  BY DEF DispatchWorker, DispatchReviewer, store
<1>2. Computing(run[p]) /\ run[p].pc = "dispatch"
  BY DEF DispatchWorker, DispatchReviewer, Computing
<1>3. /\ s \in WorkflowStates /\ WithinPolicy(s)
      /\ s.stage \in {"CLAIMED", "WORKER_FAILED", "CHANGES_REQUESTED", "REVIEW_PENDING"}
  BY <1>2, ComputingFacts
<1>4. ASSUME NEW n, ToSave(p, n), Follows(s, n),
             n.stage \notin {"COMPLETED", "APPROVED_AWAITING_MERGE"}
      PROVE  MemoryInv'
  BY <1>1, <1>2, <1>4, ComputesToSave
<1>5. CASE DispatchWorker(p)
  <2>1. s.stage \in {"CLAIMED", "WORKER_FAILED", "CHANGES_REQUESTED"}
    BY <1>3, <1>5 DEF DispatchWorker
  <2>2. ASSUME NEW category, ToSave(p, Block(s, category)) PROVE MemoryInv'
    <3>1. s = [s EXCEPT !.attempts = s.attempts]
      BY <1>3, Zenon DEF WorkflowStates
    <3>2. s.attempts \in Nat /\ s.attempts <= s.attempts
      BY <1>3, Fields
    <3>3. Block(s, category) = Block([s EXCEPT !.attempts = s.attempts], category)
      BY <3>1
    <3>4. Follows(s, Block(s, category)) /\ Block(s, category).stage = "BLOCKED"
      BY <1>3, <2>1, <3>2, <3>3, BlockFollows
    <3> QED
      BY <1>4, <2>2, <3>4
  <2>3. CASE AttemptLeft(s) /\ ToSave(p, Running(s))
    BY <1>3, <1>4, <2>1, <2>3, RunningFollows
  <2> QED
    BY <1>5, <2>2, <2>3, Zenon DEF DispatchWorker
<1>6. CASE DispatchReviewer(p)
  <2>1. s.stage = "REVIEW_PENDING"
    BY <1>6 DEF DispatchReviewer
  <2>2. CASE ReviewerContext(ev) # "READY" /\ ToSave(p, ReviewFailure(s, ReviewerContext(ev)))
    <3> DEFINE category == ReviewerContext(ev)
    <3>1. category \in {"INFRASTRUCTURE", "REVIEWER_EXECUTION"}
      BY <2>2, ReviewerContextCategory
    <3> HIDE DEF category
    <3>2. /\ Follows(s, ReviewFailure(s, category))
          /\ ReviewFailure(s, category).stage \in {"BLOCKED", "REVIEW_PENDING"}
      BY <1>3, <2>1, <3>1, ReviewFailureFollows DEF FailureCategories
    <3> QED
      BY <1>4, <2>2, <3>2 DEF category
  <2>3. CASE run' = [run EXCEPT ![p].pc = "save",
                                ![p].next = Transition(s, "REVIEW_RUNNING", "NONE"),
                                ![p].package = ev.package]
    <3> DEFINE n == Transition(s, "REVIEW_RUNNING", "NONE")
               r == [run[p] EXCEPT !.pc = "save", !.next = n, !.package = ev.package]
    <3>1. run' = [run EXCEPT ![p] = r]
      BY <2>3, Zenon
    <3>2. r.pc = "save" /\ r.base = s /\ r.ticket = run[p].ticket /\ r.next = n
      BY DEF RunsOK, Runs
    <3>3. Follows(s, n) /\ n.stage = "REVIEW_RUNNING"
      BY <1>3, <2>1, ReviewStepFollows
    <3> HIDE DEF r, n
    <3> QED
      BY <1>1, <1>2, <3>1, <3>2, <3>3, Computes
  <2> QED
    BY <1>6, <2>2, <2>3, Zenon DEF DispatchReviewer
<1> QED
  BY <1>5, <1>6

LEMMA WorkerAnswersRemembers ==
  ASSUME RunsOK, MemoryInv, Grows, NEW p \in Procs, WorkerReturns(p) \/ WorkerRaises(p)
  PROVE  MemoryInv'
<1> DEFINE s == run[p].base
<1>1. UNCHANGED <<states, claims>>
  BY DEF WorkerReturns, WorkerRaises, store
<1>2. Computing(run[p]) /\ run[p].pc = "worker"
  BY DEF WorkerReturns, WorkerRaises, Computing
<1>3. s \in WorkflowStates /\ WithinPolicy(s) /\ s.stage = "WORKER_RUNNING"
  BY <1>2, ComputingFacts
<1>4. CASE WorkerReturns(p)
  <2>1. PICK res \in ResultsOf(s.active) :
          run' = [run EXCEPT ![p].pc = "save_result", ![p].result = res,
                             ![p].next = HandleWorkerResult(s, res)]
    BY <1>4 DEF WorkerReturns
  <2>2. s.active \in Nat
    BY <1>3, RunningAttempt
  <2>3. res \in AttemptResults /\ res.attempt = s.active
    BY <2>2, ResultsOfType
  <2> DEFINE n == HandleWorkerResult(s, res)
             r == [run[p] EXCEPT !.pc = "save_result", !.result = res, !.next = n]
  <2>4. run' = [run EXCEPT ![p] = r]
    BY <2>1, Zenon
  <2>5. /\ r.pc = "save_result" /\ r.base = s /\ r.ticket = run[p].ticket /\ r.next = n
        /\ r.result = res
    BY DEF RunsOK, Runs
  <2>6. Follows(s, n) /\ n.stage \in {"BLOCKED", "WORKER_FAILED", "REVIEW_PENDING"}
    BY <1>3, <2>3, HandleWorkerResultFollows
  <2> HIDE DEF n, r
  <2> QED
    BY <1>1, <1>2, <2>4, <2>5, <2>6, Computes
<1>5. CASE WorkerRaises(p)
  <2>1. PICK category \in FailureCategories :
          ToSave(p, WorkerFailure(s, category, category # "INFRASTRUCTURE", 0))
    BY <1>5 DEF WorkerRaises
  <2> DEFINE n == WorkerFailure(s, category, category # "INFRASTRUCTURE", 0)
  <2>2. Follows(s, n) /\ n.stage \in {"BLOCKED", "WORKER_FAILED"}
    <3>1. 0 \in Nat
      OBVIOUS
    <3> DEFINE consume == category # "INFRASTRUCTURE"
    <3>2. consume \in BOOLEAN /\ (category = "INFRASTRUCTURE" => ~consume)
      OBVIOUS
    <3> HIDE DEF consume
    <3>3. ASSUME NEW m, m = WorkerFailure(s, category, consume, 0)
          PROVE  Follows(s, m) /\ m.stage \in {"BLOCKED", "WORKER_FAILED"}
      BY <1>3, <3>1, <3>2, <3>3, WorkerFailureFollows
    <3> QED
      BY <3>3 DEF consume
  <2>3. ToSave(p, n)
    BY <2>1
  <2> HIDE DEF n
  <2> QED
    BY <1>1, <1>2, <2>2, <2>3, ComputesToSave
<1> QED
  BY <1>4, <1>5

LEMMA ReviewerAnswersRemembers ==
  ASSUME RunsOK, MemoryInv, Grows, endorsed \in [Tickets -> SUBSET Commits],
         NEW p \in Procs, ReviewerReturns(p) \/ ReviewerRaises(p)
  PROVE  MemoryInv'
<1> DEFINE s == run[p].base
           t == run[p].ticket
<1>1. UNCHANGED <<states, claims>>
  BY DEF ReviewerReturns, ReviewerRaises, store
<1>2. Computing(run[p]) /\ run[p].pc = "reviewer"
  BY DEF ReviewerReturns, ReviewerRaises, Computing
<1>3. t \in Tickets /\ s \in WorkflowStates /\ WithinPolicy(s) /\ s.stage = "REVIEW_RUNNING"
  BY <1>2, ComputingFacts
<1>4. ASSUME NEW category \in FailureCategories, ToSave(p, ReviewFailure(s, category))
      PROVE  MemoryInv'
  <2>1. /\ Follows(s, ReviewFailure(s, category))
        /\ ReviewFailure(s, category).stage \in {"BLOCKED", "REVIEW_PENDING"}
    BY <1>3, ReviewFailureFollows
  <2> QED
    BY <1>1, <1>2, <1>4, <2>1, ComputesToSave
<1>5. CASE ReviewerRaises(p)
  BY <1>4, <1>5 DEF ReviewerRaises
<1>6. CASE ReviewerReturns(p)
  <2>1. PICK res \in Reviews :
          /\ IF ValidForPosting(run[p].package, res)
               THEN run' = [run EXCEPT ![p].pc = "save_review", ![p].review = res,
                                       ![p].next = HandleReviewResult(s, res)]
               ELSE ToSave(p, ReviewFailure(s, "REVIEWER_EXECUTION"))
          /\ Endorse(t, res)
    BY <1>6 DEF ReviewerReturns
  <2>2. CASE ToSave(p, ReviewFailure(s, "REVIEWER_EXECUTION"))
    BY <1>4, <2>2 DEF FailureCategories
  <2>3. CASE /\ ValidForPosting(run[p].package, res)
             /\ run' = [run EXCEPT ![p].pc = "save_review", ![p].review = res,
                                   ![p].next = HandleReviewResult(s, res)]
    <3> DEFINE n == HandleReviewResult(s, res)
               r == [run[p] EXCEPT !.pc = "save_review", !.review = res, !.next = n]
    <3>1. run' = [run EXCEPT ![p] = r]
      BY <2>3, Zenon
    <3>2. /\ r.pc = "save_review" /\ r.base = s /\ r.ticket = t /\ r.next = n
          /\ r.review = res
      BY DEF RunsOK, Runs
    <3>3. Follows(s, n) /\ n.stage # "COMPLETED"
      BY <1>3, HandleReviewResultFollows
    <3>4. res.valid /\ res.decision = "APPROVE" => res.commit \in endorsed'[t]
      BY <1>3, <2>1 DEF Endorse
    <3>5. n.stage = "APPROVED_AWAITING_MERGE" => n.commit \in endorsed'[t]
      BY <1>3, <2>3, <3>4, ApprovalCommit DEF ValidForPosting
    <3> HIDE DEF r, n
    <3> QED
      BY <1>1, <1>2, <3>1, <3>2, <3>3, <3>4, <3>5, Computes
  <2> QED
    BY <2>1, <2>2, <2>3
<1> QED
  BY <1>5, <1>6

(* An invocation that holds a successor, and goes on, keeps it.            *)
LEMMA KeepsHolding ==
  ASSUME RunsOK, MemoryInv, Grows,
         NEW p \in Procs, Holding(run[p]),
         NEW r, run' = [run EXCEPT ![p] = r],
         r.pc \in {"save", "replace", "replace_evidence"},
         r.base = run[p].base, r.ticket = run[p].ticket, r.next = run[p].next,
         r.pc = "replace" => ~AtomicCas,
         r.pc = "replace_evidence" => TrueRecord(r.record, r.ticket)
  PROVE  MemoryInv'
<1>1. run'[p] = r /\ r.ticket \in Tickets
  BY DEF RunsOK, HasTicket, Holding
<1>2. Remembers(run[p])
  BY DEF MemoryInv
<1>3. StageFits(run[p])'
  BY <1>1 DEF StageFits, TrueRecord, Endorsed, Grows, Computing
<1>4. NextFollows(run[p])'
  BY <1>1, <1>2
  DEF Remembers, NextFollows, Justified, Owned, Grows, Computing, Holding, Saved
<1> QED
  BY <1>3, <1>4, OneRemembers DEF Remembers

LEMMA GoesOnHolding ==
  ASSUME RunsOK, MemoryInv, Grows,
         NEW p \in Procs, Holding(run[p]), NEW pc, run' = [run EXCEPT ![p].pc = pc],
         pc = "save" \/ (pc = "replace" /\ ~AtomicCas)
  PROVE  MemoryInv'
<1> DEFINE r == [run[p] EXCEPT !.pc = pc]
<1>1. run' = [run EXCEPT ![p] = r]
  BY Zenon
<1>2. /\ r.pc = pc /\ r.base = run[p].base /\ r.ticket = run[p].ticket
      /\ r.next = run[p].next
  BY DEF RunsOK, Runs
<1> HIDE DEF r
<1> QED
  BY <1>1, <1>2, KeepsHolding

(* The write that ends a save, by either backend.                          *)
Writes(p) ==
  LET t == run[p].ticket IN
  /\ run[p].pc \in {"save", "replace"}
  /\ states' = [states EXCEPT ![t] = run[p].next]
  /\ run' = [run EXCEPT ![p].pc = "status"]
  /\ UNCHANGED <<claims, tickets, evidence, world>>

LEMMA WritesAre ==
  ASSUME NEW p \in Procs, CompareAndSet(p) \/ ReplaceState(p)
  PROVE  Writes(p)
BY DEF CompareAndSet, ReplaceState, Writes

(* Whatever it replaces, what is written is within policy, justified and   *)
(* the claimant's.                                                         *)
LEMMA WriteIsSound ==
  ASSUME RunsOK, MemoryInv, NEW p \in Procs, Holding(run[p])
  PROVE  LET t == run[p].ticket
             n == run[p].next IN
         /\ t \in Tickets /\ n \in WorkflowStates
         /\ WithinPolicy(n) /\ WellFormed(n) /\ n.revision \in Nat /\ n.revision > 0
         /\ Justified(n, t) /\ Owned(n, t)
<1>1. run[p].ticket \in Tickets /\ run[p].next \in WorkflowStates
  BY DEF RunsOK, Runs, HasTicket, Holding
<1>2. NextFollows(run[p])
  BY DEF MemoryInv, Remembers
<1> QED
  BY <1>1, <1>2, Fields DEF NextFollows

LEMMA WriteKeeps ==
  ASSUME RunsOK, StoreInv, MemoryInv, NEW p \in Procs, Writes(p), Grows,
         states \in [Tickets -> WorkflowStates]
  PROVE  StoreInv' /\ MemoryInv'
<1> DEFINE t == run[p].ticket
           n == run[p].next
<1>1. /\ t \in Tickets /\ n \in WorkflowStates
      /\ WithinPolicy(n) /\ WellFormed(n) /\ n.revision \in Nat /\ n.revision > 0
      /\ Justified(n, t) /\ Owned(n, t)
  BY WriteIsSound DEF Writes, Holding
<1>2. /\ states' = [states EXCEPT ![t] = n] /\ UNCHANGED <<claims, tickets>>
      /\ run' = [run EXCEPT ![p].pc = "status"]
  BY DEF Writes
<1>3. StoreInv'
  <2> SUFFICES ASSUME NEW u \in Tickets
               PROVE  /\ WithinPolicy(states'[u])
                      /\ WellFormed(states'[u])
                      /\ Justified(states[u], u)'
                      /\ states'[u].revision = 0 => states'[u] = NoState
                      /\ states'[u].revision > 0 => Owned(states[u], u)'
                      /\ tickets'[u] = "DONE" => merged'[u]
    BY DEF StoreInv, WithinPolicy, WellFormed
  <2> HIDE DEF t, n
  <2>1. CASE u = t
    <3>1. states'[u] = n
      BY <1>1, <1>2, <2>1
    <3>2. Justified(states[u], u)' /\ Owned(states[u], u)'
      BY <1>1, <1>2, <2>1, <3>1 DEF Justified, Owned, Grows
    <3>3. tickets'[u] = "DONE" => merged'[u]
      BY <1>2 DEF StoreInv, Grows
    <3> QED
      BY <1>1, <3>1, <3>2, <3>3
  <2>2. CASE u # t
    BY <1>2, <2>2, states'[u] = states[u] DEF StoreInv, Justified, Owned, Grows
  <2> QED
    BY <2>1, <2>2
<1>4. MemoryInv'
  <2> DEFINE r == [run[p] EXCEPT !.pc = "status"]
  <2>1. run' = [run EXCEPT ![p] = r]
    BY <1>2, Zenon
  <2>2. r.pc = "status" /\ r.next = n /\ r.ticket = t
    BY DEF RunsOK, Runs
  <2> HIDE DEF r
  <2>3. run'[p] = r
    BY <2>1 DEF RunsOK
  <2>4. states'[t] = n
    BY <1>1, <1>2
  <2>5. StageFits(run[p])'
    BY <2>2, <2>3 DEF StageFits, Computing
  <2>6. NextFollows(run[p])'
    BY <1>1, <1>2, <2>2, <2>3, <2>4
    DEF NextFollows, Justified, Owned, Grows, Computing, Holding, Saved
  <2> QED
    BY <2>1, <2>5, <2>6, OneRemembers DEF Remembers
<1> QED
  BY <1>3, <1>4

(* The ticket's document follows, and a saved running stage is dispatched. *)
LEMMA SetTicketStatusKeeps ==
  ASSUME TypeInv, RunsOK, StoreInv, MemoryInv, NEW p \in Procs, SetTicketStatus(p), Grows
  PROVE  StoreInv' /\ MemoryInv'
<1> DEFINE t == run[p].ticket
           n == run[p].next
           r(pc) == [run[p] EXCEPT !.pc = pc, !.base = n]
<1>1. UNCHANGED <<states, claims>> /\ run[p].pc = "status"
  BY DEF SetTicketStatus
<1>2. /\ t \in Tickets /\ n \in WorkflowStates /\ Justified(n, t) /\ Owned(n, t)
      /\ WithinPolicy(n) /\ WellFormed(n) /\ n.revision > 0 /\ states[t].revision > 0
  BY <1>1 DEF RunsOK, Runs, HasTicket, MemoryInv, Remembers, NextFollows, Saved
<1>3. TicketStatusFor(n.stage) = "DONE" => n.stage = "COMPLETED"
  BY <1>2, Fields DEF TicketStatusFor, Stages
<1>4. StoreInv'
  <2>1. \A u \in Tickets : tickets'[u] = "DONE" => merged[u]
    BY <1>2, <1>3 DEF SetTicketStatus, TypeInv, TypeOK, StoreInv, Justified
  <2> QED
    BY <1>1, <2>1 DEF StoreInv, Justified, Owned, Grows
<1>5. ASSUME NEW pc,
             \/ pc = "worker" /\ n.stage = "WORKER_RUNNING"
             \/ pc = "reviewer" /\ n.stage = "REVIEW_RUNNING",
             run' = [run EXCEPT ![p] = r(pc)]
      PROVE  MemoryInv'
  <2>1. r(pc).pc = pc /\ r(pc).base = n /\ r(pc).ticket = t
    BY DEF RunsOK, Runs
  <2> HIDE DEF r
  <2>2. run'[p] = r(pc)
    BY <1>5 DEF RunsOK
  <2>3. StageFits(run[p])'
    BY <1>1, <1>2, <1>5, <2>1, <2>2 DEF StageFits, Computing, Owned
  <2>4. NextFollows(run[p])'
    BY <1>1, <1>2, <1>5, <2>1, <2>2 DEF NextFollows, Computing, Holding, Saved
  <2> QED
    BY <1>5, <2>3, <2>4, OneRemembers DEF Remembers
<1>6. \/ n.stage = "WORKER_RUNNING" /\ run' = [run EXCEPT ![p] = r("worker")]
      \/ n.stage = "REVIEW_RUNNING" /\ run' = [run EXCEPT ![p] = r("reviewer")]
      \/ run' = [run EXCEPT ![p] = Idle]
  BY Zenon DEF SetTicketStatus
<1> HIDE DEF r
<1>7. MemoryInv'
  <2>1. CASE n.stage = "WORKER_RUNNING" /\ run' = [run EXCEPT ![p] = r("worker")]
    BY <1>5, <2>1
  <2>2. CASE n.stage = "REVIEW_RUNNING" /\ run' = [run EXCEPT ![p] = r("reviewer")]
    BY <1>5, <2>2
  <2>3. CASE run' = [run EXCEPT ![p] = Idle]
    BY <1>1, <2>3, IdleRemembers
  <2> QED
    BY <1>6, <2>1, <2>2, <2>3
<1> QED
  BY <1>4, <1>7

(* One recorded evidence that is true leaves all of it true.               *)
LEMMA OneRecord ==
  ASSUME TypeInv, EvidenceInv, Grows, NEW t \in Tickets, NEW ev,
         evidence' = [evidence EXCEPT ![t] = ev], TrueRecord(ev, t)'
  PROVE  EvidenceInv'
<1>1. evidence \in [Tickets -> Evidences]
  BY DEF TypeInv, TypeOK
<1> SUFFICES ASSUME NEW u \in Tickets PROVE TrueRecord(evidence[u], u)'
  BY DEF EvidenceInv
<1>2. CASE u = t
  BY <1>1, <1>2, evidence'[u] = ev
<1>3. CASE u # t
  BY <1>1, <1>3, evidence'[u] = evidence[u]
  DEF EvidenceInv, TrueRecord, Endorsed, Grows
<1> QED
  BY <1>2, <1>3

(* What an agent returned may be recorded with the evidence there is.      *)
LEMMA ResultIsTrue ==
  ASSUME TypeInv, RunsOK, EvidenceInv, MemoryInv, NEW p \in Procs
  PROVE  LET t == run[p].ticket IN
         /\ run[p].pc = "save_result" => TrueRecord(WithResult(evidence[t], run[p].result), t)
         /\ run[p].pc = "save_review" => TrueRecord(WithReview(evidence[t], run[p].review), t)
<1> DEFINE t == run[p].ticket
<1> SUFFICES ASSUME run[p].pc \in {"save_result", "save_review"}
             PROVE  /\ run[p].pc = "save_result" =>
                         TrueRecord(WithResult(evidence[t], run[p].result), t)
                    /\ run[p].pc = "save_review" =>
                         TrueRecord(WithReview(evidence[t], run[p].review), t)
  OBVIOUS
<1>1. t \in Tickets
  BY DEF RunsOK, HasTicket
<1>2. evidence[t] \in Evidences /\ TrueRecord(evidence[t], t) /\ StageFits(run[p])
  BY <1>1 DEF TypeInv, TypeOK, EvidenceInv, MemoryInv, Remembers
<1> HIDE DEF t
<1>3. ASSUME NEW r
      PROVE  /\ WithResult(evidence[t], r).worker = r
             /\ WithResult(evidence[t], r).completed = evidence[t].completed
             /\ WithResult(evidence[t], r).review = evidence[t].review
             /\ WithReview(evidence[t], r).worker = evidence[t].worker
             /\ WithReview(evidence[t], r).completed = evidence[t].completed
             /\ WithReview(evidence[t], r).review = r
  BY <1>2 DEF WithResult, WithReview, Evidences
<1> QED
  BY <1>2, <1>3 DEF StageFits, TrueRecord, t

(* A result is recorded before the state that follows from it is saved.    *)
LEMMA SaveResultKeeps ==
  ASSUME TypeInv, RunsOK, EvidenceInv, MemoryInv, NEW p \in Procs,
         SaveWorkerResult(p) \/ SaveReviewerResult(p), Grows,
         UNCHANGED <<orphans, merged, endorsed>>
  PROVE  EvidenceInv' /\ MemoryInv'
<1> DEFINE t == run[p].ticket
<1>1. t \in Tickets /\ run[p].pc \in {"save_result", "save_review"}
  BY DEF SaveWorkerResult, SaveReviewerResult, RunsOK, HasTicket
<1>2. MemoryInv'
  BY <1>1, GoesOnHolding DEF SaveWorkerResult, SaveReviewerResult, Holding
<1>3. PICK ev : evidence' = [evidence EXCEPT ![t] = ev] /\ TrueRecord(ev, t)
  <2>1. CASE SaveWorkerResult(p)
    BY <2>1, ResultIsTrue DEF SaveWorkerResult
  <2>2. CASE SaveReviewerResult(p)
    BY <2>2, ResultIsTrue DEF SaveReviewerResult
  <2> QED
    BY <2>1, <2>2
<1>4. ASSUME NEW e, NEW u, TrueRecord(e, u) PROVE TrueRecord(e, u)'
  BY <1>4 DEF TrueRecord, Endorsed
<1>5. ASSUME NEW e, NEW u \in Tickets, evidence' = [evidence EXCEPT ![u] = e],
             TrueRecord(e, u)
      PROVE  EvidenceInv'
  BY <1>4, <1>5, OneRecord
<1> QED
  BY <1>1, <1>2, <1>3, <1>5

(* Loaded and replaced, the record is as true as the evidence was.         *)
LEMMA LoadEvidenceKeeps ==
  ASSUME TypeInv, RunsOK, EvidenceInv, MemoryInv, NEW p \in Procs, LoadEvidence(p), Grows
  PROVE  MemoryInv'
<1> DEFINE t == run[p].ticket
           ev == IF run[p].pc = "save_result" THEN WithResult(evidence[t], run[p].result)
                                              ELSE WithReview(evidence[t], run[p].review)
           r == [run[p] EXCEPT !.pc = "replace_evidence", !.record = ev]
<1>1. run' = [run EXCEPT ![p] = r]
  BY Zenon DEF LoadEvidence
<1>2. run[p].pc \in {"save_result", "save_review"}
  BY DEF LoadEvidence
<1>3. TrueRecord(ev, t)
  BY <1>2, ResultIsTrue
<1> HIDE DEF ev
<1>4. /\ r.pc = "replace_evidence" /\ r.base = run[p].base /\ r.ticket = t
      /\ r.next = run[p].next /\ r.record = ev
  BY DEF RunsOK, Runs
<1> HIDE DEF r
<1> QED
  BY <1>1, <1>2, <1>3, <1>4, KeepsHolding DEF Holding

LEMMA ReplaceEvidenceKeeps ==
  ASSUME TypeInv, RunsOK, EvidenceInv, MemoryInv, NEW p \in Procs, ReplaceEvidence(p), Grows,
         UNCHANGED <<orphans, merged, endorsed>>
  PROVE  EvidenceInv' /\ MemoryInv'
<1> DEFINE r == [run[p] EXCEPT !.pc = "save", !.record = NoEvidence]
<1>1. run' = [run EXCEPT ![p] = r]
  BY Zenon DEF ReplaceEvidence
<1>2. run[p].pc = "replace_evidence" /\ run[p].ticket \in Tickets
  BY DEF ReplaceEvidence, RunsOK, HasTicket
<1>3. /\ r.pc = "save" /\ r.base = run[p].base /\ r.ticket = run[p].ticket
      /\ r.next = run[p].next
  BY DEF RunsOK, Runs
<1> HIDE DEF r
<1>4. MemoryInv'
  BY <1>1, <1>2, <1>3, KeepsHolding DEF Holding
<1>5. TrueRecord(run[p].record, run[p].ticket)
  BY <1>2 DEF MemoryInv, Remembers, StageFits
<1>6. ASSUME NEW ev, NEW t, TrueRecord(ev, t) PROVE TrueRecord(ev, t)'
  BY <1>6 DEF TrueRecord, Endorsed
<1>7. ASSUME NEW ev, NEW t \in Tickets, evidence' = [evidence EXCEPT ![t] = ev],
             TrueRecord(ev, t)
      PROVE  EvidenceInv'
  BY <1>6, <1>7, OneRecord
<1> QED
  BY <1>2, <1>4, <1>5, <1>7 DEF ReplaceEvidence

(* A crash forgets the memory.                                             *)
LEMMA CrashKeeps ==
  ASSUME TypeInv, RunsOK, StoreInv, EvidenceInv, MemoryInv, NEW p \in Procs, Crash(p), Grows
  PROVE  StoreInv' /\ EvidenceInv' /\ MemoryInv'
<1>1. UNCHANGED <<claims, states, tickets, evidence>> /\ run' = [run EXCEPT ![p] = Idle]
  BY DEF Crash, store
<1> QED
  BY <1>1, StoreKept, EvidenceKept, IdleRemembers

(* Outside, only evidence is recorded and work completed.                  *)
LEMMA WorldKeeps ==
  ASSUME TypeInv, RunsOK, StoreInv, EvidenceInv, MemoryInv, NEW t \in Tickets, World(t), Grows
  PROVE  StoreInv' /\ EvidenceInv' /\ MemoryInv'
<1>1. MemoryInv'
  BY AllRemember
  DEF World, OrphanPersists, OrphanDies, RecordWorkerGone, ReviewPersists,
      OrphanReviewerDies, RecordReviewerGone, ObservePullRequest, MergeExternally,
      RecordCompletion, store
<1>2. CASE MergeExternally(t)
  <2>1. UNCHANGED <<claims, states, evidence, endorsed>> /\ merged'[t]
    BY <1>2 DEF MergeExternally, TypeInv, TypeOK
  <2>2. \A u \in Tickets : tickets'[u] = "DONE" => merged'[u]
    BY <1>2, <2>1 DEF MergeExternally, TypeInv, TypeOK, StoreInv, Grows
  <2>3. StoreInv'
    BY <2>1, <2>2 DEF StoreInv, Justified, Owned, Grows
  <2> QED
    BY <1>1, <2>1, <2>3, EvidenceKept
<1>3. CASE ~MergeExternally(t)
  <2>1. UNCHANGED <<claims, states, tickets, merged>>
    BY <1>3
    DEF World, OrphanPersists, OrphanDies, RecordWorkerGone, ReviewPersists,
        OrphanReviewerDies, RecordReviewerGone, ObservePullRequest, RecordCompletion,
        store, world
  <2>2. StoreInv'
    BY <2>1, StoreKept
  <2>3. evidence \in [Tickets -> Evidences]
    BY DEF TypeInv, TypeOK
  <2>5. ASSUME NEW e, evidence' = [evidence EXCEPT ![t] = e], e.completed => merged[t],
               e.review.valid /\ e.review.decision = "APPROVE"
                 => e.review.commit \in endorsed'[t]
        PROVE  EvidenceInv'
    BY <2>1, <2>5, OneRecord DEF TrueRecord, Endorsed
  <2>6. /\ evidence[t] \in Evidences
        /\ evidence[t].completed => merged[t]
        /\ evidence[t].review.valid /\ evidence[t].review.decision = "APPROVE"
             => evidence[t].review.commit \in endorsed'[t]
    BY <2>3 DEF EvidenceInv, TrueRecord, Endorsed, Grows
  <2>7. UNCHANGED evidence => EvidenceInv'
    BY EvidenceKept
  <2>8. CASE OrphanPersists(t)
    <3>1. PICK r \in RecordedResults :
            evidence' = [evidence EXCEPT ![t].worker = r, ![t].workerGone = TRUE]
      BY <2>8 DEF OrphanPersists
    <3> DEFINE e == [evidence[t] EXCEPT !.worker = r, !.workerGone = TRUE]
    <3>2. evidence' = [evidence EXCEPT ![t] = e]
      BY <3>1, Zenon
    <3>3. e.completed = evidence[t].completed /\ e.review = evidence[t].review
      BY <2>6 DEF Evidences
    <3> HIDE DEF e
    <3> QED
      BY <1>1, <2>2, <2>5, <2>6, <3>2, <3>3
  <2>9. CASE RecordWorkerGone(t)
    <3> DEFINE e == [evidence[t] EXCEPT !.workerGone = TRUE]
    <3>1. evidence' = [evidence EXCEPT ![t] = e]
      BY <2>9, Zenon DEF RecordWorkerGone
    <3>2. /\ e.worker = evidence[t].worker /\ e.completed = evidence[t].completed
          /\ e.review = evidence[t].review
      BY <2>6 DEF Evidences
    <3> HIDE DEF e
    <3> QED
      BY <1>1, <2>2, <2>5, <2>6, <3>1, <3>2
  <2>10. CASE RecordReviewerGone(t)
    <3> DEFINE e == [evidence[t] EXCEPT !.reviewerGone = TRUE]
    <3>1. evidence' = [evidence EXCEPT ![t] = e]
      BY <2>10, Zenon DEF RecordReviewerGone
    <3>2. /\ e.worker = evidence[t].worker /\ e.completed = evidence[t].completed
          /\ e.review = evidence[t].review
      BY <2>6 DEF Evidences
    <3> HIDE DEF e
    <3> QED
      BY <1>1, <2>2, <2>5, <2>6, <3>1, <3>2
  <2>11. CASE ReviewPersists(t)
    <3>1. PICK package \in reviewing[t], r \in Reviews :
            /\ evidence' = [evidence EXCEPT ![t].review = r, ![t].reviewerGone = TRUE]
            /\ Endorse(t, r)
      BY <2>11 DEF ReviewPersists
    <3> DEFINE e == [evidence[t] EXCEPT !.review = r, !.reviewerGone = TRUE]
    <3>2. evidence' = [evidence EXCEPT ![t] = e]
      BY <3>1, Zenon
    <3>3. /\ e.worker = evidence[t].worker /\ e.completed = evidence[t].completed
          /\ e.review = r
      BY <2>6 DEF Evidences
    <3> HIDE DEF e
    <3>4. endorsed \in [Tickets -> SUBSET Commits]
      BY DEF TypeInv, TypeOK
    <3>5. r.valid /\ r.decision = "APPROVE" => r.commit \in endorsed'[t]
      BY <3>1, <3>4 DEF Endorse
    <3> QED
      BY <1>1, <2>2, <2>5, <2>6, <3>2, <3>3, <3>5
  <2>12. CASE ObservePullRequest(t)
    <3>1. PICK head \in Commits, ci \in {"PASS", "FAIL", "INFRA_FAILURE"} :
            evidence' = [evidence EXCEPT ![t].package = [head |-> head, ci |-> ci]]
      BY <2>12 DEF ObservePullRequest
    <3> DEFINE package == [head |-> head, ci |-> ci]
               e == [evidence[t] EXCEPT !.package = package]
    <3>2. evidence' = [evidence EXCEPT ![t] = e]
      BY <3>1, Zenon
    <3> HIDE DEF package
    <3>3. /\ e.worker = evidence[t].worker /\ e.completed = evidence[t].completed
          /\ e.review = evidence[t].review
      BY <2>6 DEF Evidences
    <3> HIDE DEF e
    <3> QED
      BY <1>1, <2>2, <2>5, <2>6, <3>2, <3>3
  <2>13. CASE RecordCompletion(t)
    <3> DEFINE e == [evidence[t] EXCEPT !.completed = TRUE]
    <3>1. evidence' = [evidence EXCEPT ![t] = e]
      BY <2>13, Zenon DEF RecordCompletion
    <3>2. e.worker = evidence[t].worker /\ e.review = evidence[t].review
      BY <2>6 DEF Evidences
    <3>3. merged[t]
      BY <2>13 DEF RecordCompletion
    <3> HIDE DEF e
    <3> QED
      BY <1>1, <2>2, <2>5, <2>6, <3>1, <3>2, <3>3
  <2>14. CASE OrphanDies(t) \/ OrphanReviewerDies(t)
    BY <1>1, <2>2, <2>7, <2>14 DEF OrphanDies, OrphanReviewerDies, store
  <2> QED
    BY <1>3, <2>8, <2>9, <2>10, <2>11, <2>12, <2>13, <2>14 DEF World
<1> QED
  BY <1>2, <1>3

(* Which steps change claims, states, and what happened outside.           *)
LEMMA WhoChanges ==
  ASSUME [Next]_vars
  PROVE  /\ UNCHANGED claims \/ \E p \in Procs : AcquireClaim(p)
         /\ UNCHANGED states \/ \E p \in Procs : CompareAndSet(p) \/ ReplaceState(p)
         /\ UNCHANGED merged \/ \E t \in Tickets : MergeExternally(t)
         /\ \/ UNCHANGED endorsed
            \/ \E p \in Procs : ReviewerReturns(p)
            \/ \E t \in Tickets : ReviewPersists(t)
<1>1. ASSUME NEW p \in Procs, Step(p)
      PROVE  /\ UNCHANGED claims \/ AcquireClaim(p)
             /\ UNCHANGED states \/ CompareAndSet(p) \/ ReplaceState(p)
             /\ UNCHANGED merged
             /\ UNCHANGED endorsed \/ ReviewerReturns(p)
  BY <1>1
  DEF Step, RunOnce, SelectTicket, AcquireClaim, ReconcileCompletion, ReconcileWorker,
      ReconcileReviewer, ReconcileNothing, DispatchWorker, DispatchReviewer, CompareFails,
      CompareAndSet, CompareRevision, ReplaceState, SetTicketStatus, WorkerReturns,
      WorkerRaises, SaveWorkerResult, ReviewerReturns, ReviewerRaises, SaveReviewerResult,
      LoadEvidence, ReplaceEvidence, store, world
<1>2. ASSUME NEW p \in Procs, Crash(p) PROVE UNCHANGED <<claims, states, merged, endorsed>>
  BY <1>2 DEF Crash, store
<1>3. ASSUME NEW t \in Tickets, World(t)
      PROVE  /\ UNCHANGED <<claims, states>>
             /\ UNCHANGED merged \/ MergeExternally(t)
             /\ UNCHANGED endorsed \/ ReviewPersists(t)
  BY <1>3
  DEF World, OrphanPersists, OrphanDies, RecordWorkerGone, ReviewPersists,
      OrphanReviewerDies, RecordReviewerGone, ObservePullRequest, MergeExternally,
      RecordCompletion, store, world
<1>4. CASE UNCHANGED vars
  BY <1>4 DEF vars, store, world
<1> QED
  BY <1>1, <1>2, <1>3, <1>4 DEF Next

LEMMA NextGrows ==
  ASSUME TypeInv, MemoryInv, [Next]_vars
  PROVE  Grows
<1>1. /\ merged \in [Tickets -> BOOLEAN] /\ endorsed \in [Tickets -> SUBSET Commits]
      /\ claims \in [Tickets -> Procs \cup {NoOne}]
      /\ states \in [Tickets -> WorkflowStates] /\ RunsOK
  BY DEF TypeInv, TypeOK, RunsOK
<1>2. \A t \in Tickets : merged[t] => merged'[t]
  BY <1>1, WhoChanges DEF MergeExternally
<1>3. ASSUME NEW t \in Tickets PROVE endorsed[t] \subseteq endorsed'[t]
  <2>1. ASSUME NEW u \in Tickets, NEW r, Endorse(u, r) PROVE endorsed[t] \subseteq endorsed'[t]
    BY <1>1, <2>1 DEF Endorse
  <2>2. ASSUME NEW p \in Procs, ReviewerReturns(p) PROVE endorsed[t] \subseteq endorsed'[t]
    <3>1. run[p].ticket \in Tickets
      BY <1>1, <2>2 DEF RunsOK, HasTicket, ReviewerReturns
    <3> QED
      BY <2>1, <2>2, <3>1 DEF ReviewerReturns
  <2>3. ASSUME NEW u \in Tickets, ReviewPersists(u) PROVE endorsed[t] \subseteq endorsed'[t]
    BY <2>1, <2>3 DEF ReviewPersists
  <2> QED
    BY <2>2, <2>3, WhoChanges
<1>4. ASSUME NEW t \in Tickets, claims[t] # NoOne PROVE claims'[t] = claims[t]
  <2>1. ASSUME NEW p \in Procs, AcquireClaim(p) PROVE claims'[t] = claims[t]
    BY <1>1, <1>4, <2>1 DEF AcquireClaim
  <2> QED
    BY <2>1, WhoChanges
<1>5. ASSUME NEW t \in Tickets, states[t].revision > 0 PROVE states'[t].revision > 0
  <2>1. ASSUME NEW p \in Procs, Writes(p) PROVE states'[t].revision > 0
    <3>1. run[p].next.revision > 0
      BY <1>1, <2>1, WriteIsSound DEF Writes, Holding
    <3> QED
      BY <1>1, <1>5, <2>1, <3>1 DEF Writes
  <2> QED
    BY <1>5, <2>1, WritesAre, WhoChanges
<1> QED
  BY <1>2, <1>3, <1>4, <1>5 DEF Grows

-----------------------------------------------------------------------------
(* Where saves cannot overlap, what an invocation loaded is current, or    *)
(* the comparison will tell.                                               *)

Fresh == \A p \in Procs : LoadedIsCurrent(run[p])

LEMMA OneIsFresh ==
  ASSUME RunsOK, Fresh, UNCHANGED states,
         NEW p \in Procs, NEW r, run' = [run EXCEPT ![p] = r], LoadedIsCurrent(r)
  PROVE  Fresh'
<1> SUFFICES ASSUME NEW q \in Procs PROVE LoadedIsCurrent(run[q])'
  BY DEF Fresh
<1> USE DEF LoadedIsCurrent, Current, Computing, Holding, Saved
<1>1. CASE q = p
  BY <1>1, run'[q] = r DEF RunsOK
<1>2. CASE q # p
  BY <1>2, run'[q] = run[q] DEF RunsOK, Fresh
<1> QED
  BY <1>1, <1>2

(* Invocations that end, or look for a ticket, loaded nothing.             *)
LEMMA EndsFresh ==
  ASSUME RunsOK, Fresh, UNCHANGED states,
         NEW p \in Procs, NEW r, run' = [run EXCEPT ![p] = r],
         r.pc \in {"idle", "select", "acquire"}
  PROVE  Fresh'
BY OneIsFresh DEF LoadedIsCurrent, Computing, Holding, Saved

LEMMA IdleIsFresh ==
  ASSUME RunsOK, Fresh, UNCHANGED states,
         NEW p \in Procs, run' = [run EXCEPT ![p] = Idle]
  PROVE  Fresh'
BY EndsFresh, Idle.pc = "idle" DEF Idle

(* Others go on with the state they loaded.                                *)
LEMMA BaseIsFresh ==
  ASSUME RunsOK, Fresh, UNCHANGED states,
         NEW p \in Procs, Computing(run[p]) \/ Holding(run[p]),
         NEW r, run' = [run EXCEPT ![p] = r],
         r.base = run[p].base, r.ticket = run[p].ticket,
         r.pc \in {"dispatch", "save", "save_result", "save_review", "replace_evidence"}
  PROVE  Fresh'
<1>1. Current(run[p].base, run[p].ticket)
  BY DEF Fresh, LoadedIsCurrent
<1>2. LoadedIsCurrent(r)
  BY <1>1 DEF LoadedIsCurrent, Current, Saved
<1> QED
  BY <1>2, OneIsFresh

LEMMA ToSaveIsFresh ==
  ASSUME RunsOK, Fresh, UNCHANGED states,
         NEW p \in Procs, Computing(run[p]) \/ Holding(run[p]), NEW n, ToSave(p, n)
  PROVE  Fresh'
<1> DEFINE r == [run[p] EXCEPT !.pc = "save", !.next = n]
<1>1. run' = [run EXCEPT ![p] = r]
  BY Zenon DEF ToSave
<1>2. r.pc = "save" /\ r.base = run[p].base /\ r.ticket = run[p].ticket
  BY DEF RunsOK, Runs
<1> HIDE DEF r
<1> QED
  BY <1>1, <1>2, BaseIsFresh

LEMMA PcIsFresh ==
  ASSUME RunsOK, Fresh, UNCHANGED states,
         NEW p \in Procs, Computing(run[p]) \/ Holding(run[p]),
         NEW pc \in {"dispatch", "save"}, run' = [run EXCEPT ![p].pc = pc]
  PROVE  Fresh'
<1> DEFINE r == [run[p] EXCEPT !.pc = pc]
<1>1. run' = [run EXCEPT ![p] = r]
  BY Zenon
<1>2. r.pc = pc /\ r.base = run[p].base /\ r.ticket = run[p].ticket
  BY DEF RunsOK, Runs
<1> HIDE DEF r
<1> QED
  BY <1>1, <1>2, BaseIsFresh

(* Both backends, once nobody can come in between, replace the very state  *)
(* that the successor was computed from.                                   *)
LEMMA WriteFollows ==
  ASSUME RunsOK, MemoryInv, Fresh, NEW p \in Procs, CompareAndSet(p) \/ ReplaceState(p)
  PROVE  /\ run[p].base = states[run[p].ticket]
         /\ Follows(states[run[p].ticket], run[p].next)
<1>1. LoadedIsCurrent(run[p]) /\ NextFollows(run[p])
  BY DEF Fresh, MemoryInv, Remembers
<1>2. run[p].base = states[run[p].ticket]
  BY <1>1 DEF CompareAndSet, ReplaceState, LoadedIsCurrent, Current, Holding
<1> QED
  BY <1>1, <1>2 DEF CompareAndSet, ReplaceState, NextFollows, Holding

LEMMA WriteIsFresh ==
  ASSUME SavesApart, RunsOK, MemoryInv, Fresh, states \in [Tickets -> WorkflowStates],
         NEW p \in Procs, CompareAndSet(p) \/ ReplaceState(p)
  PROVE  Fresh'
<1> DEFINE t == run[p].ticket
           n == run[p].next
<1>1. /\ t \in Tickets /\ n \in WorkflowStates /\ n.revision \in Nat
      /\ n.revision = states[t].revision + 1 /\ states[t].revision \in Nat
  BY WriteFollows, WriteIsSound, Fields DEF CompareAndSet, ReplaceState, Holding, Follows
<1>2. states' = [states EXCEPT ![t] = n] /\ run' = [run EXCEPT ![p].pc = "status"]
  BY DEF CompareAndSet, ReplaceState
<1>3. ASSUME NEW s, NEW u \in Tickets, s.revision \in Nat, Current(s, u)
      PROVE  s.revision <= states'[u].revision
             /\ (s.revision = states'[u].revision => s = states'[u])
  <2>1. CASE u = t
    BY <1>1, <1>2, <1>3, <2>1, states'[u] = n DEF Current
  <2>2. CASE u # t
    BY <1>2, <1>3, <2>2, states'[u] = states[u] DEF Current
  <2> QED
    BY <2>1, <2>2
<1>4. ASSUME NEW q \in Procs, q # p PROVE LoadedIsCurrent(run[q])'
  <2>1. run'[q] = run[q]
    BY <1>2, <1>4 DEF RunsOK
  <2>2. Computing(run[q]) \/ Holding(run[q]) \/ Saved(run[q]) => run[q].ticket \in Tickets
    BY DEF Computing, Holding, Saved, RunsOK, HasTicket
  <2>3. LoadedIsCurrent(run[q]) /\ run[q].base.revision \in Nat /\ run[q].next.revision \in Nat
    BY DEF Fresh, RunsOK, Runs, WorkflowStates
  <2>4. run[q].pc # "replace"
    BY <1>4 DEF SavesApart, MemoryInv, Remembers, StageFits
  <2>5. Computing(run[q]) \/ Holding(run[q]) => Current(run[q].base, run[q].ticket)'
    BY <1>3, <2>1, <2>2, <2>3 DEF LoadedIsCurrent, Current
  <2>6. Saved(run[q]) => Current(run[q].next, run[q].ticket)'
    BY <1>3, <2>1, <2>2, <2>3 DEF LoadedIsCurrent, Current
  <2>7. /\ (Computing(run[q]) \/ Holding(run[q]))' => Computing(run[q]) \/ Holding(run[q])
        /\ Saved(run[q])' => Saved(run[q])
    BY <2>1 DEF Computing, Holding, Saved
  <2> QED
    BY <2>1, <2>4, <2>5, <2>6, <2>7 DEF LoadedIsCurrent
<1>5. LoadedIsCurrent(run[p])'
  <2> DEFINE r == [run[p] EXCEPT !.pc = "status"]
  <2>1. run' = [run EXCEPT ![p] = r]
    BY <1>2, Zenon
  <2>2. r.pc = "status" /\ r.next = n /\ r.ticket = t
    BY DEF RunsOK, Runs
  <2> HIDE DEF r
  <2>3. run'[p] = r /\ states'[t] = n
    BY <1>1, <1>2, <2>1 DEF RunsOK
  <2> QED
    BY <1>1, <2>2, <2>3 DEF LoadedIsCurrent, Current, Computing, Holding, Saved
<1> QED
  BY <1>4, <1>5 DEF Fresh

LEMMA FreshStep ==
  ASSUME SavesApart, TypeInv, StoreInv, MemoryInv, Fresh, [Next]_vars
  PROVE  Fresh'
<1>1. RunsOK /\ states \in [Tickets -> WorkflowStates]
  BY DEF TypeInv, TypeOK, RunsOK
<1>2. CASE UNCHANGED <<states, run>>
  BY <1>2 DEF Fresh, LoadedIsCurrent, Current, Computing, Holding, Saved
<1>3. ASSUME NEW p \in Procs, Step(p) PROVE Fresh'
  <2> USE DEF Computing, Holding
  <2>1. CASE RunOnce(p)
    <3>1. UNCHANGED states
      BY <2>1 DEF RunOnce, store
    <3>2. CASE run' = [run EXCEPT ![p] = [Idle EXCEPT !.pc = "select"]]
      BY <1>1, <3>1, <3>2, EndsFresh, [Idle EXCEPT !.pc = "select"].pc = "select" DEF Idle
    <3>3. ASSUME NEW u \in Active,
                 run' = [run EXCEPT ![p] = [Idle EXCEPT !.pc = "reconcile", !.ticket = u,
                                                        !.base = states[u]]]
          PROVE  Fresh'
      <4> DEFINE r == [Idle EXCEPT !.pc = "reconcile", !.ticket = u, !.base = states[u]]
      <4>1. r.pc = "reconcile" /\ r.base = states[u] /\ r.ticket = u
        BY DEF Idle
      <4>2. states[u].revision \in Nat
        BY <1>1, Fields DEF Active
      <4> HIDE DEF r
      <4>3. LoadedIsCurrent(r)
        BY <4>1, <4>2 DEF LoadedIsCurrent, Current, Saved
      <4> QED
        BY <1>1, <3>1, <3>3, <4>3, OneIsFresh DEF r
    <3> QED
      BY <2>1, <3>2, <3>3 DEF RunOnce
  <2>2. CASE SelectTicket(p)
    <3>1. UNCHANGED states
      BY <2>2 DEF SelectTicket, store
    <3>2. ASSUME NEW u \in Tickets, run' = [run EXCEPT ![p].pc = "acquire", ![p].ticket = u]
          PROVE  Fresh'
      <4> DEFINE r == [run[p] EXCEPT !.pc = "acquire", !.ticket = u]
      <4>1. run' = [run EXCEPT ![p] = r]
        BY <3>2, Zenon
      <4>2. r.pc = "acquire"
        BY <1>1 DEF RunsOK, Runs
      <4> HIDE DEF r
      <4> QED
        BY <1>1, <3>1, <4>1, <4>2, EndsFresh
    <3> QED
      BY <1>1, <2>2, <3>1, <3>2, IdleIsFresh DEF SelectTicket
  <2>3. CASE AcquireClaim(p)
    <3>1. UNCHANGED states
      BY <2>3 DEF AcquireClaim
    <3>2. CASE run' = [run EXCEPT ![p].pc = "save", ![p].next = Claimed(p)]
      <4> DEFINE r == [run[p] EXCEPT !.pc = "save", !.next = Claimed(p)]
      <4>1. run' = [run EXCEPT ![p] = r]
        BY <3>2, Zenon
      <4>2. run[p].base = NoState /\ run[p].ticket \in Tickets
        BY <1>1, <2>3
        DEF AcquireClaim, MemoryInv, Remembers, StageFits, RunsOK, HasTicket
      <4>3. r.pc = "save" /\ r.base = NoState /\ r.ticket = run[p].ticket
        BY <1>1, <4>2 DEF RunsOK, Runs
      <4> HIDE DEF r
      <4>4. /\ states[r.ticket].revision \in Nat /\ NoState.revision = 0
            /\ states[r.ticket].revision = 0 => states[r.ticket] = NoState
        BY <1>1, <4>2, <4>3, Fields DEF StoreInv, NoState
      <4>5. LoadedIsCurrent(r)
        BY <4>3, <4>4 DEF LoadedIsCurrent, Current, Saved
      <4> QED
        BY <1>1, <3>1, <4>1, <4>5, OneIsFresh
    <3> QED
      BY <1>1, <2>3, <3>1, <3>2, IdleIsFresh DEF AcquireClaim
  <2>4. CASE ReconcileCompletion(p) \/ ReconcileWorker(p) \/ ReconcileReviewer(p)
    <3>1. /\ UNCHANGED states /\ run[p].pc = "reconcile"
          /\ \E n : ToSave(p, n)
      BY <2>4, Zenon DEF ReconcileCompletion, ReconcileWorker, ReconcileReviewer, store
    <3> QED
      BY <1>1, <3>1, ToSaveIsFresh
  <2>5. CASE ReconcileNothing(p)
    <3>1. /\ UNCHANGED states /\ run[p].pc = "reconcile"
          /\ \/ run' = [run EXCEPT ![p].pc = "dispatch"]
             \/ run' = [run EXCEPT ![p] = Idle]
      BY <2>5, Zenon DEF ReconcileNothing, store
    <3> QED
      BY <1>1, <3>1, PcIsFresh, IdleIsFresh
  <2>6. CASE DispatchWorker(p) \/ DispatchReviewer(p)
    <3>1. UNCHANGED states /\ run[p].pc = "dispatch"
      BY <2>6 DEF DispatchWorker, DispatchReviewer, store
    <3>2. CASE \E n : ToSave(p, n)
      BY <1>1, <3>1, <3>2, ToSaveIsFresh
    <3>3. ASSUME NEW n, NEW package,
                 run' = [run EXCEPT ![p].pc = "save", ![p].next = n, ![p].package = package]
          PROVE  Fresh'
      <4> DEFINE r == [run[p] EXCEPT !.pc = "save", !.next = n, !.package = package]
      <4>1. run' = [run EXCEPT ![p] = r]
        BY <3>3, Zenon
      <4>2. r.pc = "save" /\ r.base = run[p].base /\ r.ticket = run[p].ticket
        BY <1>1 DEF RunsOK, Runs
      <4> HIDE DEF r
      <4> QED
        BY <1>1, <3>1, <4>1, <4>2, BaseIsFresh
    <3>4. CASE DispatchWorker(p)
      BY <3>2, <3>4, Zenon DEF DispatchWorker
    <3>5. CASE DispatchReviewer(p)
      <4> DEFINE n == Transition(run[p].base, "REVIEW_RUNNING", "NONE")
                 package == evidence[run[p].ticket].package
      <4>1. \/ \E m : ToSave(p, m)
            \/ run' = [run EXCEPT ![p].pc = "save", ![p].next = n, ![p].package = package]
        BY <3>5, Zenon DEF DispatchReviewer
      <4> HIDE DEF n, package
      <4>2. CASE run' = [run EXCEPT ![p].pc = "save", ![p].next = n, ![p].package = package]
        BY ONLY <3>3, <4>2, Zenon
      <4> QED
        BY <3>2, <4>1, <4>2
    <3> QED
      BY <2>6, <3>4, <3>5
  <2>7. CASE CompareFails(p)
    BY <1>1, <2>7, IdleIsFresh DEF CompareFails, store
  <2>8. CASE CompareAndSet(p) \/ ReplaceState(p)
    BY <1>1, <2>8, WriteIsFresh
  <2>9. CASE CompareRevision(p)
    <3> DEFINE r == [run[p] EXCEPT !.pc = "replace"]
    <3>1. run' = [run EXCEPT ![p] = r]
      BY <2>9, Zenon DEF CompareRevision
    <3>2. /\ UNCHANGED states /\ run[p].pc = "save"
          /\ states[run[p].ticket].revision = run[p].base.revision
      BY <2>9 DEF CompareRevision, store
    <3>3. r.pc = "replace" /\ r.base = run[p].base /\ r.ticket = run[p].ticket
      BY <1>1 DEF RunsOK, Runs
    <3> HIDE DEF r
    <3>4. LoadedIsCurrent(run[p])
      BY DEF Fresh
    <3>5. LoadedIsCurrent(r)
      BY <3>2, <3>3, <3>4 DEF LoadedIsCurrent, Current, Saved
    <3> QED
      BY <1>1, <3>1, <3>2, <3>5, OneIsFresh
  <2>10. CASE SetTicketStatus(p)
    <3> DEFINE r(pc) == [run[p] EXCEPT !.pc = pc, !.base = run[p].next]
    <3>1. UNCHANGED states /\ run[p].pc = "status"
      BY <2>10 DEF SetTicketStatus
    <3>2. \/ run' = [run EXCEPT ![p] = r("worker")]
          \/ run' = [run EXCEPT ![p] = r("reviewer")]
          \/ run' = [run EXCEPT ![p] = Idle]
      BY <2>10, Zenon DEF SetTicketStatus
    <3>3. ASSUME NEW pc \in {"worker", "reviewer"} PROVE LoadedIsCurrent(r(pc))
      <4>1. r(pc).pc = pc /\ r(pc).base = run[p].next /\ r(pc).ticket = run[p].ticket
        BY <1>1 DEF RunsOK, Runs
      <4> HIDE DEF r
      <4>2. Current(run[p].next, run[p].ticket)
        BY <3>1 DEF Fresh, LoadedIsCurrent, Saved
      <4> QED
        BY <4>1, <4>2 DEF LoadedIsCurrent, Current, Saved
    <3> HIDE DEF r
    <3> QED
      BY <1>1, <3>1, <3>2, <3>3, OneIsFresh, IdleIsFresh
  <2>11. CASE WorkerReturns(p)
    <3>1. UNCHANGED states /\ run[p].pc = "worker"
      BY <2>11 DEF WorkerReturns, store
    <3>2. PICK res, n : run' = [run EXCEPT ![p].pc = "save_result", ![p].result = res,
                                           ![p].next = n]
      BY <2>11 DEF WorkerReturns
    <3> DEFINE r == [run[p] EXCEPT !.pc = "save_result", !.result = res, !.next = n]
    <3>3. run' = [run EXCEPT ![p] = r]
      BY <3>2, Zenon
    <3>4. r.pc = "save_result" /\ r.base = run[p].base /\ r.ticket = run[p].ticket
      BY <1>1 DEF RunsOK, Runs
    <3> HIDE DEF r
    <3> QED
      BY <1>1, <3>1, <3>3, <3>4, BaseIsFresh
  <2>12. CASE WorkerRaises(p) \/ ReviewerRaises(p)
    <3>1. /\ UNCHANGED states /\ run[p].pc \in {"worker", "reviewer"}
          /\ \E n : ToSave(p, n)
      BY <2>12 DEF WorkerRaises, ReviewerRaises, store
    <3> QED
      BY <1>1, <3>1, ToSaveIsFresh
  <2>13. CASE SaveWorkerResult(p) \/ SaveReviewerResult(p)
    <3>1. /\ UNCHANGED states /\ run[p].pc \in {"save_result", "save_review"}
          /\ run' = [run EXCEPT ![p].pc = "save"]
      BY <2>13 DEF SaveWorkerResult, SaveReviewerResult
    <3> QED
      BY <1>1, <3>1, PcIsFresh
  <2>14. CASE ReviewerReturns(p)
    <3>1. UNCHANGED states /\ run[p].pc = "reviewer"
      BY <2>14 DEF ReviewerReturns, store
    <3>2. ASSUME NEW res, NEW n,
                 run' = [run EXCEPT ![p].pc = "save_review", ![p].review = res, ![p].next = n]
          PROVE  Fresh'
      <4> DEFINE r == [run[p] EXCEPT !.pc = "save_review", !.review = res, !.next = n]
      <4>1. run' = [run EXCEPT ![p] = r]
        BY <3>2, Zenon
      <4>2. r.pc = "save_review" /\ r.base = run[p].base /\ r.ticket = run[p].ticket
        BY <1>1 DEF RunsOK, Runs
      <4> HIDE DEF r
      <4> QED
        BY <1>1, <3>1, <4>1, <4>2, BaseIsFresh
    <3> QED
      BY <1>1, <2>14, <3>1, <3>2, ToSaveIsFresh DEF ReviewerReturns
  <2>15. CASE LoadEvidence(p)
    <3>1. UNCHANGED states /\ run[p].pc \in {"save_result", "save_review"}
      BY <2>15 DEF LoadEvidence, store
    <3>2. PICK ev : run' = [run EXCEPT ![p].pc = "replace_evidence", ![p].record = ev]
      BY <2>15 DEF LoadEvidence
    <3> DEFINE r == [run[p] EXCEPT !.pc = "replace_evidence", !.record = ev]
    <3>3. run' = [run EXCEPT ![p] = r]
      BY <3>2, Zenon
    <3>4. r.pc = "replace_evidence" /\ r.base = run[p].base /\ r.ticket = run[p].ticket
      BY <1>1 DEF RunsOK, Runs
    <3> HIDE DEF r
    <3> QED
      BY <1>1, <3>1, <3>3, <3>4, BaseIsFresh
  <2>16. CASE ReplaceEvidence(p)
    <3>1. UNCHANGED states /\ run[p].pc = "replace_evidence"
      BY <2>16 DEF ReplaceEvidence
    <3> DEFINE r == [run[p] EXCEPT !.pc = "save", !.record = NoEvidence]
    <3>2. run' = [run EXCEPT ![p] = r]
      BY <2>16, Zenon DEF ReplaceEvidence
    <3>3. r.pc = "save" /\ r.base = run[p].base /\ r.ticket = run[p].ticket
      BY <1>1 DEF RunsOK, Runs
    <3> HIDE DEF r
    <3> QED
      BY <1>1, <3>1, <3>2, <3>3, BaseIsFresh
  <2> QED
    BY <1>3, <2>1, <2>2, <2>3, <2>4, <2>5, <2>6, <2>7, <2>8, <2>9, <2>10, <2>11, <2>12,
       <2>13, <2>14, <2>15, <2>16 DEF Step
<1>4. ASSUME NEW p \in Procs, Crash(p) PROVE Fresh'
  BY <1>1, <1>4, IdleIsFresh DEF Crash, store
<1>5. ASSUME NEW t \in Tickets, World(t) PROVE UNCHANGED <<states, run>>
  BY <1>5
  DEF World, OrphanPersists, OrphanDies, RecordWorkerGone, ReviewPersists,
      OrphanReviewerDies, RecordReviewerGone, ObservePullRequest, MergeExternally,
      RecordCompletion, store
<1>6. CASE UNCHANGED vars
  BY <1>2, <1>6 DEF vars, store
<1> QED
  BY <1>2, <1>3, <1>4, <1>5, <1>6 DEF Next

-----------------------------------------------------------------------------
(* The invariant is inductive.                                             *)

LEMMA InvInit == Init => IInv
<1> SUFFICES ASSUME Init PROVE IInv
  OBVIOUS
<1>1. TypeInv
  BY TypeInit
<1>2. /\ NoState.revision = 0 /\ NoState.stage = "READY" /\ NoState.attempts = 0
      /\ NoState.active = 0 /\ NoState.infra = 0 /\ NoState.reviews = 0
  BY DEF NoState
<1>3. WithinPolicy(NoState) /\ WellFormed(NoState)
  BY <1>2, RetryPolicyAssumption DEF WithinPolicy, WellFormed
<1>4. StoreInv
  <2> SUFFICES ASSUME NEW t \in Tickets
               PROVE  /\ WithinPolicy(states[t]) /\ WellFormed(states[t])
                      /\ Justified(states[t], t)
                      /\ states[t] = NoState /\ ~(states[t].revision > 0)
                      /\ tickets[t] # "DONE"
    BY DEF StoreInv
  <2>1. states[t] = NoState /\ tickets[t] = "READY"
    BY DEF Init
  <2> QED
    BY <1>2, <1>3, <2>1 DEF Justified
<1>5. EvidenceInv
  <2>1. ~NoEvidence.completed /\ NoEvidence.review.decision = "NONE"
    BY DEF NoEvidence, NoReview
  <2>2. ASSUME NEW t \in Tickets PROVE evidence[t] = NoEvidence
    BY DEF Init
  <2> QED
    BY <2>1, <2>2 DEF EvidenceInv, TrueRecord, Endorsed
<1>6. MemoryInv /\ FreshInv
  <2>1. ASSUME NEW p \in Procs PROVE Remembers(run[p]) /\ LoadedIsCurrent(run[p])
    <3>1. run[p].pc = "idle"
      BY DEF Init, Idle
    <3> QED
      BY <3>1
      DEF Remembers, LoadedIsCurrent, StageFits, NextFollows, Computing, Holding, Saved
  <2> QED
    BY <2>1 DEF MemoryInv, FreshInv
<1> QED
  BY <1>1, <1>4, <1>5, <1>6 DEF IInv

LEMMA InvStep ==
  ASSUME IInv, [Next]_vars
  PROVE  IInv'
<1>1. TypeInv /\ RunsOK /\ StoreInv /\ EvidenceInv /\ MemoryInv
  BY DEF IInv, TypeInv, TypeOK, RunsOK
<1>2. TypeInv' /\ Grows
  BY <1>1, TypeStep, NextGrows
<1>3. /\ claims \in [Tickets -> Procs \cup {NoOne}]
      /\ states \in [Tickets -> WorkflowStates]
      /\ endorsed \in [Tickets -> SUBSET Commits]
  BY <1>1 DEF TypeInv, TypeOK
<1>4. SUFFICES StoreInv' /\ EvidenceInv' /\ MemoryInv'
  BY <1>1, <1>2, FreshStep DEF IInv, FreshInv, Fresh, SavesApart
<1>5. CASE UNCHANGED vars
  BY <1>1, <1>2, <1>5, StoreKept, EvidenceKept, AllRemember DEF vars, store, world
<1>6. UNCHANGED store => StoreInv'
  BY <1>1, <1>2, StoreKept DEF store
<1>7. UNCHANGED <<evidence, orphans>> => EvidenceInv'
  BY <1>1, <1>2, EvidenceKept
<1>8. ASSUME NEW p \in Procs, Step(p) PROVE StoreInv' /\ EvidenceInv' /\ MemoryInv'
  <2>1. CASE RunOnce(p)
    BY <1>1, <1>2, <1>3, <1>6, <1>7, <2>1, RunOnceRemembers DEF RunOnce, store, world
  <2>2. CASE SelectTicket(p)
    BY <1>1, <1>2, <1>6, <1>7, <2>2, SelectTicketRemembers DEF SelectTicket, store, world
  <2>3. CASE AcquireClaim(p)
    BY <1>1, <1>2, <1>3, <1>7, <2>3, AcquireClaimRemembers DEF AcquireClaim, world
  <2>4. CASE ReconcileCompletion(p) \/ ReconcileWorker(p) \/ ReconcileReviewer(p)
    <3>1. UNCHANGED <<store, world>>
      BY <2>4 DEF ReconcileCompletion, ReconcileWorker, ReconcileReviewer
    <3> QED
      BY <1>1, <1>2, <1>6, <1>7, <2>4, <3>1, ReconcileRemembers DEF store, world
  <2>5. CASE ReconcileNothing(p)
    BY <1>1, <1>2, <1>6, <1>7, <2>5, ReconcileNothingRemembers
    DEF ReconcileNothing, store, world
  <2>6. CASE DispatchWorker(p) \/ DispatchReviewer(p)
    <3>1. UNCHANGED <<store, world>>
      BY <2>6 DEF DispatchWorker, DispatchReviewer
    <3> QED
      BY <1>1, <1>2, <1>6, <1>7, <2>6, <3>1, DispatchRemembers DEF store, world
  <2>7. CASE CompareFails(p)
    BY <1>1, <1>2, <1>6, <1>7, <2>7, IdleRemembers DEF CompareFails, store, world
  <2>8. CASE CompareAndSet(p) \/ ReplaceState(p)
    BY <1>1, <1>2, <1>3, <1>7, <2>8, WritesAre, WriteKeeps DEF Writes, world
  <2>9. CASE CompareRevision(p)
    BY <1>1, <1>2, <1>6, <1>7, <2>9, GoesOnHolding DEF CompareRevision, Holding, store, world
  <2>10. CASE LoadEvidence(p)
    BY <1>1, <1>2, <1>6, <1>7, <2>10, LoadEvidenceKeeps DEF LoadEvidence, store, world
  <2>11. CASE SetTicketStatus(p)
    BY <1>1, <1>2, <1>7, <2>11, SetTicketStatusKeeps DEF SetTicketStatus, world
  <2>12. CASE WorkerReturns(p) \/ WorkerRaises(p)
    <3>1. UNCHANGED <<store, orphans>>
      BY <2>12 DEF WorkerReturns, WorkerRaises, world
    <3> QED
      BY <1>1, <1>2, <1>6, <1>7, <2>12, <3>1, WorkerAnswersRemembers DEF store
  <2>13. CASE SaveWorkerResult(p) \/ SaveReviewerResult(p)
    <3>1. UNCHANGED <<claims, states, tickets, orphans, merged, endorsed>>
      BY <2>13 DEF SaveWorkerResult, SaveReviewerResult, world
    <3> QED
      BY <1>1, <1>2, <2>13, <3>1, SaveResultKeeps, StoreKept
  <2>14. CASE ReviewerReturns(p) \/ ReviewerRaises(p)
    <3>1. UNCHANGED <<store, orphans>>
      BY <2>14 DEF ReviewerReturns, ReviewerRaises
    <3> QED
      BY <1>1, <1>2, <1>3, <1>6, <1>7, <2>14, <3>1, ReviewerAnswersRemembers DEF store
  <2>15. CASE ReplaceEvidence(p)
    <3>1. UNCHANGED <<claims, states, tickets, orphans, merged, endorsed>>
      BY <2>15 DEF ReplaceEvidence, world
    <3> QED
      BY <1>1, <1>2, <2>15, <3>1, ReplaceEvidenceKeeps, StoreKept
  <2> QED
    BY <1>8, <2>1, <2>2, <2>3, <2>4, <2>5, <2>6, <2>7, <2>8, <2>9, <2>10, <2>11, <2>12,
       <2>13, <2>14, <2>15 DEF Step
<1>9. ASSUME NEW p \in Procs, Crash(p) PROVE StoreInv' /\ EvidenceInv' /\ MemoryInv'
  BY <1>1, <1>2, <1>9, CrashKeeps
<1>10. ASSUME NEW t \in Tickets, World(t) PROVE StoreInv' /\ EvidenceInv' /\ MemoryInv'
  BY <1>1, <1>2, <1>10, WorldKeeps
<1> QED
  BY <1>5, <1>8, <1>9, <1>10 DEF Next

(* The inductive invariant holds of every run over either backend          *)
(* (InMemoryBackend, RepositoryStateBackend).                              *)
THEOREM Invariant == Spec => []IInv
<1>1. IInv /\ [Next]_vars => IInv'
  BY InvStep
<1> QED
  BY <1>1, InvInit, PTL DEF Spec

-----------------------------------------------------------------------------
(* What follows for both backends.                                         *)

(* A saved state belongs to the invocation that holds the claim file       *)
(* (claim_next, save_state).                                               *)
THEOREM Ownership == Spec => []StateBelongsToClaimant
<1>1. IInv => StateBelongsToClaimant
  BY DEF IInv, StoreInv, Owned, StateBelongsToClaimant
<1> QED
  BY <1>1, Invariant, PTL

(* Whatever numbers the recorded results carry, no worker works beyond the *)
(* last attempt and a workflow that used up a budget is BLOCKED            *)
(* (_dispatch_worker, _worker_failure, _review_failure).                   *)
THEOREM BoundedRetries == Spec => []RetriesWithinPolicy
<1>1. ASSUME IInv PROVE RetriesWithinPolicy
  <2> SUFFICES ASSUME NEW t \in Tickets, NEW s, s = states[t], s \in WorkflowStates,
                      WithinPolicy(s)
               PROVE  RetriesWithinPolicy!(t)
    BY <1>1 DEF IInv, StoreInv, TypeInv, TypeOK, RetriesWithinPolicy
  <2> QED
    BY Fields, RetryPolicyAssumption DEF WithinPolicy
<1> QED
  BY <1>1, Invariant, PTL

(* Only what was completed outside is called completed (reconcile).        *)
THEOREM ExternalCompletion == Spec => []CompletionIsExternal
<1>1. IInv => CompletionIsExternal
  BY DEF IInv, StoreInv, Justified, CompletionIsExternal
<1> QED
  BY <1>1, Invariant, PTL

(* Only a commit that a reviewer endorsed is approved                      *)
(* (_handle_review_result, validate_for_posting).                          *)
THEOREM BackedApproval == Spec => []ApprovalIsBacked
<1>1. IInv => ApprovalIsBacked
  BY DEF IInv, StoreInv, Justified, ApprovalIsBacked
<1> QED
  BY <1>1, Invariant, PTL

-----------------------------------------------------------------------------
(* What follows where saves cannot overlap: over the store that locks, or  *)
(* for one invocation at a time over the repository's.                     *)

(* How a step may change the states: not at all, or by one computed        *)
(* successor of the state that it replaces.                                *)
LEMMA StatesFollow ==
  ASSUME SavesApart, IInv, [Next]_vars
  PROVE  \/ UNCHANGED states
         \/ \E t \in Tickets, n \in WorkflowStates :
              /\ states' = [states EXCEPT ![t] = n] /\ UNCHANGED merged
              /\ Follows(states[t], n)
              /\ n.stage = "COMPLETED" => merged[t]
<1>1. RunsOK /\ MemoryInv /\ Fresh
  BY DEF IInv, TypeInv, TypeOK, RunsOK, FreshInv, Fresh
<1>2. ASSUME NEW p \in Procs, CompareAndSet(p) \/ ReplaceState(p)
      PROVE  \E t \in Tickets, n \in WorkflowStates :
               /\ states' = [states EXCEPT ![t] = n] /\ UNCHANGED merged
               /\ Follows(states[t], n)
               /\ n.stage = "COMPLETED" => merged[t]
  <2> DEFINE t == run[p].ticket
             n == run[p].next
  <2>1. Writes(p)
    BY <1>2, WritesAre
  <2>2. t \in Tickets /\ n \in WorkflowStates /\ Justified(n, t)
    BY <1>1, <2>1, WriteIsSound DEF Writes, Holding
  <2>3. Follows(states[t], n)
    BY <1>1, <1>2, WriteFollows
  <2>4. states' = [states EXCEPT ![t] = n] /\ UNCHANGED merged
    BY <2>1 DEF Writes, world
  <2> QED
    BY <2>2, <2>3, <2>4 DEF Justified
<1> QED
  BY <1>2, WhoChanges

(* Each saved state is computed from the one it replaces (save_state).     *)
THEOREM NoUpdateLost ==
  ASSUME SavesApart
  PROVE  Spec => NoLostUpdate
<1> DEFINE A == \A t \in Tickets : states'[t] # states[t] =>
                  /\ states'[t].revision = states[t].revision + 1
                  /\ states'[t].stage \in LegalTransitions[states[t].stage]
<1>1. ASSUME IInv, [Next]_vars PROVE [A]_states
  <2>1. ASSUME NEW u \in Tickets, NEW n \in WorkflowStates,
               states' = [states EXCEPT ![u] = n], Follows(states[u], n)
        PROVE  A
    <3> SUFFICES ASSUME NEW t \in Tickets, states'[t] # states[t]
                 PROVE  /\ states'[t].revision = states[t].revision + 1
                        /\ states'[t].stage \in LegalTransitions[states[t].stage]
      OBVIOUS
    <3>1. states \in [Tickets -> WorkflowStates]
      BY <1>1 DEF IInv, TypeInv, TypeOK
    <3>2. t = u /\ states'[t] = n
      BY <2>1, <3>1
    <3> QED
      BY <2>1, <3>2 DEF Follows
  <2> QED
    BY <1>1, <2>1, StatesFollow
<1>2. IInv /\ [Next]_vars => [A]_states
  BY <1>1
<1>3. []IInv /\ [][Next]_vars => [][A]_states
  BY <1>2, PTL
<1> QED
  BY <1>3, Invariant, PTL DEF Spec, NoLostUpdate

(* The whole orchestrator implements TicketLifecycle: every step is one    *)
(* lifecycle step of one ticket, a merge, or invisible.                    *)
THEOREM Refinement ==
  ASSUME SavesApart
  PROVE  Spec => ImplementsLifecycle
<1> DEFINE W == [t \in Tickets |-> View(states[t])]
<1>1. Init => Lifecycle!Init
  <2> SUFFICES ASSUME Init PROVE Lifecycle!Init
    OBVIOUS
  <2>1. View(NoState) = Lifecycle!Unclaimed
    BY DEF View, NoState, Lifecycle!Unclaimed
  <2>2. \A t \in Tickets : states[t] = NoState
    BY DEF Init
  <2>3. merged = [t \in Tickets |-> FALSE]
    BY DEF Init
  <2> QED
    BY <2>1, <2>2, <2>3, Zenon DEF Lifecycle!Init
<1>2. ASSUME IInv, [Next]_vars PROVE [Lifecycle!Next]_(Lifecycle!vars)
  <2>1. /\ states \in [Tickets -> WorkflowStates]
        /\ merged \in [Tickets -> BOOLEAN] /\ merged' \in [Tickets -> BOOLEAN]
    BY <1>2, TypeStep DEF IInv, TypeInv, TypeOK
  <2>2. ASSUME NEW t \in Tickets, NEW n \in WorkflowStates,
               states' = [states EXCEPT ![t] = n], UNCHANGED merged,
               Follows(states[t], n), n.stage = "COMPLETED" => merged[t]
        PROVE  Lifecycle!Next
    <3>1. W[t] = View(states[t]) /\ W'[t] = View(n)
      BY <2>1, <2>2 DEF View
    <3>2. \A u \in Tickets : u # t => W'[u] = W[u]
      BY <2>1, <2>2 DEF View
    <3>3. W' = [W EXCEPT ![t] = W'[t]]
      BY <3>2
    <3>4. Lifecycle!Successor(W[t], W'[t])
      BY <2>2, <3>1 DEF Follows
    <3>5. W'[t].stage = "COMPLETED" => merged[t]
      BY <2>2, <3>1 DEF View
    <3>6. Lifecycle!Advance(t)
      BY <2>2, <3>3, <3>4, <3>5 DEF Lifecycle!Advance
    <3> QED
      BY <3>6 DEF Lifecycle!Next
  <2>3. ASSUME UNCHANGED states, UNCHANGED merged PROVE UNCHANGED Lifecycle!vars
    BY <2>3 DEF Lifecycle!vars
  <2>4. ASSUME NEW t \in Tickets, MergeExternally(t) PROVE Lifecycle!Next
    <3>1. Lifecycle!Merge(t)
      BY <2>4 DEF MergeExternally, Lifecycle!Merge
    <3> QED
      BY <3>1 DEF Lifecycle!Next
  <2>5. UNCHANGED merged \/ \E t \in Tickets : MergeExternally(t)
    BY <1>2, WhoChanges
  <2> QED
    BY <1>2, <2>2, <2>3, <2>4, <2>5, StatesFollow
<1>3. []IInv /\ [][Next]_vars => [][Lifecycle!Next]_(Lifecycle!vars)
  BY <1>2, PTL
<1> QED
  BY <1>1, <1>3, Invariant, PTL DEF Spec, ImplementsLifecycle, Lifecycle!Spec
=============================================================================
