--------------------------- MODULE TicketLifecycle ---------------------------
(***************************************************************************)
(* What the orchestrator promises about each ticket, whoever runs it and   *)
(* however often it is restarted: the workflow moves along the stages of   *)
(* the README's diagram, one retry budget is charged at a time and never   *)
(* refunded, exhaustion ends in BLOCKED, only a review ends in approval,   *)
(* and only outside completion ends in COMPLETED.                          *)
(*                                                                         *)
(* There is no store, no invocation and no evidence here: a step replaces  *)
(* the whole workflow w of one ticket by its successor n.                  *)
(***************************************************************************)
EXTENDS Naturals

CONSTANTS Tickets, MaxWorkerAttempts, MaxInfrastructureRetries, MaxReviewerRetries

VARIABLES
  workflow, \* workflow[t]: stage, and what is charged to each retry budget
  merged    \* merged[t]: t's work was completed outside

vars == <<workflow, merged>>

Unclaimed == [stage |-> "READY", attempts |-> 0, infra |-> 0, reviews |-> 0]

Init ==
  /\ workflow = [t \in Tickets |-> Unclaimed]
  /\ merged = [t \in Tickets |-> FALSE]

(* The workflow moves to a stage; at most one budget is charged, and stays *)
(* within the given limit.                                                 *)
To(w, stage) == [w EXCEPT !.stage = stage]

ChargesAttempts(w, n, stage, limit) ==
  \E k \in w.attempts..limit : n = [To(w, stage) EXCEPT !.attempts = k]

ChargesInfra(w, n, stage, limit) ==
  w.infra < limit /\ n = [To(w, stage) EXCEPT !.infra = @ + 1]

ChargesReviews(w, n, stage, limit) ==
  w.reviews < limit /\ n = [To(w, stage) EXCEPT !.reviews = @ + 1]

Claim(w, n) == w.stage = "READY" /\ n = To(w, "CLAIMED")

StartWorker(w, n) ==
  /\ w.stage \in {"CLAIMED", "WORKER_FAILED", "CHANGES_REQUESTED"}
  /\ w.attempts < MaxWorkerAttempts
  /\ n = To(w, "WORKER_RUNNING")

WorkerFails(w, n) ==
  /\ w.stage = "WORKER_RUNNING"
  /\ \/ ChargesAttempts(w, n, "WORKER_FAILED", MaxWorkerAttempts - 1)
     \/ ChargesInfra(w, n, "WORKER_FAILED", MaxInfrastructureRetries - 1)

WorkerDelivers(w, n) ==
  /\ w.stage = "WORKER_RUNNING"
  /\ w.attempts < MaxWorkerAttempts
  /\ n = [To(w, "REVIEW_PENDING") EXCEPT !.attempts = @ + 1]

StartReview(w, n) == w.stage = "REVIEW_PENDING" /\ n = To(w, "REVIEW_RUNNING")

ReviewFails(w, n) ==
  /\ w.stage \in {"REVIEW_PENDING", "REVIEW_RUNNING"}
  /\ \/ ChargesInfra(w, n, "REVIEW_PENDING", MaxInfrastructureRetries - 1)
     \/ ChargesReviews(w, n, "REVIEW_PENDING", MaxReviewerRetries - 1)
     \/ w.stage = "REVIEW_RUNNING" /\ n = To(w, "REVIEW_PENDING")

Decide(w, n) ==
  /\ w.stage = "REVIEW_RUNNING"
  /\ n \in {To(w, "CHANGES_REQUESTED"), To(w, "APPROVED_AWAITING_MERGE")}

(* A result that blocks a running worker's ticket may charge any number of *)
(* attempts.                                                               *)
GiveUpWorking(w, n) ==
  \/ /\ w.stage \in {"CLAIMED", "WORKER_RUNNING", "WORKER_FAILED", "CHANGES_REQUESTED"}
     /\ \/ n = To(w, "BLOCKED")
        \/ ChargesInfra(w, n, "BLOCKED", MaxInfrastructureRetries)
  \/ /\ w.stage = "WORKER_RUNNING"
     /\ n.attempts >= w.attempts
     /\ n = [To(w, "BLOCKED") EXCEPT !.attempts = n.attempts]

GiveUpReviewing(w, n) ==
  /\ w.stage \in {"REVIEW_PENDING", "REVIEW_RUNNING"}
  /\ \/ ChargesInfra(w, n, "BLOCKED", MaxInfrastructureRetries)
     \/ ChargesReviews(w, n, "BLOCKED", MaxReviewerRetries)

Complete(w, n) ==
  /\ w.stage \notin {"READY", "BLOCKED", "COMPLETED"}
  /\ n = To(w, "COMPLETED")

Successor(w, n) ==
  \/ Claim(w, n) \/ StartWorker(w, n) \/ WorkerFails(w, n) \/ WorkerDelivers(w, n)
  \/ StartReview(w, n) \/ ReviewFails(w, n) \/ Decide(w, n)
  \/ GiveUpWorking(w, n) \/ GiveUpReviewing(w, n) \/ Complete(w, n)

Advance(t) ==
  /\ Successor(workflow[t], workflow'[t])
  /\ workflow'[t].stage = "COMPLETED" => merged[t]
  /\ workflow' = [workflow EXCEPT ![t] = workflow'[t]]
  /\ UNCHANGED merged

Merge(t) ==
  /\ ~merged[t]
  /\ merged' = [merged EXCEPT ![t] = TRUE]
  /\ UNCHANGED workflow

Next == \E t \in Tickets : Advance(t) \/ Merge(t)

Spec == Init /\ [][Next]_vars
=============================================================================
