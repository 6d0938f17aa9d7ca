------------------------ MODULE OrchestratorInductive ------------------------
(***************************************************************************)
(* The inductive invariant behind the theorems of OrchestratorProofs, with *)
(* its parts named.  It holds for both backends: what invocations may do   *)
(* to each other's updates, they only ever save states that are within     *)
(* policy, justified and the claimant's.  FreshInv adds, where saves       *)
(* cannot overlap, that the revision an invocation loaded identifies the   *)
(* state it loaded, so a compare on revisions alone compares states.       *)
(***************************************************************************)
EXTENDS Orchestrator

(* An invocation past selection has a ticket; with the types, this is      *)
(* inductive for both backends.                                            *)
HasTicket(p) == run[p].pc \notin {"idle", "select"}

TypeInv == TypeOK /\ \A p \in Procs : HasTicket(p) => run[p].ticket \in Tickets

(* The budgets of one state; a running worker works on the next attempt,   *)
(* and the attempts pass their limit only in a blocked workflow.           *)
WithinPolicy(s) ==
  /\ s.attempts <= MaxWorkerAttempts \/ s.stage = "BLOCKED"
  /\ s.active <= MaxWorkerAttempts
  /\ s.infra <= MaxInfrastructureRetries
  /\ s.reviews <= MaxReviewerRetries
  /\ s.infra = MaxInfrastructureRetries => s.stage = "BLOCKED"
  /\ s.reviews = MaxReviewerRetries => s.stage = "BLOCKED"
  /\ s.stage \in {"WORKER_RUNNING", "WORKER_FAILED"} => s.attempts < MaxWorkerAttempts
  /\ s.stage = "WORKER_RUNNING" => s.active = s.attempts + 1

(* A state file exists from revision 1 on, and never says READY.           *)
WellFormed(s) == s.stage = "READY" <=> s.revision = 0

(* What a state of ticket t claims about the world is true.                *)
Justified(s, t) ==
  /\ s.stage = "COMPLETED" => merged[t]
  /\ s.stage = "APPROVED_AWAITING_MERGE" => s.commit \in endorsed[t]

(* The claim file names the owner of s.                                    *)
Owned(s, t) == claims[t] # NoOne /\ s.owner = claims[t]

Endorsed(r, t) == r.valid /\ r.decision = "APPROVE" => r.commit \in endorsed[t]

(* Every saved state is within policy, justified and the claimant's.       *)
StoreInv ==
  \A t \in Tickets :
    /\ WithinPolicy(states[t])
    /\ WellFormed(states[t])
    /\ Justified(states[t], t)
    /\ states[t].revision = 0 => states[t] = NoState
    /\ states[t].revision > 0 => Owned(states[t], t)
    /\ tickets[t] = "DONE" => merged[t]

(* A record's completion and its approval are true; the numbers that its   *)
(* worker results carry may be any.                                        *)
TrueRecord(ev, t) ==
  /\ ev.completed => merged[t]
  /\ Endorsed(ev.review, t)

EvidenceInv == \A t \in Tickets : TrueRecord(evidence[t], t)

(* Invocations that compute from base, that hold a computed successor, and *)
(* that have saved it.                                                     *)
Computing(r) == r.pc \in {"reconcile", "dispatch", "worker", "reviewer"}
Holding(r) ==
  r.pc \in {"save", "replace", "save_result", "save_review", "replace_evidence"}
Saved(r) == r.pc = "status"

(* Where an invocation is fits the stage it works on.                      *)
StageFits(r) ==
  /\ Computing(r) => /\ WithinPolicy(r.base) /\ WellFormed(r.base)
                     /\ r.base.revision > 0 /\ Owned(r.base, r.ticket)
  /\ r.pc \in {"select", "acquire"} => r.base = NoState
  /\ r.pc = "reconcile" => r.base.stage \notin TerminalStages
  /\ r.pc = "dispatch" =>
       r.base.stage \in {"CLAIMED", "WORKER_FAILED", "CHANGES_REQUESTED", "REVIEW_PENDING"}
  /\ r.pc = "worker" => r.base.stage = "WORKER_RUNNING"
  /\ r.pc = "reviewer" => r.base.stage = "REVIEW_RUNNING"
  /\ r.pc = "replace" => ~AtomicCas
  /\ r.pc = "save_review" => Endorsed(r.review, r.ticket)
  /\ r.pc = "replace_evidence" => TrueRecord(r.record, r.ticket)

(* s may be followed by n: n is a lifecycle successor of s, one revision   *)
(* later, of the same owner, and within policy.                            *)
Follows(s, n) ==
  /\ n.revision = s.revision + 1
  /\ Lifecycle!Successor(View(s), View(n))
  /\ n.stage \in LegalTransitions[s.stage]
  /\ WithinPolicy(n)
  /\ WellFormed(n)
  /\ s.revision > 0 => n.owner = s.owner

NextFollows(r) ==
  /\ Holding(r) => Follows(r.base, r.next)
  /\ Holding(r) /\ r.base.revision = 0 => r.base = NoState
  /\ Holding(r) \/ Saved(r) =>
       /\ WithinPolicy(r.next) /\ WellFormed(r.next) /\ r.next.revision > 0
       /\ Justified(r.next, r.ticket) /\ Owned(r.next, r.ticket)
  /\ Computing(r) \/ Saved(r) \/ (Holding(r) /\ r.base.revision > 0) =>
       states[r.ticket].revision > 0

Remembers(r) == StageFits(r) /\ NextFollows(r)

MemoryInv == \A p \in Procs : Remembers(run[p])

(* No invocation can save between another's comparison and its write.      *)
SavesApart == AtomicCas \/ \A p, q \in Procs : p = q

(* The state that an invocation takes to be the present one is the present *)
(* one, or an older one.                                                   *)
Current(s, t) ==
  /\ s.revision <= states[t].revision
  /\ s.revision = states[t].revision => s = states[t]

LoadedIsCurrent(r) ==
  /\ Computing(r) \/ Holding(r) => Current(r.base, r.ticket)
  /\ r.pc = "replace" => r.base = states[r.ticket]
  /\ Saved(r) => Current(r.next, r.ticket)

FreshInv == SavesApart => \A p \in Procs : LoadedIsCurrent(run[p])

IInv ==
  /\ TypeInv
  /\ StoreInv
  /\ EvidenceInv
  /\ MemoryInv
  /\ FreshInv
=============================================================================
