-------------------------- MODULE OrchestratorProofs --------------------------
(***************************************************************************)
(* Machine-checked proofs about Orchestrator, for every set of tickets,    *)
(* invocations and commits and every retry policy.                         *)
(***************************************************************************)
EXTENDS OrchestratorInductive, TLAPS

-----------------------------------------------------------------------------
(* The computations of OrchestratorContract are well typed.                *)

LEMMA TransitionType ==
  ASSUME NEW s \in WorkflowStates, NEW stage \in Stages,
         NEW category \in FailureCategories \cup {"NONE"}
  PROVE  Transition(s, stage, category) \in WorkflowStates
<1>1. s.revision + 1 \in Nat
  BY DEF WorkflowStates
<1> QED
  BY <1>1, Zenon DEF Transition, WorkflowStates

LEMMA NoStateType == NoState \in WorkflowStates
BY DEF NoState, WorkflowStates, Stages

LEMMA ClaimedType ==
  ASSUME NEW p \in Procs
  PROVE  Claimed(p) \in WorkflowStates
<1>1. [NoState EXCEPT !.owner = p] \in WorkflowStates
  BY NoStateType, Zenon DEF WorkflowStates
<1> QED
  BY <1>1, TransitionType DEF Claimed, Stages

LEMMA BlockType ==
  ASSUME NEW s \in WorkflowStates, NEW category \in FailureCategories
  PROVE  Block(s, category) \in WorkflowStates
<1>1. [s EXCEPT !.active = 0] \in WorkflowStates
  BY Zenon, 0 \in Nat DEF WorkflowStates
<1> QED
  BY <1>1, TransitionType DEF Block, Stages

LEMMA WorkerFailureType ==
  ASSUME NEW s \in WorkflowStates, NEW category \in FailureCategories,
         NEW consume \in BOOLEAN, NEW reported \in Nat
  PROVE  WorkerFailure(s, category, consume, reported) \in WorkflowStates
<1> DEFINE attempts == IF consume /\ reported > s.attempts
                         THEN reported ELSE s.attempts
           infra == IF category = "INFRASTRUCTURE" THEN s.infra + 1 ELSE s.infra
           charged == [s EXCEPT !.attempts = attempts, !.infra = infra, !.active = 0]
<1>1. attempts \in Nat /\ infra \in Nat /\ 0 \in Nat
  BY DEF WorkflowStates
<1>2. charged \in WorkflowStates
  <2> HIDE DEF attempts, infra
  <2> QED
    BY <1>1, Zenon DEF WorkflowStates
<1>3. /\ Transition(charged, "BLOCKED", category) \in WorkflowStates
      /\ Transition(charged, "WORKER_FAILED", category) \in WorkflowStates
  <2> HIDE DEF charged
  <2> QED
    BY <1>2, TransitionType DEF Stages
<1> QED
  BY <1>3, Zenon DEF WorkerFailure

LEMMA HandleWorkerResultType ==
  ASSUME NEW s \in WorkflowStates, NEW r \in AttemptResults
  PROVE  HandleWorkerResult(s, r) \in WorkflowStates
<1>1. r.attempt \in Nat /\ r.commit \in Commits \cup {NoCommit} /\ 0 \in Nat
  BY DEF AttemptResults
<1>2. /\ WorkerFailure(s, "IMPLEMENTATION", TRUE, r.attempt) \in WorkflowStates
      /\ WorkerFailure(s, "VALIDATION", TRUE, r.attempt) \in WorkflowStates
      /\ WorkerFailure(s, "INFRASTRUCTURE", FALSE, r.attempt) \in WorkflowStates
  BY <1>1, WorkerFailureType DEF FailureCategories
<1>3. Block([s EXCEPT !.attempts = r.attempt], "IMPLEMENTATION") \in WorkflowStates
  <2>1. [s EXCEPT !.attempts = r.attempt] \in WorkflowStates
    BY <1>1, Zenon DEF WorkflowStates
  <2> QED
    BY <2>1, BlockType DEF FailureCategories
<1>4. Transition([s EXCEPT !.attempts = r.attempt, !.active = 0, !.commit = r.commit],
                 "REVIEW_PENDING", "NONE") \in WorkflowStates
  <2>1. [s EXCEPT !.attempts = r.attempt, !.active = 0, !.commit = r.commit]
          \in WorkflowStates
    BY <1>1, Zenon DEF WorkflowStates
  <2> QED
    BY <2>1, TransitionType DEF Stages
<1> QED
  BY <1>2, <1>3, <1>4 DEF HandleWorkerResult

LEMMA ReviewFailureType ==
  ASSUME NEW s \in WorkflowStates, NEW category \in FailureCategories
  PROVE  ReviewFailure(s, category) \in WorkflowStates
<1> DEFINE infra == IF category = "INFRASTRUCTURE" THEN s.infra + 1 ELSE s.infra
           reviews == IF category = "REVIEWER_EXECUTION" THEN s.reviews + 1
                                                         ELSE s.reviews
           charged == [s EXCEPT !.infra = infra, !.reviews = reviews]
<1>1. infra \in Nat /\ reviews \in Nat
  BY DEF WorkflowStates
<1>2. charged \in WorkflowStates
  <2> HIDE DEF infra, reviews
  <2> QED
    BY <1>1, Zenon DEF WorkflowStates
<1>3. /\ Block(charged, category) \in WorkflowStates
      /\ Transition(charged, "REVIEW_PENDING", category) \in WorkflowStates
  <2> HIDE DEF charged
  <2> QED
    BY <1>2, BlockType, TransitionType DEF Stages
<1> QED
  BY <1>3, Zenon DEF ReviewFailure

LEMMA HandleReviewResultType ==
  ASSUME NEW s \in WorkflowStates, NEW r
  PROVE  HandleReviewResult(s, r) \in WorkflowStates
<1>1. ReviewFailure(s, "REVIEWER_EXECUTION") \in WorkflowStates
  BY ReviewFailureType DEF FailureCategories
<1>2. /\ Transition(s, "APPROVED_AWAITING_MERGE", "NONE") \in WorkflowStates
      /\ Transition(s, "CHANGES_REQUESTED", "NONE") \in WorkflowStates
  BY TransitionType DEF Stages
<1> QED
  BY <1>1, <1>2 DEF HandleReviewResult

LEMMA RunningType ==
  ASSUME NEW s \in WorkflowStates
  PROVE  Running(s) \in WorkflowStates
<1>1. s.attempts + 1 \in Nat
  BY DEF WorkflowStates
<1>2. [s EXCEPT !.active = s.attempts + 1] \in WorkflowStates
  BY <1>1, Zenon DEF WorkflowStates
<1> QED
  BY <1>2, TransitionType DEF Running, Stages

LEMMA ReviewerContextType ==
  ASSUME NEW ev, ReviewerContext(ev) # "READY"
  PROVE  ReviewerContext(ev) \in FailureCategories
BY DEF ReviewerContext, FailureCategories

LEMMA StatusType ==
  ASSUME NEW stage \in Stages
  PROVE  TicketStatusFor(stage) \in TicketStatuses
BY DEF TicketStatusFor, TicketStatuses, Stages

LEMMA NothingType ==
  /\ NoResult \in AttemptResults
  /\ NoPackage \in Packages
  /\ NoReview \in ReviewResults
  /\ NoEvidence \in Evidences
BY DEF NoResult, NoPackage, NoReview, NoEvidence, AttemptResults, AttemptStatuses,
       Packages, ReviewResults, Evidences

LEMMA IdleType == Idle \in Runs
BY NoStateType, NothingType DEF Idle, Runs

LEMMA WithResultType ==
  ASSUME NEW ev \in Evidences, NEW r \in AttemptResults
  PROVE  WithResult(ev, r) \in Evidences
BY Zenon DEF WithResult, Evidences

LEMMA WithReviewType ==
  ASSUME NEW ev \in Evidences, NEW r \in ReviewResults
  PROVE  WithReview(ev, r) \in Evidences
BY Zenon DEF WithReview, Evidences

LEMMA ResultsOfType ==
  ASSUME NEW n \in Nat, NEW r \in ResultsOf(n)
  PROVE  r \in AttemptResults /\ r.attempt = n
BY DEF ResultsOf, AttemptResults

-----------------------------------------------------------------------------
(* Type correctness.                                                       *)

(* What every action has to say about the invocations.                     *)
RunsOK == run \in [Procs -> Runs] /\ \A p \in Procs : HasTicket(p) => run[p].ticket \in Tickets

LEMMA OneRunMoves ==
  ASSUME RunsOK, NEW p \in Procs, NEW r \in Runs,
         r.pc \notin {"idle", "select"} => r.ticket \in Tickets,
         run' = [run EXCEPT ![p] = r]
  PROVE  RunsOK'
<1>1. run' \in [Procs -> Runs]
  BY Zenon DEF RunsOK
<1>2. ASSUME NEW q \in Procs, run'[q].pc \notin {"idle", "select"}
      PROVE  run'[q].ticket \in Tickets
  <2>1. CASE q = p
    BY <2>1, <1>2, run'[p] = r DEF RunsOK
  <2>2. CASE q # p
    BY <2>2, <1>2, run'[q] = run[q] DEF RunsOK, HasTicket
  <2> QED
    BY <2>1, <2>2
<1> QED
  BY <1>1, <1>2 DEF RunsOK, HasTicket

LEMMA GoesIdle ==
  ASSUME RunsOK, NEW p \in Procs, run' = [run EXCEPT ![p] = Idle]
  PROVE  RunsOK'
BY OneRunMoves, IdleType, Idle.pc = "idle" DEF Idle

LEMMA GoesOn ==
  ASSUME RunsOK, NEW p \in Procs, HasTicket(p),
         NEW pc \in {"dispatch", "save", "replace", "status"},
         run' = [run EXCEPT ![p].pc = pc]
  PROVE  RunsOK'
<1> DEFINE r == [run[p] EXCEPT !.pc = pc]
<1>1. run[p] \in Runs /\ run[p].ticket \in Tickets
  BY DEF RunsOK
<1>2. r \in Runs /\ r.ticket = run[p].ticket
  BY <1>1, Zenon DEF Runs
<1>3. run' = [run EXCEPT ![p] = r]
  BY Zenon
<1> QED
  BY <1>1, <1>2, <1>3, OneRunMoves

LEMMA GoesToSave ==
  ASSUME RunsOK, NEW p \in Procs, HasTicket(p), NEW n \in WorkflowStates, ToSave(p, n)
  PROVE  RunsOK'
<1> DEFINE r == [run[p] EXCEPT !.pc = "save", !.next = n]
<1>1. run[p] \in Runs /\ run[p].ticket \in Tickets
  BY DEF RunsOK
<1>2. r \in Runs /\ r.ticket = run[p].ticket
  BY <1>1, Zenon DEF Runs
<1>3. run' = [run EXCEPT ![p] = r]
  BY Zenon DEF ToSave
<1> QED
  BY <1>1, <1>2, <1>3, OneRunMoves

LEMMA TypeInit == Init => TypeInv
<1> SUFFICES ASSUME Init PROVE TypeInv
  OBVIOUS
<1> USE NoStateType, NothingType, IdleType DEF Init
<1>1. /\ claims \in [Tickets -> Procs \cup {NoOne}]
      /\ states \in [Tickets -> WorkflowStates]
      /\ evidence \in [Tickets -> Evidences]
      /\ merged \in [Tickets -> BOOLEAN]
      /\ orphans \in [Tickets -> SUBSET Nat]
      /\ reviewing \in [Tickets -> SUBSET Packages]
      /\ endorsed \in [Tickets -> SUBSET Commits]
  OBVIOUS
<1>2. tickets \in [Tickets -> TicketStatuses]
  BY DEF TicketStatuses
<1>3. run \in [Procs -> Runs]
  OBVIOUS
<1>4. ASSUME NEW p \in Procs PROVE ~HasTicket(p)
  BY DEF Idle, HasTicket
<1> QED
  BY <1>1, <1>2, <1>3, <1>4 DEF TypeInv, TypeOK

(* One step, invocation by invocation and ticket by ticket.                *)
LEMMA TypeStep == TypeInv /\ [Next]_vars => TypeInv'
<1> SUFFICES ASSUME TypeInv, [Next]_vars PROVE TypeInv'
  OBVIOUS
<1> DEFINE Rest == /\ merged \in [Tickets -> BOOLEAN]
                   /\ orphans \in [Tickets -> SUBSET Nat]
                   /\ reviewing \in [Tickets -> SUBSET Packages]
                   /\ crashes \in Nat
                   /\ raises \in Nat
                   /\ endorsed \in [Tickets -> SUBSET Commits]
           Stored == /\ claims \in [Tickets -> Procs \cup {NoOne}]
                     /\ states \in [Tickets -> WorkflowStates]
                     /\ tickets \in [Tickets -> TicketStatuses]
                     /\ evidence \in [Tickets -> Evidences]
<1>1. RunsOK /\ Rest /\ Stored
  BY DEF TypeInv, TypeOK, RunsOK
<1>2. SUFFICES RunsOK' /\ Rest' /\ Stored'
  BY DEF TypeInv, TypeOK, RunsOK
<1>3. ASSUME UNCHANGED vars PROVE RunsOK' /\ Rest' /\ Stored'
  BY <1>1, <1>3 DEF vars, store, world, RunsOK, HasTicket
<1>4. ASSUME UNCHANGED store PROVE Stored'
  BY <1>1, <1>4 DEF store
<1>5. ASSUME UNCHANGED world PROVE Rest'
  BY <1>1, <1>5 DEF world
<1>6. ASSUME NEW p \in Procs, Step(p) PROVE RunsOK' /\ Rest' /\ Stored'
  <2> DEFINE t == run[p].ticket
             s == run[p].base
  <2>1. run[p] \in Runs /\ (HasTicket(p) => t \in Tickets)
    BY <1>1 DEF RunsOK
  <2>2. s \in WorkflowStates /\ run[p].next \in WorkflowStates
    BY <2>1 DEF Runs
  <2>3. ASSUME HasTicket(p)
        PROVE  /\ evidence[t] \in Evidences
               /\ evidence[t].worker \in AttemptResults
               /\ evidence[t].review \in ReviewResults
               /\ evidence[t].package \in Packages
    BY <1>1, <2>1, <2>3 DEF Evidences
  <2>4. CASE RunOnce(p)
    <3>1. RunsOK'
      <4>1. CASE run' = [run EXCEPT ![p] = [Idle EXCEPT !.pc = "select"]]
        <5>1. [Idle EXCEPT !.pc = "select"] \in Runs
          BY IdleType, Zenon DEF Runs
        <5> QED
          BY <1>1, <4>1, <5>1, OneRunMoves, [Idle EXCEPT !.pc = "select"].pc = "select"
          DEF Idle
      <4>2. ASSUME NEW u \in Active,
                   run' = [run EXCEPT ![p] = [Idle EXCEPT !.pc = "reconcile", !.ticket = u,
                                                          !.base = states[u]]]
            PROVE  RunsOK'
        <5> DEFINE r == [Idle EXCEPT !.pc = "reconcile", !.ticket = u, !.base = states[u]]
        <5>1. u \in Tickets /\ states[u] \in WorkflowStates
          BY <1>1 DEF Active
        <5>2. r \in Runs /\ r.ticket = u
          BY <5>1, IdleType, Zenon DEF Runs, Idle
        <5> QED
          BY <1>1, <4>2, <5>1, <5>2, OneRunMoves
      <4> QED
        BY <2>4, <4>1, <4>2 DEF RunOnce
    <3> QED
      BY <2>4, <3>1, <1>4, <1>5 DEF RunOnce
  <2>5. CASE SelectTicket(p)
    <3>1. RunsOK'
      <4>1. CASE run' = [run EXCEPT ![p] = Idle]
        BY <1>1, <4>1, GoesIdle
      <4>2. ASSUME NEW u \in Tickets,
                   run' = [run EXCEPT ![p].pc = "acquire", ![p].ticket = u]
            PROVE  RunsOK'
        <5> DEFINE r == [run[p] EXCEPT !.pc = "acquire", !.ticket = u]
        <5>1. r \in Runs /\ r.ticket = u
          BY <2>1, Zenon DEF Runs
        <5>2. run' = [run EXCEPT ![p] = r]
          BY <4>2, Zenon
        <5> QED
          BY <1>1, <5>1, <5>2, OneRunMoves
      <4> QED
        BY <2>5, <4>1, <4>2 DEF SelectTicket
    <3> QED
      BY <2>5, <3>1, <1>4, <1>5 DEF SelectTicket
  <2>6. CASE AcquireClaim(p)
    <3>1. t \in Tickets
      BY <2>1, <2>6 DEF AcquireClaim, HasTicket
    <3>2. RunsOK'
      <4>1. CASE run' = [run EXCEPT ![p] = Idle]
        BY <1>1, <4>1, GoesIdle
      <4>2. CASE run' = [run EXCEPT ![p].pc = "save", ![p].next = Claimed(p)]
        BY <1>1, <2>6, <4>2, ClaimedType, GoesToSave DEF AcquireClaim, HasTicket, ToSave
      <4> QED
        BY <2>6, <4>1, <4>2 DEF AcquireClaim
    <3>3. Stored'
      BY <1>1, <2>6, <3>1 DEF AcquireClaim
    <3> QED
      BY <2>6, <3>2, <3>3, <1>5 DEF AcquireClaim
  <2>7. CASE ReconcileCompletion(p)
    <3>1. Transition(s, "COMPLETED", "NONE") \in WorkflowStates
      BY <2>2, TransitionType DEF Stages
    <3> QED
      BY <1>1, <2>7, <3>1, GoesToSave, <1>4, <1>5 DEF ReconcileCompletion, HasTicket
  <2>8. CASE ReconcileWorker(p)
    <3> DEFINE r == evidence[t].worker
    <3>1. HasTicket(p)
      BY <2>8 DEF ReconcileWorker, HasTicket
    <3>2. r \in AttemptResults /\ r.attempt \in Nat
      BY <2>3, <3>1 DEF AttemptResults
    <3>3. /\ HandleWorkerResult(s, r) \in WorkflowStates
          /\ WorkerFailure(s, "VALIDATION", TRUE, r.attempt) \in WorkflowStates
          /\ WorkerFailure(s, "INFRASTRUCTURE", FALSE, 0) \in WorkflowStates
      <4> HIDE DEF r
      <4> QED
        BY <2>2, <3>2, HandleWorkerResultType, WorkerFailureType DEF FailureCategories
    <3>4. \E n \in WorkflowStates : ToSave(p, n)
      BY <2>8, <3>3, Zenon DEF ReconcileWorker
    <3> QED
      BY <1>1, <2>8, <3>1, <3>4, GoesToSave, <1>4, <1>5 DEF ReconcileWorker
  <2>9. CASE ReconcileReviewer(p)
    <3>1. HasTicket(p)
      BY <2>9 DEF ReconcileReviewer, HasTicket
    <3>2. ReviewFailure(s, "REVIEWER_EXECUTION") \in WorkflowStates
          /\ ReviewFailure(s, "INFRASTRUCTURE") \in WorkflowStates
      BY <2>2, ReviewFailureType DEF FailureCategories
    <3>3. HandleReviewResult(s, evidence[t].review) \in WorkflowStates
      BY <2>2, HandleReviewResultType
    <3>4. ReviewerContext(evidence[t]) # "READY" =>
            ReviewFailure(s, ReviewerContext(evidence[t])) \in WorkflowStates
      BY <2>2, ReviewerContextType, ReviewFailureType
    <3>5. \E n \in WorkflowStates : ToSave(p, n)
      BY <2>9, <3>2, <3>3, <3>4, Zenon DEF ReconcileReviewer
    <3> QED
      BY <1>1, <2>9, <3>1, <3>5, GoesToSave, <1>4, <1>5 DEF ReconcileReviewer
  <2>10. CASE ReconcileNothing(p)
    <3>1. HasTicket(p)
      BY <2>10 DEF ReconcileNothing, HasTicket
    <3>2. \/ run' = [run EXCEPT ![p].pc = "dispatch"]
          \/ run' = [run EXCEPT ![p] = Idle]
      BY <2>10, Zenon DEF ReconcileNothing
    <3>3. RunsOK'
      BY <1>1, <3>1, <3>2, GoesOn, GoesIdle
    <3> QED
      BY <2>10, <3>3, <1>4, <1>5 DEF ReconcileNothing
  <2>11. CASE DispatchWorker(p)
    <3>1. HasTicket(p)
      BY <2>11 DEF DispatchWorker, HasTicket
    <3>2. /\ Block(s, "VALIDATION") \in WorkflowStates
          /\ Block(s, "IMPLEMENTATION") \in WorkflowStates
          /\ Running(s) \in WorkflowStates
      BY <2>2, BlockType, RunningType DEF FailureCategories
    <3>3. \E n \in WorkflowStates : ToSave(p, n)
      BY <2>11, <3>2, Zenon DEF DispatchWorker
    <3> QED
      BY <1>1, <2>11, <3>1, <3>3, GoesToSave, <1>4, <1>5 DEF DispatchWorker
  <2>12. CASE DispatchReviewer(p)
    <3>1. HasTicket(p)
      BY <2>12 DEF DispatchReviewer, HasTicket
    <3>2. RunsOK'
      <4>1. CASE /\ ReviewerContext(evidence[t]) # "READY"
                 /\ ToSave(p, ReviewFailure(s, ReviewerContext(evidence[t])))
        BY <1>1, <2>2, <3>1, <4>1, ReviewerContextType, ReviewFailureType, GoesToSave
      <4>2. CASE run' = [run EXCEPT ![p].pc = "save",
                              ![p].next = Transition(s, "REVIEW_RUNNING", "NONE"),
                              ![p].package = evidence[t].package]
        <5> DEFINE r == [run[p] EXCEPT !.pc = "save",
                           !.next = Transition(s, "REVIEW_RUNNING", "NONE"),
                           !.package = evidence[t].package]
        <5>1. Transition(s, "REVIEW_RUNNING", "NONE") \in WorkflowStates
          BY <2>2, TransitionType DEF Stages
        <5>2. evidence[t].package \in Packages /\ t \in Tickets
          BY <2>1, <2>3, <3>1
        <5>3. r \in Runs /\ r.ticket = t
          BY <2>1, <5>1, <5>2, Zenon DEF Runs
        <5>4. run' = [run EXCEPT ![p] = r]
          BY <4>2, Zenon
        <5> QED
          BY <1>1, <5>2, <5>3, <5>4, OneRunMoves
      <4> QED
        BY <2>12, <4>1, <4>2 DEF DispatchReviewer
    <3> QED
      BY <2>12, <3>2, <1>4, <1>5 DEF DispatchReviewer
  <2>13. CASE CompareFails(p)
    BY <1>1, <2>13, GoesIdle, <1>4, <1>5 DEF CompareFails
  <2>14. ASSUME HasTicket(p), states' = [states EXCEPT ![t] = run[p].next],
                run' = [run EXCEPT ![p].pc = "status"],
                UNCHANGED <<claims, tickets, evidence, world>>
         PROVE  RunsOK' /\ Rest' /\ Stored'
    <3>1. RunsOK'
      BY <1>1, <2>14, GoesOn
    <3>2. states' \in [Tickets -> WorkflowStates]
      BY <1>1, <2>2, <2>14
    <3> QED
      BY <1>1, <2>14, <3>1, <3>2, <1>5
  <2>15. CASE CompareAndSet(p)
    BY <2>14, <2>15 DEF CompareAndSet, HasTicket
  <2>16. CASE CompareRevision(p)
    <3>1. HasTicket(p)
      BY <2>16 DEF CompareRevision, HasTicket
    <3> QED
      BY <1>1, <2>16, <3>1, GoesOn, <1>4, <1>5 DEF CompareRevision
  <2>17. CASE ReplaceState(p)
    BY <2>14, <2>17 DEF ReplaceState, HasTicket
  <2>18. CASE SetTicketStatus(p)
    <3> DEFINE next == run[p].next
               r(pc) == [run[p] EXCEPT !.pc = pc, !.base = next]
    <3>1. HasTicket(p) /\ t \in Tickets
      BY <2>1, <2>18 DEF SetTicketStatus, HasTicket
    <3>2. RunsOK'
      <4>1. r("worker") \in Runs /\ r("reviewer") \in Runs
        BY <2>1, <2>2, Zenon DEF Runs
      <4>2. r("worker").ticket = t /\ r("reviewer").ticket = t
        BY <2>1, Zenon DEF Runs
      <4>3. \/ run' = [run EXCEPT ![p] = r("worker")]
            \/ run' = [run EXCEPT ![p] = r("reviewer")]
            \/ run' = [run EXCEPT ![p] = Idle]
        BY <2>18, Zenon DEF SetTicketStatus
      <4> HIDE DEF r
      <4> QED
        BY <1>1, <3>1, <4>1, <4>2, <4>3, OneRunMoves, GoesIdle
    <3>3. TicketStatusFor(next.stage) \in TicketStatuses
      BY <2>2, StatusType DEF WorkflowStates
    <3>4. tickets' \in [Tickets -> TicketStatuses]
      BY <1>1, <2>18, <3>3 DEF SetTicketStatus
    <3> QED
      BY <1>1, <2>18, <3>2, <3>4, <1>5 DEF SetTicketStatus
  <2>19. CASE WorkerReturns(p)
    <3>1. HasTicket(p) /\ t \in Tickets
      BY <2>1, <2>19 DEF WorkerReturns, HasTicket
    <3>2. PICK res \in ResultsOf(s.active) :
            run' = [run EXCEPT ![p].pc = "save_result", ![p].result = res,
                               ![p].next = HandleWorkerResult(s, res)]
      BY <2>19 DEF WorkerReturns
    <3> DEFINE r == [run[p] EXCEPT !.pc = "save_result", !.result = res,
                                   !.next = HandleWorkerResult(s, res)]
    <3>3. s.active \in Nat
      BY <2>2 DEF WorkflowStates
    <3>4. res \in AttemptResults
      BY <3>3, ResultsOfType
    <3>5. HandleWorkerResult(s, res) \in WorkflowStates
      BY <2>2, <3>4, HandleWorkerResultType
    <3>6. r \in Runs /\ r.ticket = t
      BY <2>1, <3>4, <3>5, Zenon DEF Runs
    <3>7. run' = [run EXCEPT ![p] = r]
      BY <3>2, Zenon
    <3>8. RunsOK'
      BY <1>1, <3>1, <3>6, <3>7, OneRunMoves
    <3> QED
      BY <2>19, <3>8, <1>4, <1>5 DEF WorkerReturns
  <2>20. CASE WorkerRaises(p)
    <3>1. HasTicket(p)
      BY <2>20 DEF WorkerRaises, HasTicket
    <3>2. PICK category \in FailureCategories :
            ToSave(p, WorkerFailure(s, category, category # "INFRASTRUCTURE", 0))
      BY <2>20 DEF WorkerRaises
    <3>3. WorkerFailure(s, category, category # "INFRASTRUCTURE", 0) \in WorkflowStates
      BY <2>2, WorkerFailureType
    <3>4. RunsOK'
      BY <1>1, <3>1, <3>2, <3>3, GoesToSave
    <3>5. Rest'
      BY <1>1, <2>20 DEF WorkerRaises
    <3> QED
      BY <2>20, <3>4, <3>5, <1>4 DEF WorkerRaises
  <2>21. CASE SaveWorkerResult(p)
    <3>1. HasTicket(p) /\ t \in Tickets /\ run[p].result \in AttemptResults
      BY <2>1, <2>21 DEF SaveWorkerResult, HasTicket, Runs
    <3>2. RunsOK'
      BY <1>1, <2>21, <3>1, GoesOn DEF SaveWorkerResult
    <3>3. WithResult(evidence[t], run[p].result) \in Evidences
      BY <2>3, <3>1, WithResultType
    <3>4. evidence' = [evidence EXCEPT ![t] = WithResult(@, run[p].result)]
      BY <2>21, Zenon DEF SaveWorkerResult
    <3>5. evidence' \in [Tickets -> Evidences]
      BY <1>1, <3>3, <3>4
    <3> QED
      BY <1>1, <2>21, <3>2, <3>5, <1>5 DEF SaveWorkerResult
  <2>22. CASE ReviewerReturns(p)
    <3>1. HasTicket(p) /\ t \in Tickets
      BY <2>1, <2>22 DEF ReviewerReturns, HasTicket
    <3>2. PICK res \in Reviews :
            /\ IF ValidForPosting(run[p].package, res)
                 THEN run' = [run EXCEPT ![p].pc = "save_review", ![p].review = res,
                                         ![p].next = HandleReviewResult(s, res)]
                 ELSE ToSave(p, ReviewFailure(s, "REVIEWER_EXECUTION"))
            /\ Endorse(t, res)
      BY <2>22 DEF ReviewerReturns
    <3>3. RunsOK'
      <4>1. CASE ToSave(p, ReviewFailure(s, "REVIEWER_EXECUTION"))
        BY <1>1, <2>2, <3>1, <4>1, ReviewFailureType, GoesToSave DEF FailureCategories
      <4>2. CASE run' = [run EXCEPT ![p].pc = "save_review", ![p].review = res,
                                    ![p].next = HandleReviewResult(s, res)]
        <5> DEFINE r == [run[p] EXCEPT !.pc = "save_review", !.review = res,
                                       !.next = HandleReviewResult(s, res)]
        <5>1. res \in ReviewResults
          BY DEF Reviews, ReviewResults
        <5>2. HandleReviewResult(s, res) \in WorkflowStates
          BY <2>2, HandleReviewResultType
        <5>3. r \in Runs /\ r.ticket = t
          BY <2>1, <5>1, <5>2, Zenon DEF Runs
        <5>4. run' = [run EXCEPT ![p] = r]
          BY <4>2, Zenon
        <5> QED
          BY <1>1, <3>1, <5>3, <5>4, OneRunMoves
      <4> QED
        BY <3>2, <4>1, <4>2
    <3>4. endorsed' \in [Tickets -> SUBSET Commits]
      BY <1>1, <3>1, <3>2 DEF Endorse, Reviews
    <3> QED
      BY <1>1, <2>22, <3>3, <3>4, <1>4 DEF ReviewerReturns
  <2>23. CASE ReviewerRaises(p)
    <3>1. HasTicket(p)
      BY <2>23 DEF ReviewerRaises, HasTicket
    <3>2. PICK category \in FailureCategories : ToSave(p, ReviewFailure(s, category))
      BY <2>23 DEF ReviewerRaises
    <3>3. RunsOK'
      BY <1>1, <2>2, <3>1, <3>2, ReviewFailureType, GoesToSave
    <3>4. Rest'
      BY <1>1, <2>23 DEF ReviewerRaises
    <3> QED
      BY <2>23, <3>3, <3>4, <1>4 DEF ReviewerRaises
  <2>24. CASE SaveReviewerResult(p)
    <3>1. HasTicket(p) /\ t \in Tickets /\ run[p].review \in ReviewResults
      BY <2>1, <2>24 DEF SaveReviewerResult, HasTicket, Runs
    <3>2. RunsOK'
      BY <1>1, <2>24, <3>1, GoesOn DEF SaveReviewerResult
    <3>3. WithReview(evidence[t], run[p].review) \in Evidences
      BY <2>3, <3>1, WithReviewType
    <3>4. evidence' = [evidence EXCEPT ![t] = WithReview(@, run[p].review)]
      BY <2>24, Zenon DEF SaveReviewerResult
    <3>5. evidence' \in [Tickets -> Evidences]
      BY <1>1, <3>3, <3>4
    <3> QED
      BY <1>1, <2>24, <3>2, <3>5, <1>5 DEF SaveReviewerResult
  <2>25. CASE LoadEvidence(p)
    <3>1. HasTicket(p) /\ t \in Tickets
      BY <2>1, <2>25 DEF LoadEvidence, HasTicket
    <3>2. run[p].result \in AttemptResults /\ run[p].review \in ReviewResults
      BY <2>1 DEF Runs
    <3>3. PICK ev \in Evidences :
            run' = [run EXCEPT ![p].pc = "replace_evidence", ![p].record = ev]
      BY <2>3, <2>25, <3>1, <3>2, WithResultType, WithReviewType, Zenon DEF LoadEvidence
    <3> DEFINE r == [run[p] EXCEPT !.pc = "replace_evidence", !.record = ev]
    <3>4. r \in Runs /\ r.ticket = t
      BY <2>1, Zenon DEF Runs
    <3>5. run' = [run EXCEPT ![p] = r]
      BY <3>3, Zenon
    <3>6. RunsOK'
      BY <1>1, <3>1, <3>4, <3>5, OneRunMoves
    <3> QED
      BY <2>25, <3>6, <1>4, <1>5 DEF LoadEvidence
  <2>26. CASE ReplaceEvidence(p)
    <3>1. HasTicket(p) /\ t \in Tickets /\ run[p].record \in Evidences
      BY <2>1, <2>26 DEF ReplaceEvidence, HasTicket, Runs
    <3> DEFINE r == [run[p] EXCEPT !.pc = "save", !.record = NoEvidence]
    <3>2. r \in Runs /\ r.ticket = t
      BY <2>1, NothingType, Zenon DEF Runs
    <3>3. run' = [run EXCEPT ![p] = r]
      BY <2>26, Zenon DEF ReplaceEvidence
    <3>4. RunsOK'
      BY <1>1, <3>1, <3>2, <3>3, OneRunMoves
    <3>5. evidence' \in [Tickets -> Evidences]
      BY <1>1, <2>26, <3>1 DEF ReplaceEvidence
    <3> QED
      BY <1>1, <2>26, <3>4, <3>5, <1>5 DEF ReplaceEvidence
  <2> QED
    BY <1>6, <2>4, <2>5, <2>6, <2>7, <2>8, <2>9, <2>10, <2>11, <2>12, <2>13, <2>15,
       <2>16, <2>17, <2>18, <2>19, <2>20, <2>21, <2>22, <2>23, <2>24, <2>25, <2>26
    DEF Step
<1>7. ASSUME NEW p \in Procs, Crash(p) PROVE RunsOK' /\ Rest' /\ Stored'
  <2>1. RunsOK'
    BY <1>1, <1>7, GoesIdle DEF Crash
  <2>2. run[p].base.active \in Nat /\ run[p].package \in Packages
    BY <1>1 DEF RunsOK, Runs, WorkflowStates
  <2>3. orphans' \in [Tickets -> SUBSET Nat]
    BY <1>1, <1>7, <2>2 DEF Crash
  <2>4. reviewing' \in [Tickets -> SUBSET Packages]
    BY <1>1, <1>7, <2>2 DEF Crash
  <2>5. crashes' \in Nat
    BY <1>1, <1>7 DEF Crash
  <2> QED
    BY <1>1, <1>7, <2>1, <2>3, <2>4, <2>5, <1>4 DEF Crash
<1>8. ASSUME NEW t \in Tickets, World(t) PROVE RunsOK' /\ Rest' /\ Stored'
  <2>1. UNCHANGED run => RunsOK'
    BY <1>1 DEF RunsOK, HasTicket
  <2>2. ASSUME NEW e \in Evidences, evidence' = [evidence EXCEPT ![t] = e],
               UNCHANGED <<claims, states, tickets>>
        PROVE  Stored'
    BY <1>1, <2>2
  <2>3. evidence[t] \in Evidences
    BY <1>1
  <2>4. CASE OrphanPersists(t)
    <3>1. PICK r \in RecordedResults :
            evidence' = [evidence EXCEPT ![t].worker = r, ![t].workerGone = TRUE]
      BY <2>4 DEF OrphanPersists
    <3>2. r \in AttemptResults
      BY ReportedAssumption DEF RecordedResults, AttemptResults
    <3> DEFINE e == [evidence[t] EXCEPT !.worker = r, !.workerGone = TRUE]
    <3>3. e \in Evidences
      BY <2>3, <3>2, Zenon DEF Evidences
    <3>4. evidence' = [evidence EXCEPT ![t] = e]
      BY <3>1, Zenon
    <3>5. Stored'
      BY <2>2, <2>4, <3>3, <3>4 DEF OrphanPersists
    <3>6. Rest'
      BY <1>1, <2>4 DEF OrphanPersists
    <3> QED
      BY <2>1, <2>4, <3>5, <3>6 DEF OrphanPersists
  <2>5. CASE OrphanDies(t)
    BY <1>1, <1>4, <2>1, <2>5 DEF OrphanDies
  <2>6. CASE RecordWorkerGone(t)
    <3> DEFINE e == [evidence[t] EXCEPT !.workerGone = TRUE]
    <3>1. e \in Evidences
      BY <2>3, Zenon DEF Evidences
    <3>2. evidence' = [evidence EXCEPT ![t] = e]
      BY <2>6, Zenon DEF RecordWorkerGone
    <3> QED
      BY <1>5, <2>1, <2>2, <2>6, <3>1, <3>2 DEF RecordWorkerGone
  <2>7. CASE RecordReviewerGone(t)
    <3> DEFINE e == [evidence[t] EXCEPT !.reviewerGone = TRUE]
    <3>1. e \in Evidences
      BY <2>3, Zenon DEF Evidences
    <3>2. evidence' = [evidence EXCEPT ![t] = e]
      BY <2>7, Zenon DEF RecordReviewerGone
    <3> QED
      BY <1>5, <2>1, <2>2, <2>7, <3>1, <3>2 DEF RecordReviewerGone
  <2>8. CASE ReviewPersists(t)
    <3>1. PICK package \in reviewing[t], r \in Reviews :
            /\ evidence' = [evidence EXCEPT ![t].review = r, ![t].reviewerGone = TRUE]
            /\ reviewing' = [reviewing EXCEPT ![t] = @ \ {package}]
            /\ Endorse(t, r)
      BY <2>8 DEF ReviewPersists
    <3> DEFINE e == [evidence[t] EXCEPT !.review = r, !.reviewerGone = TRUE]
    <3>2. r \in ReviewResults
      BY DEF Reviews, ReviewResults
    <3>3. e \in Evidences
      BY <2>3, <3>2, Zenon DEF Evidences
    <3>4. evidence' = [evidence EXCEPT ![t] = e]
      BY <3>1, Zenon
    <3>5. Stored'
      BY <2>2, <2>8, <3>3, <3>4 DEF ReviewPersists
    <3>6. reviewing' \in [Tickets -> SUBSET Packages]
      BY <1>1, <3>1
    <3>7. endorsed' \in [Tickets -> SUBSET Commits]
      BY <1>1, <3>1 DEF Endorse, Reviews
    <3> QED
      BY <1>1, <2>1, <2>8, <3>5, <3>6, <3>7 DEF ReviewPersists
  <2>9. CASE OrphanReviewerDies(t)
    BY <1>1, <1>4, <2>1, <2>9 DEF OrphanReviewerDies
  <2>10. CASE ObservePullRequest(t)
    <3>1. PICK head \in Commits, ci \in {"PASS", "FAIL", "INFRA_FAILURE"} :
            evidence' = [evidence EXCEPT ![t].package = [head |-> head, ci |-> ci]]
      BY <2>10 DEF ObservePullRequest
    <3> DEFINE e == [evidence[t] EXCEPT !.package = [head |-> head, ci |-> ci]]
    <3>2. [head |-> head, ci |-> ci] \in Packages
      BY DEF Packages
    <3>3. e \in Evidences
      BY <2>3, <3>2, Zenon DEF Evidences
    <3>4. evidence' = [evidence EXCEPT ![t] = e]
      BY <3>1, Zenon
    <3> QED
      BY <1>5, <2>1, <2>2, <2>10, <3>3, <3>4 DEF ObservePullRequest
  <2>11. CASE MergeExternally(t)
    <3>1. tickets' \in [Tickets -> TicketStatuses]
      BY <1>1, <2>11 DEF MergeExternally, TicketStatuses
    <3>2. merged' \in [Tickets -> BOOLEAN]
      BY <1>1, <2>11 DEF MergeExternally
    <3> QED
      BY <1>1, <2>1, <2>11, <3>1, <3>2 DEF MergeExternally
  <2>12. CASE RecordCompletion(t)
    <3> DEFINE e == [evidence[t] EXCEPT !.completed = TRUE]
    <3>1. e \in Evidences
      BY <2>3, Zenon DEF Evidences
    <3>2. evidence' = [evidence EXCEPT ![t] = e]
      BY <2>12, Zenon DEF RecordCompletion
    <3> QED
      BY <1>5, <2>1, <2>2, <2>12, <3>1, <3>2 DEF RecordCompletion
  <2> QED
    BY <1>8, <2>4, <2>5, <2>6, <2>7, <2>8, <2>9, <2>10, <2>11, <2>12 DEF World
<1> QED
  BY <1>3, <1>6, <1>7, <1>8 DEF Next

(* The store, the evidence and every invocation's memory keep their types, *)
(* whichever backend is used (persistence.py, workflow.py).                *)
THEOREM TypeCorrect == Spec => []TypeOK
<1>1. TypeInv => TypeOK
  BY DEF TypeInv
<1> QED
  BY <1>1, TypeInit, TypeStep, PTL DEF Spec
=============================================================================
