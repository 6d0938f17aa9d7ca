--------------------------- MODULE OrchestratorOrder ---------------------------
(***************************************************************************)
(* Which of two pieces of the store comes first: dependencies before       *)
(* claims, for both backends; and, until an invocation crashes, a state    *)
(* beside every claim and the stage's status in every ticket document.     *)
(* Each is inductive relative to IInv.                                     *)
(***************************************************************************)
EXTENDS OrchestratorSafety

(* An invocation about to claim has found its ticket ready.                *)
SelectedIsReady ==
  \A p \in Procs : run[p].pc = "acquire" => \A d \in Deps[run[p].ticket] : merged[d]

(* What an invocation has just saved is what is saved.                     *)
SavedIsCurrent ==
  \A p \in Procs : Saved(run[p]) => run[p].next = states[run[p].ticket]

-----------------------------------------------------------------------------
(* Which step of its own takes an invocation to and from a point.          *)

LEMMA MemoryFrame ==
  ASSUME RunsOK, [Next]_vars, NEW p \in Procs
  PROVE  run'[p] = run[p] \/ Step(p) \/ Crash(p)
<1>1. ASSUME NEW q \in Procs, q # p, Step(q) PROVE run'[p] = run[p]
  BY <1>1
  DEF Step, RunOnce, SelectTicket, AcquireClaim, ReconcileCompletion, ReconcileWorker,
      ReconcileReviewer, ReconcileNothing, DispatchWorker, DispatchReviewer, CompareFails,
      CompareAndSet, CompareRevision, ReplaceState, SetTicketStatus, WorkerReturns,
      WorkerRaises, SaveWorkerResult, ReviewerReturns, ReviewerRaises, SaveReviewerResult,
      LoadEvidence, ReplaceEvidence, ToSave, RunsOK
<1>2. ASSUME NEW q \in Procs, q # p, Crash(q) PROVE run'[p] = run[p]
  BY <1>2 DEF Crash, RunsOK
<1>3. ASSUME NEW t \in Tickets, World(t) PROVE UNCHANGED run
  BY <1>3
  DEF World, OrphanPersists, OrphanDies, RecordWorkerGone, ReviewPersists,
      OrphanReviewerDies, RecordReviewerGone, ObservePullRequest, MergeExternally,
      RecordCompletion
<1>4. CASE UNCHANGED vars
  BY <1>4 DEF vars
<1> QED
  BY <1>1, <1>2, <1>3, <1>4 DEF Next

(* Only selection leads to a claim, and only writing the state to the      *)
(* ticket's document.                                                      *)
LEMMA WhereTo ==
  ASSUME RunsOK, NEW p \in Procs, Step(p)
  PROVE  /\ run'[p].pc = "acquire" => SelectTicket(p)
         /\ run'[p].pc = "status" => Writes(p)
<1> USE DEF RunsOK, Runs
<1>1. CASE RunOnce(p)
  BY <1>1 DEF RunOnce, Idle
<1>2. CASE SelectTicket(p)
  BY <1>2 DEF SelectTicket, Idle
<1>3. CASE AcquireClaim(p)
  BY <1>3 DEF AcquireClaim, Idle
<1>4. CASE \E n : ToSave(p, n)
  BY <1>4 DEF ToSave
<1>5. CASE ReconcileCompletion(p) \/ ReconcileWorker(p) \/ ReconcileReviewer(p)
             \/ WorkerRaises(p) \/ ReviewerRaises(p) \/ DispatchWorker(p)
  BY <1>4, <1>5, Zenon
  DEF ReconcileCompletion, ReconcileWorker, ReconcileReviewer, WorkerRaises, ReviewerRaises,
      DispatchWorker
<1>6. CASE ReconcileNothing(p)
  BY <1>6 DEF ReconcileNothing, Idle
<1>7. CASE DispatchReviewer(p)
  BY <1>7 DEF DispatchReviewer, ToSave
<1>8. CASE CompareFails(p)
  BY <1>8 DEF CompareFails, Idle
<1>9. CASE CompareAndSet(p) \/ ReplaceState(p)
  <2>1. run'[p].pc = "status"
    BY <1>9 DEF CompareAndSet, ReplaceState
  <2> QED
    BY <1>9, <2>1, WritesAre
<1>10. CASE CompareRevision(p)
  BY <1>10 DEF CompareRevision
<1>11. CASE SetTicketStatus(p)
  BY <1>11 DEF SetTicketStatus, Idle
<1>12. CASE WorkerReturns(p) \/ SaveWorkerResult(p) \/ SaveReviewerResult(p)
  BY <1>12 DEF WorkerReturns, SaveWorkerResult, SaveReviewerResult
<1>13. CASE ReviewerReturns(p)
  BY <1>13 DEF ReviewerReturns, ToSave
<1>14. CASE LoadEvidence(p) \/ ReplaceEvidence(p)
  BY <1>14 DEF LoadEvidence, ReplaceEvidence
<1> QED
  BY <1>1, <1>2, <1>3, <1>5, <1>6, <1>7, <1>8, <1>9, <1>10, <1>11, <1>12, <1>13, <1>14
  DEF Step

(* An invocation about to compare compares, one that compared writes, one  *)
(* that wrote goes on to the ticket's document.                            *)
LEMMA WhereFrom ==
  ASSUME NEW p \in Procs, Step(p)
  PROVE  /\ run[p].pc = "save" =>
              CompareFails(p) \/ CompareAndSet(p) \/ CompareRevision(p)
         /\ run[p].pc = "replace" => ReplaceState(p)
         /\ run[p].pc = "status" => SetTicketStatus(p)
BY DEF Step, RunOnce, SelectTicket, AcquireClaim, ReconcileCompletion, ReconcileWorker,
       ReconcileReviewer, ReconcileNothing, DispatchWorker, DispatchReviewer, CompareFails,
       CompareAndSet, CompareRevision, ReplaceState, SetTicketStatus, WorkerReturns,
       WorkerRaises, SaveWorkerResult, ReviewerReturns, ReviewerRaises, SaveReviewerResult,
       LoadEvidence, ReplaceEvidence

-----------------------------------------------------------------------------
(* Dependencies come before claims.                                        *)

LEMMA DependenciesStep ==
  ASSUME IInv, SelectedIsReady, DependenciesFirst, [Next]_vars
  PROVE  SelectedIsReady' /\ DependenciesFirst'
<1>1. /\ TypeInv /\ RunsOK /\ StoreInv /\ MemoryInv /\ Grows
      /\ claims \in [Tickets -> Procs \cup {NoOne}]
  BY NextGrows DEF IInv, TypeInv, TypeOK, RunsOK
<1>2. \A t \in Tickets : Deps[t] \subseteq Tickets
  BY DepsAssumption
<1>3. ASSUME NEW p \in Procs, run'[p].pc = "acquire", NEW d \in Deps[run'[p].ticket]
      PROVE  merged'[d]
  <2>1. CASE run'[p] = run[p]
    <3>1. run[p].ticket \in Tickets /\ d \in Deps[run[p].ticket]
      BY <1>1, <1>3, <2>1 DEF RunsOK, HasTicket
    <3> QED
      BY <1>1, <1>2, <1>3, <2>1, <3>1 DEF SelectedIsReady, Grows
  <2>2. CASE SelectTicket(p)
    <3>1. PICK t \in Tickets : /\ Eligible(t)
                               /\ run' = [run EXCEPT ![p].pc = "acquire", ![p].ticket = t]
      BY <1>1, <1>3, <2>2 DEF SelectTicket, RunsOK, Idle
    <3>2. run'[p].ticket = t
      BY <1>1, <3>1 DEF RunsOK, Runs
    <3>3. tickets[d] = "DONE" /\ d \in Tickets
      BY <1>2, <1>3, <3>1, <3>2 DEF Eligible, Ready, DependenciesDone
    <3> QED
      BY <1>1, <3>3 DEF StoreInv, Grows
  <2>3. CASE Crash(p)
    BY <1>1, <1>3, <2>3 DEF Crash, RunsOK, Idle
  <2> QED
    BY <1>1, <1>3, <2>1, <2>2, <2>3, MemoryFrame, WhereTo
<1>4. ASSUME NEW t \in Tickets, claims'[t] # NoOne, NEW d \in Deps[t]
      PROVE  merged'[d]
  <2>1. CASE claims[t] # NoOne
    BY <1>1, <1>2, <1>4, <2>1 DEF DependenciesFirst, Grows
  <2>2. CASE claims[t] = NoOne
    <3>1. PICK p \in Procs : AcquireClaim(p)
      BY <1>4, <2>2, WhoChanges
    <3>2. run[p].pc = "acquire" /\ run[p].ticket = t
      BY <1>1, <1>4, <2>2, <3>1 DEF AcquireClaim
    <3> QED
      BY <1>1, <1>2, <1>4, <3>2 DEF SelectedIsReady, Grows
  <2> QED
    BY <2>1, <2>2
<1> QED
  BY <1>3, <1>4 DEF SelectedIsReady, DependenciesFirst

(* No ticket is claimed before all it depends on was completed outside,    *)
(* however invocations interleave and crash (readiness_reasons).           *)
THEOREM DependenciesBefore == Spec => []DependenciesFirst
<1>1. Init => SelectedIsReady /\ DependenciesFirst
  BY DEF Init, Idle, SelectedIsReady, DependenciesFirst
<1>2. IInv /\ SelectedIsReady /\ DependenciesFirst /\ [Next]_vars
        => (SelectedIsReady /\ DependenciesFirst)'
  BY DependenciesStep
<1> QED
  BY <1>1, <1>2, Invariant, PTL DEF Spec

-----------------------------------------------------------------------------
(* Until an invocation crashes, a claim has a state, or one on its way.    *)

LEMMA NoCrash ==
  ASSUME TypeInv, [Next]_vars, crashes' = 0
  PROVE  crashes = 0 /\ (\A p \in Procs : ~Crash(p))
<1>1. crashes \in Nat
  BY DEF TypeInv, TypeOK
<1>2. \A p \in Procs : ~Crash(p)
  BY <1>1 DEF Crash
<1>3. ASSUME NEW p \in Procs, Step(p) PROVE UNCHANGED crashes
  BY <1>3
  DEF Step, RunOnce, SelectTicket, AcquireClaim, ReconcileCompletion, ReconcileWorker,
      ReconcileReviewer, ReconcileNothing, DispatchWorker, DispatchReviewer, CompareFails,
      CompareAndSet, CompareRevision, ReplaceState, SetTicketStatus, WorkerReturns,
      WorkerRaises, SaveWorkerResult, ReviewerReturns, ReviewerRaises, SaveReviewerResult,
      LoadEvidence, ReplaceEvidence, world
<1>4. ASSUME NEW t \in Tickets, World(t) PROVE UNCHANGED crashes
  BY <1>4
  DEF World, OrphanPersists, OrphanDies, RecordWorkerGone, ReviewPersists,
      OrphanReviewerDies, RecordReviewerGone, ObservePullRequest, MergeExternally,
      RecordCompletion, world
<1>5. UNCHANGED vars => UNCHANGED crashes
  BY DEF vars, world
<1>6. UNCHANGED crashes
  BY <1>2, <1>3, <1>4, <1>5 DEF Next
<1> QED
  BY <1>2, <1>6

(* Whoever is saving the first state of a ticket gets it saved: its        *)
(* comparison cannot fail while there is no state.                         *)
LEMMA FirstStateArrives ==
  ASSUME RunsOK, MemoryInv, states \in [Tickets -> WorkflowStates],
         NEW p \in Procs, Step(p), run[p].pc \in {"save", "replace"},
         states[run[p].ticket].revision = 0
  PROVE  \/ states'[run[p].ticket].revision > 0
         \/ run'[p].ticket = run[p].ticket /\ run'[p].pc \in {"save", "replace"}
<1>1. NextFollows(run[p]) /\ Holding(run[p])
  BY DEF MemoryInv, Remembers, Holding
<1>2. run[p].ticket \in Tickets /\ run[p].base.revision \in Nat
  BY DEF RunsOK, Runs, HasTicket, WorkflowStates
<1>3. run[p].base.revision = 0
  BY <1>1, <1>2 DEF NextFollows
<1>4. ~CompareFails(p)
  BY <1>3 DEF CompareFails
<1>5. CASE CompareRevision(p)
  BY <1>5 DEF CompareRevision, RunsOK, Runs
<1>6. CASE CompareAndSet(p) \/ ReplaceState(p)
  <2>1. run[p].next.revision > 0
    BY <1>1, WriteIsSound
  <2> QED
    BY <1>2, <1>6, <2>1 DEF CompareAndSet, ReplaceState
<1> QED
  BY <1>4, <1>5, <1>6, WhereFrom

LEMMA ClaimHasStateStep ==
  ASSUME IInv, crashes = 0 => ClaimHasState, [Next]_vars, crashes' = 0
  PROVE  ClaimHasState'
<1>1. /\ TypeInv /\ RunsOK /\ MemoryInv /\ Grows
      /\ claims \in [Tickets -> Procs \cup {NoOne}]
      /\ states \in [Tickets -> WorkflowStates]
  BY NextGrows DEF IInv, TypeInv, TypeOK, RunsOK
<1>2. ClaimHasState /\ \A p \in Procs : ~Crash(p)
  BY <1>1, NoCrash
<1> SUFFICES ASSUME NEW t \in Tickets, claims'[t] # NoOne
             PROVE  \/ states'[t].revision > 0
                    \/ \E p \in Procs : run'[p].ticket = t /\ run'[p].pc \in {"save", "replace"}
  BY DEF ClaimHasState
<1>3. CASE claims[t] = NoOne
  <2>1. PICK p \in Procs : AcquireClaim(p)
    BY <1>3, WhoChanges
  <2>2. run[p].ticket = t /\ run' = [run EXCEPT ![p].pc = "save", ![p].next = Claimed(p)]
    BY <1>1, <1>3, <2>1 DEF AcquireClaim
  <2>3. run'[p].ticket = t /\ run'[p].pc = "save"
    BY <1>1, <2>2 DEF RunsOK, Runs
  <2> QED
    BY <2>3
<1>4. CASE states[t].revision > 0
  BY <1>1, <1>4 DEF Grows
<1>5. ASSUME NEW p \in Procs, run[p].ticket = t, run[p].pc \in {"save", "replace"},
             ~(states[t].revision > 0)
      PROVE  \/ states'[t].revision > 0
             \/ run'[p].ticket = t /\ run'[p].pc \in {"save", "replace"}
  <2>1. states[t].revision = 0
    BY <1>1, <1>5, Fields
  <2> QED
    BY <1>1, <1>2, <1>5, <2>1, FirstStateArrives, MemoryFrame
<1> QED
  BY <1>2, <1>3, <1>4, <1>5 DEF ClaimHasState

(* A claim without a state, which no later invocation takes up, is left    *)
(* only by a crash (claim_next).                                           *)
THEOREM ClaimedHasState == Spec => [](crashes = 0 => ClaimHasState)
<1>1. Init => (crashes = 0 => ClaimHasState)
  BY DEF Init, ClaimHasState
<1>2. IInv /\ (crashes = 0 => ClaimHasState) /\ [Next]_vars
        => (crashes = 0 => ClaimHasState)'
  BY ClaimHasStateStep
<1> QED
  BY <1>1, <1>2, Invariant, PTL DEF Spec

-----------------------------------------------------------------------------
(* Until it crashes, a single invocation keeps ticket documents current.   *)

LEMMA SavedStep ==
  ASSUME IInv, SavedIsCurrent, [Next]_vars, \A p, q \in Procs : p = q
  PROVE  SavedIsCurrent'
<1>1. RunsOK /\ states \in [Tickets -> WorkflowStates]
  BY DEF IInv, TypeInv, TypeOK, RunsOK
<1> SUFFICES ASSUME NEW p \in Procs, run'[p].pc = "status"
             PROVE  run'[p].next = states'[run'[p].ticket]
  BY DEF SavedIsCurrent, Saved
<1>2. CASE Writes(p)
  <2>1. run[p].ticket \in Tickets
    BY <1>1, <1>2 DEF Writes, RunsOK, HasTicket
  <2>2. run'[p].next = run[p].next /\ run'[p].ticket = run[p].ticket
    BY <1>1, <1>2 DEF Writes, RunsOK, Runs
  <2> QED
    BY <1>1, <1>2, <2>1, <2>2 DEF Writes
<1>3. CASE run'[p] = run[p]
  <2>1. UNCHANGED states
    BY <1>3, WhoChanges DEF CompareAndSet, ReplaceState
  <2> QED
    BY <1>3, <2>1 DEF SavedIsCurrent, Saved
<1>4. CASE Crash(p)
  BY <1>1, <1>4 DEF Crash, RunsOK, Idle
<1> QED
  BY <1>1, <1>2, <1>3, <1>4, MemoryFrame, WhereTo

LEMMA WhoChangesStatus ==
  ASSUME [Next]_vars, \A p \in Procs : ~Crash(p)
  PROVE  \/ UNCHANGED <<tickets, states, run>>
         \/ \E p \in Procs : Step(p) /\ UNCHANGED <<tickets, states>>
         \/ \E p \in Procs : Writes(p) \/ SetTicketStatus(p)
         \/ \E t \in Tickets : MergeExternally(t)
<1>1. ASSUME NEW p \in Procs, Step(p)
      PROVE  UNCHANGED <<tickets, states>> \/ Writes(p) \/ SetTicketStatus(p)
  <2>1. UNCHANGED <<tickets, states>> \/ CompareAndSet(p) \/ ReplaceState(p) \/ SetTicketStatus(p)
    BY <1>1
    DEF Step, RunOnce, SelectTicket, AcquireClaim, ReconcileCompletion, ReconcileWorker,
        ReconcileReviewer, ReconcileNothing, DispatchWorker, DispatchReviewer, CompareFails,
        CompareRevision, WorkerReturns, WorkerRaises, SaveWorkerResult, ReviewerReturns,
        ReviewerRaises, SaveReviewerResult, LoadEvidence, ReplaceEvidence, store
  <2> QED
    BY <2>1, WritesAre
<1>2. ASSUME NEW t \in Tickets, World(t)
      PROVE  UNCHANGED <<tickets, states, run>> \/ MergeExternally(t)
  BY <1>2
  DEF World, OrphanPersists, OrphanDies, RecordWorkerGone, ReviewPersists,
      OrphanReviewerDies, RecordReviewerGone, ObservePullRequest, RecordCompletion, store
<1>3. CASE UNCHANGED vars
  BY <1>3 DEF vars, store
<1> QED
  BY <1>1, <1>2, <1>3 DEF Next

LEMMA StatusStep ==
  ASSUME IInv, SavedIsCurrent, crashes = 0 => StatusFollowsStage, [Next]_vars, crashes' = 0,
         \A p, q \in Procs : p = q
  PROVE  StatusFollowsStage'
<1>1. /\ TypeInv /\ RunsOK /\ tickets \in [Tickets -> TicketStatuses]
      /\ states \in [Tickets -> WorkflowStates]
  BY DEF IInv, TypeInv, TypeOK, RunsOK
<1>2. StatusFollowsStage /\ \A p \in Procs : ~Crash(p)
  BY <1>1, NoCrash
<1> SUFFICES ASSUME NEW t \in Tickets
             PROVE  \/ tickets'[t] = TicketStatusFor(states'[t].stage)
                    \/ tickets'[t] = "DONE"
                    \/ \E p \in Procs : run'[p].ticket = t /\ run'[p].pc = "status"
  BY DEF StatusFollowsStage
<1>3. CASE UNCHANGED <<tickets, states, run>>
  BY <1>2, <1>3 DEF StatusFollowsStage
<1>4. ASSUME NEW p \in Procs, UNCHANGED <<tickets[t], states[t]>>,
             ~(run[p].pc = "status" /\ run[p].ticket = t)
      PROVE  tickets'[t] = TicketStatusFor(states'[t].stage) \/ tickets'[t] = "DONE"
  BY <1>2, <1>4 DEF StatusFollowsStage
<1>5. ASSUME NEW p \in Procs, Writes(p)
      PROVE  \/ UNCHANGED <<tickets[t], states[t]>> /\ run[p].pc # "status"
             \/ run'[p].ticket = t /\ run'[p].pc = "status"
  BY <1>1, <1>5 DEF Writes, RunsOK, Runs
<1>6. ASSUME NEW p \in Procs, SetTicketStatus(p)
      PROVE  \/ tickets'[t] = TicketStatusFor(states'[t].stage)
             \/ UNCHANGED <<tickets[t], states[t]>> /\ run[p].ticket # t
  <2>1. run[p].next = states[run[p].ticket] /\ UNCHANGED states
    BY <1>6 DEF SetTicketStatus, SavedIsCurrent, Saved
  <2> QED
    BY <1>1, <1>6, <2>1 DEF SetTicketStatus
<1>7. ASSUME NEW p \in Procs, Step(p), UNCHANGED <<tickets, states>>
      PROVE  \/ tickets'[t] = TicketStatusFor(states'[t].stage)
             \/ /\ UNCHANGED <<tickets[t], states[t]>>
                /\ ~(run[p].pc = "status" /\ run[p].ticket = t)
  <2>1. CASE run[p].pc = "status"
    BY <1>6, <1>7, <2>1, WhereFrom
  <2>2. CASE run[p].pc # "status"
    BY <1>7, <2>2
  <2> QED
    BY <2>1, <2>2
<1>8. ASSUME NEW u \in Tickets, MergeExternally(u)
      PROVE  UNCHANGED <<run, states>> /\ (tickets'[t] = tickets[t] \/ tickets'[t] = "DONE")
  BY <1>1, <1>8 DEF MergeExternally
<1>9. ASSUME NEW u \in Tickets, MergeExternally(u)
      PROVE  \/ tickets'[t] = TicketStatusFor(states'[t].stage)
             \/ tickets'[t] = "DONE"
             \/ \E p \in Procs : run'[p].ticket = t /\ run'[p].pc = "status"
  BY <1>2, <1>8, <1>9 DEF StatusFollowsStage
<1> QED
  BY <1>2, <1>3, <1>4, <1>5, <1>6, <1>7, <1>9, WhoChangesStatus

(* With one invocation at a time a ticket's document shows the stage that  *)
(* was saved, until a crash comes between the two writes (_save).          *)
THEOREM StatusIsStage ==
  ASSUME \A p, q \in Procs : p = q
  PROVE  Spec => [](crashes = 0 => StatusFollowsStage)
<1> DEFINE Shown == crashes = 0 => StatusFollowsStage
<1>1. Init => SavedIsCurrent /\ Shown
  <2> SUFFICES ASSUME Init PROVE SavedIsCurrent /\ StatusFollowsStage
    OBVIOUS
  <2>1. SavedIsCurrent
    BY DEF Init, Idle, SavedIsCurrent, Saved
  <2>2. TicketStatusFor(NoState.stage) = "READY"
    BY DEF NoState, TicketStatusFor
  <2> QED
    BY <2>1, <2>2 DEF Init, StatusFollowsStage
<1>2. IInv /\ SavedIsCurrent /\ Shown /\ [Next]_vars => (SavedIsCurrent /\ Shown)'
  BY SavedStep, StatusStep
<1> QED
  BY <1>1, <1>2, Invariant, PTL DEF Spec
=============================================================================
