--------------------------- MODULE ModelCacheAlone ---------------------------
(***************************************************************************)
(* What holds of acquisitions whatever becomes of their locks, an operator *)
(* who removes them while they are held included: it rests on each         *)
(* invocation's own memory and temporary file alone.  Any number of        *)
(* acquisitions, any manifests and allowances and every bound.             *)
(***************************************************************************)
EXTENDS ModelCacheInductive, TLAPS

LEMMA KeysOfProcs == \A p \in Procs : LockKey(p) \in Keys
  BY DEF Keys

(* The fields of a memory, and what its edits are.                         *)
LEMMA MemoryFields ==
  ASSUME NEW m \in Memories
  PROVE  /\ m.pc \in Points /\ m.todo \in SUBSET Targets /\ m.target \in Targets \cup {<<>>}
         /\ m.attempts \in Nat /\ m.written \in Nat
         /\ m.received \in Nat /\ m.wire \in Nat /\ m.lost \in Nat
         /\ m.outcome \in Outcomes
  BY DEF Memories

LEMMA RetypedTodo ==
  ASSUME NEW m \in Memories, NEW pc \in Points, NEW todo \in SUBSET Targets
  PROVE  [m EXCEPT !.pc = pc, !.todo = todo] \in Memories
  BY Zenon DEF Memories

LEMMA RetypedPc ==
  ASSUME NEW m \in Memories, NEW pc \in Points
  PROVE  [m EXCEPT !.pc = pc] \in Memories
  BY Zenon DEF Memories

LEMMA ReadingTyped ==
  ASSUME NEW m \in Memories, NEW n \in Nat
  PROVE  Reading(m, n) \in Memories
<1>1. m.received + n \in Nat /\ m.wire + n \in Nat
  BY DEF Memories
<1> QED
  BY <1>1, Zenon DEF Memories, Reading

LEMMA LosingTyped ==
  ASSUME NEW m \in Memories, NEW n \in Nat
  PROVE  /\ Losing(m, n) \in Memories
         /\ Losing(m, n).wire = m.wire /\ Losing(m, n).received = m.received
<1>1. m.lost + n \in Nat
  BY DEF Memories
<1>2. Losing(m, n) \in Memories
  BY <1>1, Zenon DEF Memories, Losing
<1> QED
  BY <1>2 DEF Memories, Losing

LEMMA LeaveTyped ==
  ASSUME NEW point \in Points, NEW outcome \in Outcomes
  PROVE  [Fresh EXCEPT !.pc = point, !.outcome = outcome] \in Memories
<1>1. Fresh \in Memories
  BY DEF Fresh, Memories, Points, Outcomes
<1> QED
  BY <1>1, Zenon DEF Memories

(* What the common ways of moving on do to the memory.                     *)
LEMMA Leaving ==
  ASSUME mem \in [Procs -> Memories], NEW p \in Procs, NEW point, NEW outcome,
         Leave(p, point, outcome)
  PROVE  /\ mem' = [mem EXCEPT ![p] = mem'[p]]
         /\ mem'[p].pc = point /\ mem'[p].outcome = outcome /\ mem'[p].todo = {}
         /\ mem'[p].wire = 0 /\ mem'[p].received = 0
  BY DEF Leave, Become, Fresh

LEMMA Going ==
  ASSUME mem \in [Procs -> Memories], NEW p \in Procs, NEW point, Go(p, point)
  PROVE  /\ mem' = [mem EXCEPT ![p] = mem'[p]]
         /\ mem'[p].pc = point /\ mem'[p].outcome = mem[p].outcome
         /\ mem'[p].todo = mem[p].todo /\ mem'[p].target = mem[p].target
         /\ mem'[p].wire = mem[p].wire /\ mem'[p].received = mem[p].received
  BY DEF Go, Become, Memories

-----------------------------------------------------------------------------
(* The lock.                                                               *)

LEMMA LockOperationsTyped ==
  ASSUME LockTypeOK(Keys), NEW p \in Procs,
         \/ MakeLock(p, LockKey(p)) \/ WriteOwner(p, LockKey(p)) \/ GiveUp(p, LockKey(p))
         \/ OwnerNotWritten(p, LockKey(p)) \/ ConfirmOwner(p, LockKey(p))
         \/ UnlinkOwner(p, LockKey(p)) \/ RemoveLock(p, LockKey(p))
  PROVE  /\ LockTypeOK(Keys)'
         /\ phase'[p] \in Phases /\ phase' = [phase EXCEPT ![p] = phase'[p]]
         /\ UNCHANGED robbed
<1>1. LockKey(p) \in Keys
  BY KeysOfProcs
<1>2. phase'[p] \in Phases /\ phase' = [phase EXCEPT ![p] = phase'[p]]
  BY DEF LockTypeOK, MakeLock, WriteOwner, GiveUp, OwnerNotWritten, ConfirmOwner, UnlinkOwner,
         RemoveLock, MoveTo, Phases
<1>3. UNCHANGED robbed
  BY DEF MakeLock, WriteOwner, GiveUp, OwnerNotWritten, ConfirmOwner, UnlinkOwner, RemoveLock,
         MoveTo
<1>4. LockTypeOK(Keys)'
  BY <1>1, <1>2, <1>3 DEF LockTypeOK, MakeLock, WriteOwner, GiveUp, OwnerNotWritten,
         ConfirmOwner, UnlinkOwner, RemoveLock
<1> QED
  BY <1>2, <1>3, <1>4

(* The steps of an invocation under its lock, which leave the lock alone.  *)
Work(p) ==
  \/ Recheck(p) \/ NextFile(p)
  \/ Request(p) \/ FollowRedirect(p) \/ OpenRedirect(p) \/ BadResponse(p)
  \/ AcceptResponse(p) \/ Stream(p) \/ BreakOff(p) \/ Promote(p) \/ Cleanup(p) \/ Verify(p)
  \/ LocalFault(p) \/ Interrupt(p)

LEMMA WorkMoves ==
  ASSUME mem \in [Procs -> Memories], NEW p \in Procs, Work(p)
  PROVE  /\ UNCHANGED lockVars /\ UNCHANGED spoils
         /\ mem[p].pc \in PointsUnderLock
         /\ mem' = [mem EXCEPT ![p] = mem'[p]]
         /\ mem'[p].pc \in PointsUnderLock \cup {"release"}
<1>1. UNCHANGED lockVars /\ UNCHANGED spoils
  BY DEF Work, Recheck, NextFile, Request, FollowRedirect, OpenRedirect, BadResponse,
         AcceptResponse, Stream, BreakOff, Promote, Cleanup, Verify, LocalFault, Interrupt, World
<1>2. mem[p].pc \in PointsUnderLock
  BY DEF Work, Recheck, NextFile, Request, FollowRedirect, OpenRedirect, BadResponse,
         AcceptResponse, Stream, BreakOff, Promote, Cleanup, Verify, LocalFault, Interrupt, At,
         PointsUnderLock
<1>3. /\ mem' = [mem EXCEPT ![p] = mem'[p]]
      /\ mem'[p].pc \in PointsUnderLock \cup {"release"}
  <2>1. ASSUME NEW outcome, Raise(p, outcome) \/ Leave(p, "release", outcome)
        PROVE  mem' = [mem EXCEPT ![p] = mem'[p]] /\ mem'[p].pc = "release"
    BY <2>1, Leaving DEF Raise
  <2>2. ASSUME NEW pc, Go(p, pc)
        PROVE  mem' = [mem EXCEPT ![p] = mem'[p]] /\ mem'[p].pc = pc
    BY <2>2, Going
  <2>3. CASE Recheck(p)
    BY <2>1, <2>3 DEF Recheck, Become, Memories, PointsUnderLock
  <2>4. CASE NextFile(p)
    BY <2>1, <2>2, <2>4 DEF NextFile, Become, Memories, PointsUnderLock
  <2>5. CASE Request(p)
    BY <2>5 DEF Request, Become, Memories, PointsUnderLock
  <2>6. CASE FollowRedirect(p)
    BY <2>1, <2>6 DEF FollowRedirect, Reading, Become, Memories, PointsUnderLock, At
  <2>7. CASE BadResponse(p) \/ LocalFault(p)
    BY <2>1, <2>7 DEF BadResponse, LocalFault
  <2>8. CASE AcceptResponse(p)
    BY <2>1, <2>2, <2>8 DEF AcceptResponse, PointsUnderLock
  <2>9. CASE Stream(p)
    BY <2>1, <2>9 DEF Stream, Reading, Become, Memories, PointsUnderLock, At
  <2>10. CASE BreakOff(p)
    BY <2>1, <2>10 DEF BreakOff, Reading, Losing, Become, Memories, PointsUnderLock
  <2>11. CASE Promote(p)
    <3>1. CASE Become(p, [mem[p] EXCEPT !.pc = "next", !.todo = @ \ {mem[p].target}])
      BY <3>1 DEF Become, Memories, PointsUnderLock
    <3> QED
      BY <2>1, <2>11, <3>1 DEF Promote
  <2>12. CASE Cleanup(p)
    BY <2>12 DEF Cleanup, Become, Memories, PointsUnderLock
  <2>13. CASE Verify(p)
    BY <2>1, <2>13 DEF Verify, Become, Memories, PointsUnderLock, At
  <2>14. CASE Interrupt(p)
    BY <2>1, <2>14 DEF Interrupt
  <2>15. CASE OpenRedirect(p)
    BY <2>2, <2>15 DEF OpenRedirect, PointsUnderLock
  <2> QED
    BY <2>3, <2>4, <2>5, <2>6, <2>7, <2>8, <2>9, <2>10, <2>11, <2>12, <2>13, <2>14, <2>15
       DEF Work
<1> QED
  BY <1>1, <1>2, <1>3
-----------------------------------------------------------------------------
(* Types and the budget.                                                   *)

LEMMA WantedTyped ==
  ASSUME NEW p \in Procs, NEW t \in DOMAIN Wanted[p]
  PROVE  /\ t \in Targets /\ Wanted[p][t] \in Contents /\ Wanted[p][t] \notin Spoilt
         /\ Wanted[p][t] # Missing /\ Wanted[p][t] # Directory
         /\ Size[Wanted[p][t]] \in Nat \ {0} /\ Allowance[p] \in Nat
  BY ManifestAssumption, SizeAssumption DEF Parsed

LEMMA LeavingTyped ==
  ASSUME TypeOK, NEW p \in Procs, NEW point \in Points, NEW outcome \in Outcomes,
         Leave(p, point, outcome)
  PROVE  mem' \in [Procs -> Memories]
  BY LeaveTyped, Zenon DEF TypeOK, Leave, Become

LEMMA BecomingTyped ==
  ASSUME TypeOK, NEW p \in Procs, NEW m \in Memories, Become(p, m)
  PROVE  mem' \in [Procs -> Memories] /\ mem'[p] = m
  BY DEF TypeOK, Become

(* Reading n bytes that the allowance permits keeps within the budget.     *)
Budgeted(p, m) == m.wire = m.received /\ m.wire <= Allowance[p]

LEMMA ReadingBudgeted ==
  ASSUME NEW p \in Procs, NEW m \in Memories, Budgeted(p, m), NEW n \in Nat,
         n <= Allowance[p] - m.received
  PROVE  Budgeted(p, Reading(m, n)) /\ Reading(m, n) \in Memories
<1>1. Reading(m, n) \in Memories
  BY ReadingTyped
<1>2. Allowance[p] \in Nat /\ m.wire \in Nat /\ m.received \in Nat
  BY SizeAssumption DEF Memories
<1>3. Reading(m, n).wire = m.wire + n /\ Reading(m, n).received = m.received + n
  BY DEF Reading, Memories
<1> QED
  BY <1>1, <1>2, <1>3 DEF Budgeted

(* What every step of an invocation does to the memories.                  *)
Moved(p) ==
  /\ mem' \in [Procs -> Memories]
  /\ mem' = [mem EXCEPT ![p] = mem'[p]]
  /\ Budgeted(p, mem'[p])

LEMMA MemoryStep ==
  ASSUME TypeOK, BudgetInv, NEW p \in Procs,
         Start(p) \/ Advance(p) \/ Interrupt(p) \/ Crash(p)
  PROVE  Moved(p)
<1>1. /\ mem \in [Procs -> Memories] /\ mem[p] \in Memories
      /\ Budgeted(p, mem[p]) /\ Allowance[p] \in Nat
  BY SizeAssumption DEF TypeOK, BudgetInv, Budgeted
<1>2. ASSUME NEW point \in Points, NEW outcome \in Outcomes, Leave(p, point, outcome)
      PROVE  Moved(p)
  BY <1>1, <1>2, LeavingTyped, Leaving DEF Moved, Budgeted
<1>3. ASSUME NEW m \in Memories, Budgeted(p, m), Become(p, m)
      PROVE  Moved(p)
  BY <1>1, <1>3, BecomingTyped DEF Moved, Become
<1>4. ASSUME NEW point \in Points, Go(p, point)
      PROVE  Moved(p)
  <2>1. [mem[p] EXCEPT !.pc = point] \in Memories
    BY <1>1, Zenon DEF Memories
  <2>2. Budgeted(p, [mem[p] EXCEPT !.pc = point])
    BY <1>1 DEF Budgeted, Memories
  <2> QED
    BY <1>3, <1>4, <2>1, <2>2 DEF Go
<1>5. ASSUME UNCHANGED mem PROVE Moved(p)
  BY <1>1, <1>5 DEF Moved
<1>6. ASSUME NEW outcome \in Outcomes, Raise(p, outcome) PROVE Moved(p)
  BY <1>2, <1>6 DEF Raise, Points
<1>7. CASE Start(p)
  BY <1>2, <1>4, <1>7 DEF Start, Points, Outcomes, Failures
<1>8. CASE Lock(p)
  BY <1>2, <1>4, <1>5, <1>8 DEF Lock, Points, PointsUnderLock, Outcomes, Failures
<1>9. CASE Recheck(p)
  <2> DEFINE m == [mem[p] EXCEPT !.pc = "next", !.todo = Lacking(p)]
  <2>1. Lacking(p) \in SUBSET Targets /\ "next" \in Points
    BY WantedTyped DEF Lacking, Points, PointsUnderLock
  <2>2. m \in Memories
    BY <1>1, <2>1, RetypedTodo
  <2>3. Budgeted(p, m)
    BY <1>1 DEF Budgeted, Memories
  <2>4. Raise(p, "POLICY_REFUSAL") \/ Become(p, m)
    BY <1>9 DEF Recheck
  <2> QED
    BY <1>3, <1>6, <2>2, <2>3, <2>4 DEF Outcomes, Failures
<1>10. CASE NextFile(p)
  <2>1. ASSUME NEW t \in mem[p].todo
        PROVE  /\ [mem[p] EXCEPT !.pc = "request", !.target = t, !.attempts = 0] \in Memories
               /\ Budgeted(p, [mem[p] EXCEPT !.pc = "request", !.target = t, !.attempts = 0])
    <3>1. t \in Targets /\ "request" \in Points /\ 0 \in Nat
      BY <1>1, <2>1 DEF Memories, Points, PointsUnderLock
    <3> QED
      BY <1>1, <3>1 DEF Memories, Budgeted
  <2> QED
    BY <1>3, <1>4, <1>6, <1>10, <2>1 DEF NextFile, Outcomes, Failures, Points, PointsUnderLock
<1>11. CASE Request(p)
  <2> DEFINE m == [mem[p] EXCEPT !.pc = "response", !.attempts = @ + 1, !.written = 0]
  <2>1. m \in Memories
    <3>1. "response" \in Points /\ mem[p].attempts + 1 \in Nat /\ 0 \in Nat
      BY <1>1 DEF Memories, Points, PointsUnderLock
    <3> QED
      BY <1>1, <3>1, Zenon DEF Memories
  <2>2. Budgeted(p, m)
    BY <1>1 DEF Budgeted, Memories
  <2>3. Become(p, m)
    BY <1>11 DEF Request
  <2> QED
    BY <1>3, <2>1, <2>2, <2>3
<1>12. CASE FollowRedirect(p)
  <2>1. ASSUME NEW n \in Nat, n < Remaining(p)
        PROVE  /\ [Reading(mem[p], n) EXCEPT !.pc = "redirect"] \in Memories
               /\ Budgeted(p, [Reading(mem[p], n) EXCEPT !.pc = "redirect"])
    <3>1. n <= Allowance[p] - mem[p].received /\ "redirect" \in Points
      BY <1>1, <2>1 DEF Remaining, Memories, Points, PointsUnderLock
    <3>2. Reading(mem[p], n) \in Memories /\ Budgeted(p, Reading(mem[p], n))
      BY <1>1, <3>1, ReadingBudgeted
    <3> QED
      BY <3>1, <3>2, RetypedPc DEF Budgeted, Memories
  <2>2. PICK n \in 0 .. RedirectBody :
          IF n >= Remaining(p)
            THEN Raise(p, "INTEGRITY_FAILURE")
            ELSE Become(p, [Reading(mem[p], n) EXCEPT !.pc = "redirect"])
    BY <1>12 DEF FollowRedirect
  <2>3. n \in Nat /\ Remaining(p) \in Int
    BY <1>1, BoundsAssumption DEF Remaining, Memories
  <2> QED
    BY <1>3, <1>6, <2>1, <2>2, <2>3 DEF Outcomes, Failures
<1>13. CASE BadResponse(p) \/ LocalFault(p)
  BY <1>6, <1>13 DEF BadResponse, LocalFault, Outcomes, Failures
<1>14. CASE AcceptResponse(p)
  BY <1>4, <1>6, <1>14 DEF AcceptResponse, Outcomes, Failures, Points, PointsUnderLock
<1>15. CASE Stream(p)
  <2>1. ASSUME NEW n \in 1 .. CHUNK_SIZE, n <= Remaining(p),
               NEW m, m = [Reading(mem[p], n) EXCEPT !.written = @ + n]
        PROVE  /\ m \in Memories /\ Budgeted(p, m)
               /\ [m EXCEPT !.pc = "promote"] \in Memories
               /\ Budgeted(p, [m EXCEPT !.pc = "promote"])
    <3>1. n \in Nat
      BY BoundsAssumption
    <3>2. Reading(mem[p], n) \in Memories /\ Budgeted(p, Reading(mem[p], n))
      BY <1>1, <2>1, <3>1, ReadingBudgeted DEF Remaining
    <3>3. m \in Memories /\ Budgeted(p, m)
      <4> DEFINE r == Reading(mem[p], n)
      <4> HIDE DEF r
      <4>1. m = [r EXCEPT !.written = @ + n] /\ r \in Memories /\ Budgeted(p, r)
        BY <2>1, <3>2 DEF r
      <4>2. r.written + n \in Nat
        BY <3>1, <4>1 DEF Memories
      <4>3. m \in Memories
        BY <4>1, <4>2, Zenon DEF Memories
      <4> QED
        BY <4>1, <4>3 DEF Budgeted, Memories
    <3>4. "promote" \in Points
      BY DEF Points, PointsUnderLock
    <3>5. [m EXCEPT !.pc = "promote"] \in Memories
      BY <3>3, <3>4, RetypedPc
    <3> QED
      BY <3>3, <3>5 DEF Budgeted, Memories
  <2>2. PICK n \in 1 .. CHUNK_SIZE :
          /\ n <= Remaining(p)
          /\ LET m == [Reading(mem[p], n) EXCEPT !.written = @ + n]
             IN  \/ Become(p, m)
                 \/ Become(p, [m EXCEPT !.pc = "promote"])
                 \/ Raise(p, "INTEGRITY_FAILURE")
    BY <1>15 DEF Stream
  <2> QED
    BY <1>3, <1>6, <2>1, <2>2 DEF Outcomes, Failures
<1>16. CASE BreakOff(p)
  <2>1. ASSUME NEW n \in 0 .. CHUNK_SIZE, NEW l \in 0 .. MaxLost, n + l <= Remaining(p),
               NEW m, m = Losing(Reading(mem[p], n), l)
        PROVE  [m EXCEPT !.pc = "request"] \in Memories /\ Budgeted(p, [m EXCEPT !.pc = "request"])
    <3>1. n \in Nat /\ l \in Nat /\ "request" \in Points
      BY BoundsAssumption DEF Points, PointsUnderLock
    <3>2. n <= Allowance[p] - mem[p].received
      BY <1>1, <2>1, <3>1 DEF Remaining, Memories
    <3>3. Reading(mem[p], n) \in Memories /\ Budgeted(p, Reading(mem[p], n))
      BY <1>1, <3>1, <3>2, ReadingBudgeted
    <3>4. m \in Memories /\ Budgeted(p, m)
      BY <2>1, <3>1, <3>3, LosingTyped DEF Budgeted
    <3> QED
      BY <3>1, <3>4, RetypedPc DEF Budgeted, Memories
  <2>2. PICK n \in 0 .. CHUNK_SIZE, l \in 0 .. MaxLost :
          /\ n + l <= Remaining(p)
          /\ \/ Become(p, [Losing(Reading(mem[p], n), l) EXCEPT !.pc = "request"])
             \/ \E outcome \in {"TRANSPORT_FAILURE", "INTEGRITY_FAILURE"} : Raise(p, outcome)
    BY <1>16 DEF BreakOff
  <2> QED
    BY <1>3, <1>6, <2>1, <2>2 DEF Outcomes, Failures
<1>17. CASE Promote(p)
  <2> DEFINE m == [mem[p] EXCEPT !.pc = "next", !.todo = @ \ {mem[p].target}]
  <2>1. m \in Memories
    <3>1. mem[p].todo \ {mem[p].target} \in SUBSET Targets /\ "next" \in Points
      BY <1>1 DEF Memories, Points, PointsUnderLock
    <3> QED
      BY <1>1, <3>1, Zenon DEF Memories
  <2>2. Budgeted(p, m)
    BY <1>1 DEF Budgeted, Memories
  <2>3. Become(p, m) \/ Raise(p, "LOCAL_IO_FAILURE")
    BY <1>17 DEF Promote
  <2> QED
    BY <1>3, <1>6, <2>1, <2>2, <2>3 DEF Outcomes, Failures
<1>18. CASE Cleanup(p)
  <2> DEFINE m == [mem[p] EXCEPT !.pc = "verify", !.todo = DOMAIN Wanted[p]]
  <2>1. DOMAIN Wanted[p] \in SUBSET Targets /\ "verify" \in Points
    BY ManifestAssumption DEF Parsed, Points, PointsUnderLock
  <2>2. m \in Memories
    BY <1>1, <2>1, RetypedTodo
  <2>3. Budgeted(p, m)
    BY <1>1 DEF Budgeted, Memories
  <2> QED
    BY <1>3, <1>18, <2>2, <2>3 DEF Cleanup
<1>19. CASE Verify(p)
  <2>1. ASSUME NEW t \in mem[p].todo
        PROVE  /\ [mem[p] EXCEPT !.todo = @ \ {t}] \in Memories
               /\ Budgeted(p, [mem[p] EXCEPT !.todo = @ \ {t}])
    <3>1. mem[p].todo \ {t} \in SUBSET Targets
      BY <1>1 DEF Memories
    <3>2. [mem[p] EXCEPT !.todo = @ \ {t}] \in Memories
      BY <1>1, <3>1, Zenon DEF Memories
    <3> QED
      BY <1>1, <3>2 DEF Budgeted, Memories
  <2> QED
    BY <1>2, <1>3, <1>6, <1>19, <2>1 DEF Verify, Outcomes, Failures, Points
<1>20. CASE Release(p)
  <2>1. mem[p].outcome \in Outcomes
    BY <1>1 DEF Memories
  <2> QED
    BY <1>2, <1>5, <1>20, <2>1 DEF Release, Points
<1>21. CASE Interrupt(p)
  BY <1>2, <1>21 DEF Interrupt, Outcomes, Failures, Points
<1>22. CASE Crash(p)
  <2>1. mem[p].outcome \in Outcomes
    BY <1>1 DEF Memories
  <2> QED
    BY <1>2, <1>22, <2>1 DEF Crash, Points
<1>23. CASE OpenRedirect(p)
  BY <1>4, <1>23 DEF OpenRedirect, Points, PointsUnderLock
<1> QED
  BY <1>7, <1>8, <1>9, <1>10, <1>11, <1>12, <1>13, <1>14, <1>15, <1>16, <1>17, <1>18, <1>19,
     <1>20, <1>21, <1>22, <1>23 DEF Advance
-----------------------------------------------------------------------------
(* The files.                                                              *)

(* The temporary file once the last chunk is in it, if it is still there.  *)
Completed(p) ==
  IF parts[p] = NoPart THEN NoPart
                       ELSE [parts[p] EXCEPT !.body = Wanted[p][mem[p].target]]

(* What a step of an invocation does to the temporary files: it changes    *)
(* its own, or, cleaning up, removes those beside files of its manifest.   *)
LEMMA PartsMoveAlone ==
  ASSUME NEW p \in Procs, Start(p) \/ Advance(p) \/ Interrupt(p) \/ Crash(p)
  PROVE  \/ UNCHANGED parts
         \/ Drop(p)
         \/ /\ At(p, "response") /\ AcceptResponse(p)
            /\ parts' = [parts EXCEPT ![p] = [target |-> mem[p].target, body |-> Partial]]
         \/ /\ At(p, "stream") /\ Stream(p)
            /\ parts' = [parts EXCEPT ![p] = Completed(p)]
         \/ /\ At(p, "cleanup") /\ Cleanup(p)
            /\ parts' = [q \in Procs |-> IF OfManifest(p, parts[q]) THEN NoPart ELSE parts[q]]
<1>1. CASE Stream(p)
  <2>1. \/ UNCHANGED parts
        \/ Raise(p, "INTEGRITY_FAILURE")
        \/ \E body \in Contents :
             /\ DigestMatches(p, body)
             /\ parts' = [parts EXCEPT ![p] = IF @ = NoPart THEN @ ELSE [@ EXCEPT !.body = body]]
    BY <1>1 DEF Stream
  <2> QED
    BY <1>1, <2>1 DEF Stream, Raise, DigestMatches, Completed
<1>2. CASE AcceptResponse(p)
  BY <1>2 DEF AcceptResponse, Raise
<1>3. CASE Cleanup(p)
  BY <1>3 DEF Cleanup
<1>4. CASE Lock(p) \/ Start(p) \/ Release(p) \/ Interrupt(p) \/ Crash(p)
  BY <1>4 DEF Lock, Start, Release, Interrupt, Crash, diskVars
<1>5. CASE Recheck(p) \/ NextFile(p) \/ Request(p) \/ FollowRedirect(p) \/ OpenRedirect(p)
  BY <1>5 DEF Recheck, NextFile, Request, FollowRedirect, OpenRedirect, Raise, diskVars
<1>6. CASE BadResponse(p) \/ BreakOff(p) \/ Promote(p) \/ Verify(p) \/ LocalFault(p)
  BY <1>6 DEF BadResponse, BreakOff, Promote, Verify, LocalFault, Raise
<1> QED
  BY <1>1, <1>2, <1>3, <1>4, <1>5, <1>6 DEF Advance

-----------------------------------------------------------------------------
(* The invariant of the invocations taken each alone.                      *)

LEMMA AloneInit == Init => AloneInv
<1> SUFFICES ASSUME Init PROVE AloneInv
  OBVIOUS
<1>1. Fresh \in Memories /\ NoPart \in PartFiles
  BY DEF Fresh, Memories, Points, Outcomes, PartFiles
<1>2. TypeOK
  <2>1. Found \subseteq Contents \cup Spoilt
    BY SizeAssumption
  <2>2. files \in [Targets -> Contents \cup Spoilt] /\ crashes \in Nat /\ spoils \in Nat
    BY <2>1 DEF Init
  <2> QED
    BY <1>1, <2>2 DEF Init, TypeOK, LockInit, LockTypeOK, Phases
<1>3. /\ Fresh.pc = "idle" /\ Fresh.todo = {} /\ Fresh.wire = 0 /\ Fresh.received = 0
  BY DEF Fresh
<1>4. ASSUME NEW p \in Procs
      PROVE  mem[p] = Fresh /\ Allowance[p] \in Nat
  BY SizeAssumption DEF Init
<1>5. BudgetInv
  <2> SUFFICES ASSUME NEW p \in Procs
               PROVE  mem[p].wire = mem[p].received /\ mem[p].wire <= Allowance[p]
    BY DEF BudgetInv
  <2>1. mem[p].wire = 0 /\ mem[p].received = 0
    BY <1>3, <1>4, Zenon
  <2> QED
    BY <1>4, <2>1
<1>6. ASSUME NEW p \in Procs PROVE DownloadFits(p)
  <2>1. mem[p].pc = "idle" /\ mem[p].todo = {}
    BY <1>3, <1>4, Zenon
  <2> QED
    BY <2>1 DEF DownloadFits, Fetching, At
<1> QED
  BY <1>2, <1>5, <1>6 DEF AloneInv

LEMMA LockTyped ==
  ASSUME TypeOK, [Next]_vars
  PROVE  LockTypeOK(Keys)'
<1>1. LockTypeOK(Keys) /\ mem \in [Procs -> Memories]
  BY DEF TypeOK
<1>2. UNCHANGED lockVars => LockTypeOK(Keys)'
  BY <1>1 DEF lockVars, LockTypeOK
<1>3. ASSUME NEW p \in Procs, Start(p) PROVE LockTypeOK(Keys)'
  BY <1>1, <1>3 DEF Start, LockTypeOK, MoveTo, Phases
<1>4. ASSUME NEW p \in Procs, Lock(p) \/ Release(p) PROVE LockTypeOK(Keys)'
  BY <1>1, <1>4, LockOperationsTyped DEF Lock, Release
<1>5. ASSUME NEW p \in Procs, Crash(p) PROVE LockTypeOK(Keys)'
  BY <1>1, <1>5 DEF Crash, LockTypeOK, MoveTo, Phases
<1>6. ASSUME NEW p \in Procs, Work(p) PROVE LockTypeOK(Keys)'
  BY <1>1, <1>2, <1>6, WorkMoves
<1>7. ASSUME NEW t \in Targets, Spoil(t) PROVE LockTypeOK(Keys)'
  BY <1>2, <1>7 DEF Spoil
<1>8. ASSUME NEW k \in Keys, OperatorRemoves(k) PROVE LockTypeOK(Keys)'
  BY <1>1, <1>8 DEF OperatorRemoves, OperatorRemovesLock, Past, LockTypeOK
<1>9. CASE UNCHANGED vars
  BY <1>2, <1>9 DEF vars
<1> QED
  BY <1>3, <1>4, <1>5, <1>6, <1>7, <1>8, <1>9 DEF Next, Advance, Work

(* An invocation changes files only by its rename, which puts what it      *)
(* wants in place.                                                         *)
LEMMA FilesMoveAlone ==
  ASSUME AloneInv, NEW p \in Procs, Start(p) \/ Advance(p) \/ Interrupt(p) \/ Crash(p)
  PROVE  \/ UNCHANGED files
         \/ /\ At(p, "promote") /\ mem[p].target \in DOMAIN Wanted[p]
            /\ files' = [files EXCEPT ![mem[p].target] = Wanted[p][mem[p].target]]
<1>1. CASE Promote(p)
  <2>1. DownloadFits(p) /\ At(p, "promote") /\ Fetching(p)
    BY <1>1 DEF AloneInv, Promote, Fetching, At
  <2>2. \/ UNCHANGED files
        \/ parts[p] # NoPart /\ files' = [files EXCEPT ![mem[p].target] = parts[p].body]
    BY <1>1 DEF Promote
  <2> QED
    BY <2>1, <2>2 DEF DownloadFits
<1>2. CASE ~Promote(p)
  BY <1>2 DEF Advance, Start, Lock, Recheck, NextFile, Request, FollowRedirect, OpenRedirect,
     BadResponse, AcceptResponse, Stream, BreakOff, Cleanup, Verify, LocalFault, Release,
     Interrupt, Crash, diskVars
<1> QED
  BY <1>1, <1>2

LEMMA DiskTyped ==
  ASSUME AloneInv, NEW p \in Procs, Start(p) \/ Advance(p) \/ Interrupt(p) \/ Crash(p)
  PROVE  /\ files' \in [Targets -> Contents \cup Spoilt]
         /\ parts' \in [Procs -> PartFiles]
<1>1. /\ files \in [Targets -> Contents \cup Spoilt] /\ parts \in [Procs -> PartFiles]
      /\ DownloadFits(p)
  BY DEF AloneInv, TypeOK
<1>2. files' \in [Targets -> Contents \cup Spoilt]
  BY <1>1, FilesMoveAlone, WantedTyped
<1>3. Fetching(p) => mem[p].target \in Targets /\ Wanted[p][mem[p].target] \in Contents
  BY <1>1, WantedTyped DEF DownloadFits
<1>4. NoPart \in PartFiles
  BY DEF PartFiles
<1> SUFFICES parts' \in [Procs -> PartFiles]
  BY <1>2
<1>5. CASE UNCHANGED parts \/ Drop(p)
  BY <1>1, <1>4, <1>5 DEF Drop
<1>6. CASE /\ At(p, "response")
           /\ parts' = [parts EXCEPT ![p] = [target |-> mem[p].target, body |-> Partial]]
  <2>1. [target |-> mem[p].target, body |-> Partial] \in PartFiles
    BY <1>3, <1>6 DEF PartFiles, Fetching, At
  <2> QED
    BY <1>1, <1>6, <2>1
<1>7. CASE At(p, "stream") /\ parts' = [parts EXCEPT ![p] = Completed(p)]
  <2>1. ASSUME parts[p] # NoPart
        PROVE  [parts[p] EXCEPT !.body = Wanted[p][mem[p].target]] \in PartFiles
    <3>1. parts[p] \in [target : Targets, body : Contents \cup {Partial}]
      BY <1>1, <2>1 DEF PartFiles
    <3> QED
      BY <1>3, <1>7, <3>1 DEF PartFiles, Fetching, At
  <2>2. Completed(p) \in PartFiles
    BY <1>4, <2>1 DEF Completed
  <2> QED
    BY <1>1, <1>7, <2>2
<1>8. CASE parts' = [q \in Procs |-> IF OfManifest(p, parts[q]) THEN NoPart ELSE parts[q]]
  BY <1>1, <1>4, <1>8
<1> QED
  BY <1>5, <1>6, <1>7, <1>8, PartsMoveAlone

(* An invocation that is not downloading, and has nothing to do, fits.     *)
LEMMA NothingToDownload ==
  ASSUME NEW p \in Procs, mem'[p].todo = {},
         mem'[p].pc \in {"release", "done", "dead"}
  PROVE  DownloadFits(p)'
BY DEF DownloadFits, Fetching, At

LEMMA OwnDownload ==
  ASSUME AloneInv, NEW p \in Procs, Start(p) \/ Advance(p) \/ Interrupt(p) \/ Crash(p)
  PROVE  DownloadFits(p)'
<1>1. /\ mem \in [Procs -> Memories] /\ mem[p] \in Memories /\ DownloadFits(p)
      /\ parts \in [Procs -> PartFiles]
  BY DEF AloneInv, TypeOK
<1> USE DEF DownloadFits, Fetching, At
<1>2. ASSUME NEW point \in {"release", "done", "dead"}, NEW outcome,
             Leave(p, point, outcome)
      PROVE  DownloadFits(p)'
  BY <1>1, <1>2, Leaving, NothingToDownload
<1>3. ASSUME NEW outcome, Raise(p, outcome) PROVE DownloadFits(p)'
  BY <1>2, <1>3 DEF Raise
<1>4. ASSUME NEW m, Become(p, m) PROVE mem'[p] = m
  BY <1>1, <1>4 DEF Become
<1>5. ASSUME mem'[p].todo \subseteq mem[p].todo, mem'[p].pc \in {"lock", "recheck", "cleanup"}
      PROVE  DownloadFits(p)'
  BY <1>1, <1>5
<1>6. ASSUME Fetching(p), mem'[p].todo = mem[p].todo, mem'[p].target = mem[p].target,
             mem'[p].pc \in {"request", "response", "redirect", "stream"}
      PROVE  DownloadFits(p)'
  BY <1>1, <1>6
<1>7. CASE Start(p)
  BY <1>1, <1>2, <1>5, <1>7, Going DEF Start
<1>8. CASE Lock(p)
  <2>1. CASE UNCHANGED mem /\ UNCHANGED parts
    BY <1>1, <2>1
  <2>2. CASE Go(p, "recheck")
    BY <1>1, <1>5, <2>2, Going
  <2> QED
    BY <1>2, <1>8, <2>1, <2>2 DEF Lock, diskVars
<1>9. CASE Recheck(p)
  <2>1. CASE Become(p, [mem[p] EXCEPT !.pc = "next", !.todo = Lacking(p)])
    <3>1. mem'[p].pc = "next" /\ mem'[p].todo = Lacking(p)
      BY <1>1, <1>4, <2>1 DEF Memories
    <3> QED
      BY <3>1 DEF Lacking
  <2> QED
    BY <1>3, <1>9, <2>1 DEF Recheck
<1>10. CASE NextFile(p)
  <2>1. ASSUME NEW t \in mem[p].todo,
               Become(p, [mem[p] EXCEPT !.pc = "request", !.target = t, !.attempts = 0])
        PROVE  DownloadFits(p)'
    <3>1. mem'[p].pc = "request" /\ mem'[p].todo = mem[p].todo /\ mem'[p].target = t
      BY <1>1, <1>4, <2>1 DEF Memories
    <3> QED
      BY <1>1, <3>1
  <2>2. CASE Go(p, "cleanup")
    BY <1>1, <1>5, <2>2, Going
  <2> QED
    BY <1>3, <1>10, <2>1, <2>2 DEF NextFile
<1>11. CASE Request(p)
  <2>1. /\ mem'[p].pc = "response" /\ mem'[p].todo = mem[p].todo
        /\ mem'[p].target = mem[p].target
    BY <1>1, <1>4, <1>11 DEF Request, Memories
  <2> QED
    BY <1>6, <1>11, <2>1 DEF Request
<1>12. CASE FollowRedirect(p)
  <2>1. ASSUME NEW n, Become(p, [Reading(mem[p], n) EXCEPT !.pc = "redirect"])
        PROVE  /\ mem'[p].pc = "redirect" /\ mem'[p].todo = mem[p].todo
               /\ mem'[p].target = mem[p].target
    BY <1>1, <1>4, <2>1 DEF Memories, Reading
  <2> QED
    BY <1>3, <1>6, <1>12, <2>1 DEF FollowRedirect
<1>13. CASE BadResponse(p) \/ LocalFault(p)
  BY <1>3, <1>13 DEF BadResponse, LocalFault
<1>14. CASE AcceptResponse(p)
  BY <1>1, <1>3, <1>6, <1>14, Going DEF AcceptResponse
<1>15. CASE Stream(p)
  <2>1. ASSUME NEW n, NEW m, m = [Reading(mem[p], n) EXCEPT !.written = @ + n]
        PROVE  /\ m.todo = mem[p].todo /\ m.target = mem[p].target /\ m.pc = mem[p].pc
               /\ [m EXCEPT !.pc = "promote"].todo = mem[p].todo
               /\ [m EXCEPT !.pc = "promote"].target = mem[p].target
               /\ [m EXCEPT !.pc = "promote"].pc = "promote"
    BY <1>1, <2>1 DEF Memories, Reading
  <2>2. ASSUME NEW n, NEW m, m = [Reading(mem[p], n) EXCEPT !.written = @ + n], Become(p, m)
        PROVE  DownloadFits(p)'
    BY <1>4, <1>6, <1>15, <2>1, <2>2 DEF Stream
  <2>3. ASSUME NEW n, NEW m, m = [Reading(mem[p], n) EXCEPT !.written = @ + n],
               Become(p, [m EXCEPT !.pc = "promote"]),
               parts' = [parts EXCEPT ![p] = Completed(p)]
        PROVE  DownloadFits(p)'
    <3> DEFINE e == [m EXCEPT !.pc = "promote"]
    <3>1. e.pc = "promote" /\ e.todo = mem[p].todo /\ e.target = mem[p].target
      BY <2>1, <2>3, Zenon
    <3> HIDE DEF e
    <3>2. mem'[p] = e
      BY <1>4, <2>3 DEF e
    <3>3. parts'[p] # NoPart => parts'[p].body = Wanted[p][mem[p].target]
      BY <1>1, <2>3 DEF Completed, PartFiles
    <3> QED
      BY <1>1, <1>15, <3>1, <3>2, <3>3 DEF Stream
  <2> QED
    BY <1>3, <1>15, <2>2, <2>3 DEF Stream, DigestMatches, Completed
<1>16. CASE BreakOff(p)
  <2>1. ASSUME NEW n, NEW l, Become(p, [Losing(Reading(mem[p], n), l) EXCEPT !.pc = "request"])
        PROVE  /\ mem'[p].pc = "request" /\ mem'[p].todo = mem[p].todo
               /\ mem'[p].target = mem[p].target
    BY <1>1, <1>4, <2>1 DEF Memories, Reading, Losing
  <2> QED
    BY <1>3, <1>6, <1>16, <2>1 DEF BreakOff
<1>17. CASE Promote(p)
  <2>1. CASE Become(p, [mem[p] EXCEPT !.pc = "next", !.todo = @ \ {mem[p].target}])
    <3>1. mem'[p].pc = "next" /\ mem'[p].todo = mem[p].todo \ {mem[p].target}
      BY <1>1, <1>4, <2>1 DEF Memories
    <3> QED
      BY <1>1, <3>1
  <2> QED
    BY <1>3, <1>17, <2>1 DEF Promote
<1>18. CASE Cleanup(p)
  <2>1. mem'[p].pc = "verify" /\ mem'[p].todo = DOMAIN Wanted[p]
    BY <1>1, <1>4, <1>18 DEF Cleanup, Memories
  <2> QED
    BY <2>1
<1>19. CASE Verify(p)
  <2>1. ASSUME NEW t, Become(p, [mem[p] EXCEPT !.todo = @ \ {t}])
        PROVE  mem'[p].pc = mem[p].pc /\ mem'[p].todo \subseteq mem[p].todo
    BY <1>1, <1>4, <2>1 DEF Memories
  <2>2. ASSUME NEW t, Become(p, [mem[p] EXCEPT !.todo = @ \ {t}]) PROVE DownloadFits(p)'
    BY <1>1, <1>19, <2>1, <2>2 DEF Verify
  <2> QED
    BY <1>2, <1>3, <1>19, <2>2 DEF Verify
<1>20. CASE Release(p)
  <2>1. CASE UNCHANGED mem /\ UNCHANGED parts
    BY <1>1, <2>1
  <2> QED
    BY <1>2, <1>20, <2>1 DEF Release, diskVars
<1>21. CASE Interrupt(p) \/ Crash(p)
  BY <1>2, <1>21 DEF Interrupt, Crash
<1>22. CASE OpenRedirect(p)
  BY <1>1, <1>6, <1>22, Going DEF OpenRedirect
<1> QED
  BY <1>7, <1>8, <1>9, <1>10, <1>11, <1>12, <1>13, <1>14, <1>15, <1>16, <1>17, <1>18, <1>19,
     <1>20, <1>21, <1>22 DEF Advance

(* Others only ever remove a temporary file.                               *)
LEMMA OthersDownload ==
  ASSUME AloneInv, NEW p \in Procs, NEW q \in Procs, p # q,
         Start(p) \/ Advance(p) \/ Interrupt(p) \/ Crash(p)
  PROVE  DownloadFits(q)'
<1>1. mem'[q] = mem[q]
  BY MemoryStep DEF AloneInv, TypeOK, Moved
<1>2. DownloadFits(q) /\ parts \in [Procs -> PartFiles]
  BY DEF AloneInv, TypeOK
<1>3. parts'[q] \in {parts[q], NoPart}
  <2>1. CASE UNCHANGED parts \/ \E x : parts' = [parts EXCEPT ![p] = x]
    BY <1>2, <2>1
  <2>2. CASE parts' = [r \in Procs |-> IF OfManifest(p, parts[r]) THEN NoPart ELSE parts[r]]
    BY <2>2
  <2> QED
    BY <2>1, <2>2, PartsMoveAlone DEF Drop
<1> QED
  BY <1>1, <1>2, <1>3 DEF DownloadFits, Fetching, At

LEMMA AloneStep ==
  ASSUME AloneInv, [Next]_vars
  PROVE  AloneInv'
<1>1. LockTypeOK(Keys)'
  BY LockTyped DEF AloneInv
<1>2. ASSUME NEW p \in Procs, Start(p) \/ Advance(p) \/ Interrupt(p) \/ Crash(p)
      PROVE  AloneInv'
  <2>1. Moved(p)
    BY <1>2, MemoryStep DEF AloneInv
  <2>2. crashes' \in Nat /\ spoils' \in Nat
    <3>1. crashes \in Nat /\ spoils \in Nat
      BY DEF AloneInv, TypeOK
    <3>2. UNCHANGED spoils /\ crashes' \in {crashes, crashes + 1}
      BY <1>2 DEF Advance, Start, Lock, Recheck, NextFile, Request, FollowRedirect, OpenRedirect,
         BadResponse, AcceptResponse, Stream, BreakOff, Promote, Cleanup, Verify, LocalFault,
         Release, Interrupt, Crash, World
    <3> QED
      BY <3>1, <3>2
  <2>3. TypeOK'
    BY <1>1, <1>2, <2>1, <2>2, DiskTyped DEF TypeOK, Moved
  <2>4. ASSUME NEW q \in Procs
        PROVE  mem'[q].wire = mem'[q].received /\ mem'[q].wire <= Allowance[q]
    <3>1. CASE q = p
      BY <2>1, <3>1 DEF Moved, Budgeted
    <3>2. CASE q # p
      BY <2>1, <3>2 DEF AloneInv, TypeOK, BudgetInv, Moved
    <3> QED
      BY <3>1, <3>2
  <2>5. \A q \in Procs : DownloadFits(q)'
    BY <1>2, OwnDownload, OthersDownload
  <2> QED
    BY <2>3, <2>4, <2>5 DEF AloneInv, BudgetInv
<1>3. ASSUME UNCHANGED <<parts, mem, crashes>>, spoils' \in Nat,
             files' \in [Targets -> Contents \cup Spoilt]
      PROVE  AloneInv'
  <2>1. TypeOK'
    BY <1>1, <1>3 DEF AloneInv, TypeOK
  <2>2. BudgetInv' /\ \A p \in Procs : DownloadFits(p)'
    BY <1>3 DEF AloneInv, BudgetInv, DownloadFits, Fetching, At
  <2> QED
    BY <2>1, <2>2 DEF AloneInv
<1>4. spoils \in Nat /\ files \in [Targets -> Contents \cup Spoilt]
  BY DEF AloneInv, TypeOK
<1>5. ASSUME NEW t \in Targets, Spoil(t) PROVE AloneInv'
  BY <1>3, <1>4, <1>5 DEF Spoil
<1>6. ASSUME NEW k \in Keys, OperatorRemoves(k) PROVE AloneInv'
  BY <1>3, <1>4, <1>6 DEF OperatorRemoves, diskVars, World
<1>7. CASE UNCHANGED vars
  BY <1>3, <1>4, <1>7 DEF vars, diskVars
<1> QED
  BY <1>2, <1>5, <1>6, <1>7 DEF Next

(* Each invocation's memory, its temporary file and its budget stay sound  *)
(* whatever becomes of the locks.                                          *)
THEOREM AloneInvariant == Spec => []AloneInv
  BY AloneInit, AloneStep, PTL DEF Spec

(* Type correctness.                                                       *)
THEOREM TypeCorrect == Spec => []TypeOK
<1>1. AloneInv => TypeOK
  BY DEF AloneInv
<1> QED
  BY <1>1, AloneInvariant, PTL

(* No invocation reads more than it was allowed (_TransferBudget): the     *)
(* budget does not depend on the lock.                                     *)
THEOREM WithinBudget == Spec => []BudgetRespected
<1>1. AloneInv => BudgetRespected
  BY DEF AloneInv, BudgetInv, BudgetRespected
<1> QED
  BY <1>1, AloneInvariant, PTL

(* What appears at a final path is what the manifest of the invocation     *)
(* that puts it there wants (_stream_once compares the digest before it    *)
(* renames), also when locks are removed under running acquisitions; all   *)
(* else that changes files is done by others.                              *)
OnlyWantedAppears ==
  [][\A t \in Targets : files'[t] # files[t] =>
       \/ \E p \in Procs :
            /\ At(p, "promote") /\ t \in DOMAIN Wanted[p]
            /\ files'[t] = Wanted[p][t]
       \/ spoils' = spoils + 1]_vars

THEOREM PublishesWanted == Spec => OnlyWantedAppears
<1> DEFINE Wants == \A t \in Targets : files'[t] # files[t] =>
                      \/ \E p \in Procs :
                           /\ At(p, "promote") /\ t \in DOMAIN Wanted[p]
                           /\ files'[t] = Wanted[p][t]
                      \/ spoils' = spoils + 1
<1>1. ASSUME AloneInv, [Next]_vars PROVE Wants
  <2>1. files \in [Targets -> Contents \cup Spoilt]
    BY <1>1 DEF AloneInv, TypeOK
  <2>2. ASSUME NEW p \in Procs, Start(p) \/ Advance(p) \/ Interrupt(p) \/ Crash(p)
        PROVE  Wants
    BY <1>1, <2>1, <2>2, FilesMoveAlone
  <2>3. ASSUME NEW t \in Targets, Spoil(t) PROVE Wants
    BY <2>3 DEF Spoil
  <2>4. ASSUME NEW k \in Keys, OperatorRemoves(k) PROVE Wants
    BY <2>4 DEF OperatorRemoves, diskVars
  <2>5. CASE UNCHANGED vars
    BY <2>5 DEF vars, diskVars
  <2> QED
    BY <1>1, <2>2, <2>3, <2>4, <2>5 DEF Next
<1>2. AloneInv /\ [Next]_vars => [Wants]_vars
  BY <1>1
<1>3. []AloneInv /\ [][Next]_vars => [][Wants]_vars
  BY <1>2, PTL
<1> QED
  BY <1>3, AloneInvariant, PTL DEF Spec, OnlyWantedAppears
==============================================================================
