--------------------------- MODULE ModelCacheProofs ---------------------------
(***************************************************************************)
(* What locks are good for.  An invocation whose lock no operator removes  *)
(* under it is alone under its lock key, and its lock stands, whatever     *)
(* happened to the locks of others while they worked; and as long as no    *)
(* lock in use is removed, all that invocations know about files they      *)
(* share is true.  Any number of acquisitions, any manifests and           *)
(* allowances and every bound.                                             *)
(***************************************************************************)
EXTENDS ModelCacheAlone

(* Manifests that reach the same directory share their lock.               *)
LEMMA KeyIsFirstName ==
  ASSUME NEW p \in Procs, NEW t \in DOMAIN Wanted[p]
  PROVE  /\ t \in Seq(Names) /\ Len(t) > 1 /\ t[1] = LockKey(p)
         /\ Dir(t) \in Seq(Names) /\ Dir(t)[1] = LockKey(p)
<1> DEFINE n == Namespace[p]
<1>1. /\ t \in Seq(Names) /\ n \in Seq(Names)
      /\ Len(n) > 0 /\ Len(t) > Len(n) /\ SubSeq(t, 1, Len(n)) = n
  BY ManifestAssumption DEF Parsed
<1>2. Len(t) \in Nat /\ Len(n) \in Nat
  BY <1>1
<1>3. t[1] = n[1]
  BY <1>1, <1>2
<1>4. n[1] = LockKey(p)
  BY <1>1 DEF LockKey
<1>5. Dir(t) = SubSeq(t, 1, Len(t) - 1)
  BY DEF Dir, Front
<1>6. Dir(t) \in Seq(Names) /\ Dir(t)[1] = t[1]
  BY <1>1, <1>2, <1>5
<1> QED
  BY <1>1, <1>2, <1>3, <1>4, <1>6

LEMMA SameDirSameKey ==
  ASSUME NEW p \in Procs, NEW q \in Procs,
         NEW t \in DOMAIN Wanted[p], NEW u \in DOMAIN Wanted[q], Dir(t) = Dir(u)
  PROVE  LockKey(p) = LockKey(q)
  BY KeyIsFirstName

LEMMA SameTargetSameKey ==
  ASSUME NEW p \in Procs, NEW q \in Procs, NEW t \in DOMAIN Wanted[p], t \in DOMAIN Wanted[q]
  PROVE  LockKey(p) = LockKey(q)
  BY SameDirSameKey

(* Beside an undisturbed owner there is at most one whose own lock was     *)
(* removed while it worked.                                                *)
LEMMA OneEngaged ==
  ASSUME LockInv, NEW p \in Procs, NEW q \in Procs, p # q, LockKey(p) = LockKey(q),
         Undisturbed(q), Engaged(q), Engaged(p)
  PROVE  phase[p] = "held" /\ <<p, "held">> \in robbed
<1>1. lockDir[LockKey(p)] = q
  BY DEF LockInv, Owns
<1>2. ~Undisturbed(p)
  BY <1>1 DEF LockInv, Owns
<1>3. <<p, "held">> \in robbed
  BY <1>2 DEF Undisturbed
<1> QED
  BY <1>3 DEF LockInv, Dispossessed, Engaged

(* What was removed stays on record.                                       *)
LEMMA RobbedGrows ==
  ASSUME [Next]_vars, mem \in [Procs -> Memories]
  PROVE  robbed \subseteq robbed'
<1>1. ASSUME NEW p \in Procs, Start(p) \/ Lock(p) \/ Release(p) \/ Crash(p)
      PROVE  UNCHANGED robbed
  BY <1>1 DEF Start, Lock, Release, Crash, MakeLock, WriteOwner, GiveUp, OwnerNotWritten,
     ConfirmOwner, UnlinkOwner, RemoveLock, MoveTo
<1>2. ASSUME NEW p \in Procs, Work(p) PROVE UNCHANGED robbed
  BY <1>2, WorkMoves DEF lockVars
<1>3. ASSUME NEW t \in Targets, Spoil(t) PROVE UNCHANGED robbed
  BY <1>3 DEF Spoil, lockVars
<1>4. ASSUME NEW k \in Keys, OperatorRemoves(k) PROVE robbed \subseteq robbed'
  BY <1>4 DEF OperatorRemoves, OperatorRemovesLock
<1>5. CASE UNCHANGED vars
  BY <1>5 DEF vars, lockVars
<1> QED
  BY <1>1, <1>2, <1>3, <1>4, <1>5 DEF Next, Advance, Work

-----------------------------------------------------------------------------
(* The lock.                                                               *)

(* Lock operations of one invocation leave the locks of the others alone.  *)
LEMMA LockOperations ==
  ASSUME LockTypeOK(Keys), LockInv, NEW p \in Procs,
         \/ MakeLock(p, LockKey(p)) \/ WriteOwner(p, LockKey(p)) \/ GiveUp(p, LockKey(p))
         \/ OwnerNotWritten(p, LockKey(p)) \/ ConfirmOwner(p, LockKey(p))
         \/ UnlinkOwner(p, LockKey(p)) \/ RemoveLock(p, LockKey(p))
  PROVE  /\ \A q \in Procs : Owns(q)'
         /\ \A q \in Procs \ {p} : phase'[q] = phase[q]
         /\ UNCHANGED robbed
<1>1. LockKey(p) \in Keys
  BY KeysOfProcs
<1>2. /\ phase'[p] \in Phases /\ phase' = [phase EXCEPT ![p] = phase'[p]]
      /\ UNCHANGED robbed
      /\ \A q \in Procs : Undisturbed(q)' = Undisturbed(q)
  BY LockOperationsTyped DEF Undisturbed
<1>3. \A q \in Procs \ {p} : phase'[q] = phase[q]
  BY <1>2 DEF LockTypeOK
<1>4. Owns(p)'
  <2>1. Owns(p)
    BY DEF LockInv
  <2>2. CASE MakeLock(p, LockKey(p))
    BY <1>1, <2>2 DEF LockTypeOK, MakeLock, MoveTo, Owns
  <2>3. CASE WriteOwner(p, LockKey(p)) \/ ConfirmOwner(p, LockKey(p))
    BY <1>1, <1>2, <2>1, <2>3 DEF LockTypeOK, WriteOwner, ConfirmOwner, MoveTo, Owns, Engaged
  <2>4. CASE UnlinkOwner(p, LockKey(p))
    BY <1>2, <2>1, <2>4 DEF LockTypeOK, UnlinkOwner, MoveTo, Owns, Engaged
  <2>5. CASE GiveUp(p, LockKey(p)) \/ OwnerNotWritten(p, LockKey(p))
             \/ RemoveLock(p, LockKey(p))
    <3>1. phase'[p] = "out"
      BY <2>5 DEF LockTypeOK, GiveUp, OwnerNotWritten, RemoveLock, MoveTo
    <3> QED
      BY <3>1 DEF Owns, Engaged
  <2> QED
    BY <2>2, <2>3, <2>4, <2>5
(* While an undisturbed q is engaged, p cannot make their common lock, and *)
(* if p once had it, p's release ends with the comparison.                 *)
<1>5. ASSUME NEW q \in Procs, q # p PROVE Owns(q)'
  <2>1. Owns(q) /\ phase'[q] = phase[q] /\ LockKey(q) \in Keys
    BY <1>3, <1>5, KeysOfProcs DEF LockInv
  <2>2. CASE ~Engaged(q) \/ ~Undisturbed(q)
    BY <1>2, <2>1, <2>2 DEF Owns, Engaged
  <2>3. CASE Engaged(q) /\ LockKey(q) # LockKey(p)
    <3>1. /\ lockDir'[LockKey(q)] = lockDir[LockKey(q)]
          /\ ownerFile'[LockKey(q)] = ownerFile[LockKey(q)]
      BY <1>1, <2>1, <2>3
      DEF LockTypeOK, MakeLock, WriteOwner, GiveUp, OwnerNotWritten, ConfirmOwner,
          UnlinkOwner, RemoveLock
    <3> QED
      BY <1>2, <2>1, <3>1 DEF Owns, Engaged
  <2>4. CASE Engaged(q) /\ Undisturbed(q) /\ LockKey(q) = LockKey(p)
    <3>1. lockDir[LockKey(p)] # NoOne
      BY <2>1, <2>4, LockAssumption DEF Owns
    <3>2. Engaged(p) => phase[p] = "held" /\ ownerFile[LockKey(p)] # p
      BY <1>5, <2>4, OneEngaged DEF LockInv, Dispossessed
    <3>3. UNCHANGED <<lockDir, ownerFile>>
      BY <3>1, <3>2
      DEF Engaged, MakeLock, WriteOwner, GiveUp, OwnerNotWritten, ConfirmOwner, UnlinkOwner,
          RemoveLock
    <3> QED
      BY <1>2, <2>1, <3>3 DEF Owns, Engaged
  <2> QED
    BY <2>2, <2>3, <2>4
<1> QED
  BY <1>2, <1>3, <1>4, <1>5

(* An owner whose lock was removed under it never finds its token again.   *)
LEMMA NeverReturned ==
  ASSUME LockTypeOK(Keys), LockInv, NEW p \in Procs, NEW q \in Procs,
         \/ MakeLock(p, LockKey(p)) \/ WriteOwner(p, LockKey(p)) \/ GiveUp(p, LockKey(p))
         \/ OwnerNotWritten(p, LockKey(p)) \/ ConfirmOwner(p, LockKey(p))
         \/ UnlinkOwner(p, LockKey(p)) \/ RemoveLock(p, LockKey(p)),
         <<q, "held">> \in robbed'
  PROVE  /\ phase'[q] \in {"held", "out"}
         /\ phase'[q] = "held" => ownerFile'[LockKey(q)] # q
<1>1. LockKey(p) \in Keys /\ LockKey(q) \in Keys
  BY KeysOfProcs
<1>2. /\ phase'[p] \in Phases /\ phase' = [phase EXCEPT ![p] = phase'[p]]
      /\ UNCHANGED robbed
  BY LockOperationsTyped
<1>3. /\ phase[q] \in {"held", "out"}
      /\ phase[q] = "held" => ownerFile[LockKey(q)] # q
  BY <1>2 DEF LockInv, Dispossessed
<1>4. CASE q = p
  <2>1. phase[p] = "held" /\ ConfirmOwner(p, LockKey(p))
    BY <1>3, <1>4 DEF MakeLock, WriteOwner, GiveUp, OwnerNotWritten, ConfirmOwner, UnlinkOwner,
       RemoveLock
  <2> QED
    BY <1>3, <1>4, <2>1 DEF ConfirmOwner, MoveTo, LockTypeOK
<1>5. CASE q # p
  <2>1. phase'[q] = phase[q]
    BY <1>2, <1>5 DEF LockTypeOK
  <2>2. ownerFile'[LockKey(q)] \in {ownerFile[LockKey(q)], p, Unreadable, NoOne}
    BY <1>1 DEF LockTypeOK, MakeLock, WriteOwner, GiveUp, OwnerNotWritten, ConfirmOwner,
       UnlinkOwner, RemoveLock
  <2> QED
    BY <1>3, <1>5, <2>1, <2>2, LockAssumption
<1> QED
  BY <1>4, <1>5

LEMMA LockStep ==
  ASSUME TypeOK, LockInv, [Next]_vars
  PROVE  LockInv'
<1> USE DEF Memories
<1>1. ASSUME NEW p \in Procs, Work(p) PROVE LockInv'
  <2>1. mem \in [Procs -> Memories]
    BY DEF TypeOK
  <2>2. /\ UNCHANGED lockVars
        /\ mem[p].pc \in PointsUnderLock
        /\ mem' = [mem EXCEPT ![p] = mem'[p]]
        /\ mem'[p].pc \in PointsUnderLock \cup {"release"}
    BY <1>1, <2>1, WorkMoves
  <2>3. PhaseFits(p)' /\ ~At(p, "idle")'
    BY <2>2 DEF LockInv, PhaseFits, lockVars, At, PointsUnderLock
  <2>4. ASSUME NEW q \in Procs, q # p PROVE PhaseFits(q)' /\ At(q, "idle")' = At(q, "idle")
    BY <2>1, <2>2, <2>4 DEF LockInv, PhaseFits, lockVars, At
  <2>5. ASSUME NEW q \in Procs PROVE Owns(q)' /\ Dispossessed(q)'
    BY <2>2, <2>3, <2>4 DEF LockInv, Owns, Dispossessed, Undisturbed, Engaged, lockVars
  <2> QED
    BY <2>3, <2>4, <2>5 DEF LockInv
<1>2. ASSUME NEW p \in Procs, Start(p) PROVE LockInv'
  <2>1. /\ UNCHANGED <<lockDir, ownerFile, robbed>>
        /\ At(p, "idle") /\ phase[p] = "out"
        /\ \A q \in Procs : Undisturbed(q)' = Undisturbed(q)
    BY <1>2 DEF LockInv, PhaseFits, Start, At, MoveTo, Undisturbed
  <2>2. /\ mem' = [mem EXCEPT ![p] = mem'[p]] /\ phase' = [phase EXCEPT ![p] = phase'[p]]
        /\ \/ mem'[p].pc = "done" /\ phase'[p] = "out"
           \/ mem'[p].pc = "lock" /\ phase'[p] = "polling"
    <3>1. CASE Leave(p, "done", "POLICY_REFUSAL") /\ UNCHANGED phase
      BY <2>1, <3>1, Leaving DEF TypeOK, LockTypeOK
    <3>2. CASE Go(p, "lock") /\ phase' = [phase EXCEPT ![p] = "polling"]
      BY <3>2, Going DEF TypeOK, LockTypeOK
    <3> QED
      BY <1>2, <3>1, <3>2 DEF Start, MoveTo
  <2>3. \A q \in Procs \ {p} : mem'[q] = mem[q] /\ phase'[q] = phase[q]
    BY <2>2 DEF TypeOK, LockTypeOK
  <2>4. PhaseFits(p)' /\ Owns(p)'
    BY <2>2 DEF PhaseFits, Owns, Engaged, At, PointsUnderLock
  <2>5. Dispossessed(p)'
    BY <2>1 DEF LockInv, Dispossessed
  <2>6. ASSUME NEW q \in Procs, q # p PROVE PhaseFits(q)' /\ Owns(q)' /\ Dispossessed(q)'
    BY <2>1, <2>3, <2>6 DEF LockInv, PhaseFits, Owns, Dispossessed, Engaged, At
  <2> QED
    BY <2>4, <2>5, <2>6 DEF LockInv
<1>3. ASSUME NEW p \in Procs, Lock(p) PROVE LockInv'
  <2>1. /\ \A q \in Procs : Owns(q)'
        /\ \A q \in Procs \ {p} : phase'[q] = phase[q]
        /\ UNCHANGED robbed
    BY <1>3, LockOperations DEF TypeOK, Lock
  <2>2. \A q \in Procs \ {p} : mem'[q] = mem[q]
    BY <1>3 DEF Lock, Go, Leave, Become, TypeOK
  <2>3. PhaseFits(p)' /\ ~At(p, "idle")'
    <3>1. CASE MakeLock(p, LockKey(p)) /\ UNCHANGED mem
      BY <1>3, <3>1 DEF TypeOK, LockTypeOK, Lock, MakeLock, PhaseFits, MoveTo, At, PointsUnderLock
    <3>2. CASE WriteOwner(p, LockKey(p)) /\ Go(p, "recheck")
      BY <3>2, Going DEF TypeOK, LockTypeOK, WriteOwner, PhaseFits, MoveTo, At
    <3>3. CASE /\ GiveUp(p, LockKey(p)) \/ OwnerNotWritten(p, LockKey(p))
               /\ Leave(p, "done", "LOCK_CONFLICT")
      BY <3>3, Leaving
      DEF TypeOK, LockTypeOK, GiveUp, OwnerNotWritten, PhaseFits, MoveTo, At, PointsUnderLock
    <3> QED
      BY <1>3, <3>1, <3>2, <3>3 DEF Lock
  <2>4. ASSUME NEW q \in Procs PROVE Dispossessed(q)'
    <3>1. ~At(q, "idle") => ~At(q, "idle")'
      BY <2>2, <2>3 DEF At
    <3>2. <<q, "held">> \in robbed =>
            /\ phase'[q] \in {"held", "out"}
            /\ phase'[q] = "held" => ownerFile'[LockKey(q)] # q
      BY <1>3, <2>1, NeverReturned DEF TypeOK, Lock
    <3> QED
      BY <2>1, <3>1, <3>2 DEF LockInv, Dispossessed
  <2> QED
    BY <2>1, <2>2, <2>3, <2>4 DEF LockInv, PhaseFits, At
<1>4. ASSUME NEW p \in Procs, Release(p) PROVE LockInv'
  <2>1. /\ \A q \in Procs : Owns(q)'
        /\ \A q \in Procs \ {p} : phase'[q] = phase[q]
        /\ UNCHANGED robbed
    BY <1>4, LockOperations DEF TypeOK, Release
  <2>2. \A q \in Procs \ {p} : mem'[q] = mem[q]
    BY <1>4 DEF Release, Leave, Become, TypeOK
  <2>3. PhaseFits(p)' /\ ~At(p, "idle")'
    <3>1. phase'[p] \in {"out", "confirmed", "unlinked"}
      BY <1>4 DEF TypeOK, LockTypeOK, Release, ConfirmOwner, UnlinkOwner, RemoveLock, MoveTo
    <3>2. CASE phase'[p] = "out"
      BY <1>4, <3>2, Leaving DEF TypeOK, Release, PhaseFits, At, PointsUnderLock
    <3>3. CASE phase'[p] # "out"
      BY <1>4, <3>1, <3>3 DEF TypeOK, Release, PhaseFits, At, PointsUnderLock
    <3> QED
      BY <3>2, <3>3
  <2>4. ASSUME NEW q \in Procs PROVE Dispossessed(q)'
    <3>1. ~At(q, "idle") => ~At(q, "idle")'
      BY <2>2, <2>3 DEF At
    <3>2. <<q, "held">> \in robbed =>
            /\ phase'[q] \in {"held", "out"}
            /\ phase'[q] = "held" => ownerFile'[LockKey(q)] # q
      BY <1>4, <2>1, NeverReturned DEF TypeOK, Release
    <3> QED
      BY <2>1, <3>1, <3>2 DEF LockInv, Dispossessed
  <2> QED
    BY <2>1, <2>2, <2>3, <2>4 DEF LockInv, PhaseFits, At
<1>5. ASSUME NEW p \in Procs, Crash(p) PROVE LockInv'
  <2>1. /\ UNCHANGED <<lockDir, ownerFile, robbed>>
        /\ \A q \in Procs : Undisturbed(q)' = Undisturbed(q)
        /\ mem'[p].pc = "dead" /\ phase'[p] = "out"
        /\ \A q \in Procs \ {p} : mem'[q] = mem[q] /\ phase'[q] = phase[q]
    BY <1>5, Leaving DEF TypeOK, LockTypeOK, Crash, MoveTo, Undisturbed
  <2>2. PhaseFits(p)' /\ Owns(p)' /\ Dispossessed(p)'
    BY <2>1 DEF PhaseFits, Owns, Dispossessed, Engaged, At, PointsUnderLock
  <2>3. ASSUME NEW q \in Procs, q # p PROVE PhaseFits(q)' /\ Owns(q)' /\ Dispossessed(q)'
    BY <2>1, <2>3 DEF LockInv, PhaseFits, Owns, Dispossessed, Engaged, At
  <2> QED
    BY <2>2, <2>3 DEF LockInv
<1>6. ASSUME UNCHANGED <<lockVars, mem>> PROVE LockInv'
  BY <1>6 DEF LockInv, PhaseFits, Owns, Dispossessed, Undisturbed, Engaged, lockVars, At
(* Whoever works under the lock that is removed is on record from then on. *)
<1>7. ASSUME NEW k \in Keys, OperatorRemoves(k) PROVE LockInv'
  <2>1. /\ UNCHANGED <<mem, phase>>
        /\ lockDir' = [lockDir EXCEPT ![k] = NoOne]
        /\ ownerFile' = [ownerFile EXCEPT ![k] = NoOne]
        /\ robbed' = robbed \cup {<<p, phase[p]>> : p \in {q \in Procs : LockKey(q) = k /\ Past(q)}}
    BY <1>7 DEF OperatorRemoves, OperatorRemovesLock
  <2>2. ASSUME NEW p \in Procs PROVE PhaseFits(p)'
    BY <2>1 DEF LockInv, PhaseFits, At
  <2>3. ASSUME NEW p \in Procs PROVE Owns(p)'
    <3>1. CASE LockKey(p) = k /\ Engaged(p)
      <4>1. <<p, phase[p]>> \in robbed'
        BY <2>1, <3>1 DEF Past, Engaged
      <4>2. ~Undisturbed(p)'
        BY <4>1 DEF Undisturbed
      <4> QED
        BY <4>2 DEF Owns
    <3>2. CASE ~Engaged(p)
      BY <2>1, <3>2 DEF Owns, Engaged
    <3>3. CASE LockKey(p) # k
      <4>1. Undisturbed(p)' => Undisturbed(p)
        BY <2>1 DEF Undisturbed
      <4>2. /\ lockDir'[LockKey(p)] = lockDir[LockKey(p)]
            /\ ownerFile'[LockKey(p)] = ownerFile[LockKey(p)]
        BY <2>1, <3>3, KeysOfProcs DEF TypeOK, LockTypeOK
      <4> QED
        BY <2>1, <4>1, <4>2 DEF LockInv, Owns, Engaged
    <3> QED
      BY <3>1, <3>2, <3>3
  <2>4. ASSUME NEW p \in Procs PROVE Dispossessed(p)'
    <3>1. /\ p # NoOne /\ LockKey(p) \in Keys
          /\ ownerFile'[LockKey(p)] \in {ownerFile[LockKey(p)], NoOne}
      BY <2>1, LockAssumption, KeysOfProcs DEF TypeOK, LockTypeOK
    <3>2. CASE <<p, "held">> \in robbed
      BY <2>1, <3>1, <3>2 DEF LockInv, Dispossessed, At
    <3>3. CASE <<p, "held">> \in robbed' /\ <<p, "held">> \notin robbed
      <4>1. phase[p] = "held" /\ LockKey(p) = k
        BY <2>1, <3>3
      <4>2. ownerFile'[LockKey(p)] = NoOne
        BY <2>1, <3>1, <4>1 DEF TypeOK, LockTypeOK
      <4>3. ~At(p, "idle")
        BY <4>1 DEF LockInv, PhaseFits, At
      <4> QED
        BY <2>1, <3>1, <4>1, <4>2, <4>3 DEF Dispossessed, At
    <3>4. CASE <<p, "held">> \notin robbed'
      BY <3>4 DEF Dispossessed
    <3> QED
      BY <3>2, <3>3, <3>4
  <2> QED
    BY <2>2, <2>3, <2>4 DEF LockInv
<1>8. ASSUME NEW t \in Targets, Spoil(t) PROVE UNCHANGED <<lockVars, mem>>
  BY <1>8 DEF Spoil, lockVars
<1> QED
  BY <1>1, <1>2, <1>3, <1>4, <1>5, <1>6, <1>7, <1>8 DEF Next, Advance, Work, vars
-----------------------------------------------------------------------------
(* The files.                                                              *)

(* What a step of an invocation does to the files: it changes them only    *)
(* when it promotes, to what it wants.                                     *)
LEMMA FilesMove ==
  ASSUME IInv, robbed = {}, NEW p \in Procs, Start(p) \/ Advance(p) \/ Interrupt(p) \/ Crash(p)
  PROVE  \/ UNCHANGED files
         \/ /\ At(p, "promote") /\ Promote(p)
            /\ mem[p].target \in Lacking(p)
            /\ files' = [files EXCEPT ![mem[p].target] = Wanted[p][mem[p].target]]
<1>1. CASE Promote(p)
  <2>1. At(p, "promote") /\ Fetching(p)
    BY <1>1 DEF Promote, Fetching, At
  <2>2. mem[p].target \in Lacking(p) /\ parts[p].body = Wanted[p][mem[p].target]
    BY <2>1 DEF IInv, TodoInv, TodoFits, PartInv, PartFits
  <2>3. UNCHANGED files \/ files' = [files EXCEPT ![mem[p].target] = parts[p].body]
    BY <1>1 DEF Promote
  <2> QED
    BY <1>1, <2>1, <2>2, <2>3, Zenon
<1>2. CASE ~Promote(p)
  BY <1>2 DEF Advance, Start, Lock, Recheck, NextFile, Request, FollowRedirect, OpenRedirect,
     BadResponse, AcceptResponse, Stream, BreakOff, Cleanup, Verify, LocalFault, Release,
     Interrupt, Crash, diskVars
<1> QED
  BY <1>1, <1>2

(* What it does to the temporary files: it changes its own, or, cleaning   *)
(* up, removes those beside the files of its manifest.                     *)
LEMMA PartsMove ==
  ASSUME IInv, robbed = {}, NEW p \in Procs, Start(p) \/ Advance(p) \/ Interrupt(p) \/ Crash(p)
  PROVE  \/ UNCHANGED parts
         \/ Drop(p)
         \/ /\ At(p, "response") /\ AcceptResponse(p)
            /\ parts' = [parts EXCEPT ![p] = [target |-> mem[p].target, body |-> Partial]]
         \/ /\ At(p, "stream") /\ Stream(p)
            /\ parts' = [parts EXCEPT ![p] = [parts[p] EXCEPT
                                                !.body = Wanted[p][mem[p].target]]]
         \/ /\ At(p, "cleanup") /\ Cleanup(p)
            /\ parts' = [q \in Procs |-> IF OfManifest(p, parts[q]) THEN NoPart ELSE parts[q]]
<1>1. At(p, "stream") => parts[p] # NoPart
  BY DEF IInv, PartInv, PartFits, At
<1> QED
  BY <1>1, PartsMoveAlone DEF Completed

-----------------------------------------------------------------------------
(* What an invocation knows stays true while others move.                  *)

LEMMA Apart ==
  ASSUME LockInv, NEW p \in Procs, NEW q \in Procs, p # q, Undisturbed(p), Undisturbed(q),
         mem[p].pc \in PointsUnderLock \cup {"release"},
         mem[q].pc \in PointsUnderLock \cup {"release"}
  PROVE  LockKey(p) # LockKey(q)
<1>1. Engaged(p) /\ Engaged(q)
  BY DEF LockInv, PhaseFits, Engaged, At
<1> QED
  BY <1>1, OneEngaged DEF Undisturbed

LEMMA OthersKeep ==
  ASSUME IInv, robbed = {}, NEW p \in Procs, NEW q \in Procs, p # q,
         Start(p) \/ Advance(p) \/ Interrupt(p) \/ Crash(p)
  PROVE  TodoFits(q)' /\ PartFits(q)'
<1>1. mem'[q] = mem[q]
  BY MemoryStep DEF IInv, AloneInv, TypeOK, Moved
<1>2. LockInv /\ TodoFits(p) /\ TodoFits(q) /\ PartFits(q)
  BY DEF IInv, TodoInv, PartInv
<1>3. parts \in [Procs -> PartFiles] /\ files \in [Targets -> Contents \cup Spoilt]
  BY DEF IInv, AloneInv, TypeOK
<1> DEFINE Working(r) == mem[r].pc \in PointsUnderLock \cup {"release"}
<1>11. Undisturbed(p) /\ Undisturbed(q)
  BY DEF Undisturbed
<1>4. Fetching(q) \/ Vouching(q) \/ At(q, "next") => Working(q)
  BY DEF Fetching, Vouching, At, PointsUnderLock
<1>5. Lacking(p) \subseteq DOMAIN Wanted[p] /\ Lacking(q) \subseteq DOMAIN Wanted[q]
  BY DEF Lacking
<1>6. ASSUME Working(q) PROVE Lacking(q)' = Lacking(q)
  <2>1. CASE UNCHANGED files
    BY <2>1 DEF Lacking
  <2>2. CASE /\ At(p, "promote") /\ mem[p].target \in Lacking(p)
             /\ files' = [files EXCEPT ![mem[p].target] = Wanted[p][mem[p].target]]
    <3>1. Working(p)
      BY <2>2 DEF At, PointsUnderLock
    <3>2. mem[p].target \notin DOMAIN Wanted[q]
      BY <1>2, <1>5, <1>6, <2>2, <1>11, <3>1, Apart, SameTargetSameKey
    <3>3. \A t \in DOMAIN Wanted[q] : files'[t] = files[t]
      BY <1>3, <2>2, <3>2, WantedTyped
    <3> QED
      BY <3>3 DEF Lacking
  <2> QED
    BY <2>1, <2>2, FilesMove
<1>7. TodoFits(q)'
  <2>1. CASE Fetching(q) \/ Vouching(q) \/ At(q, "next")
    BY <1>1, <1>2, <1>4, <1>6, <2>1 DEF TodoFits, Fetching, Vouching, At
  <2>2. CASE ~(Fetching(q) \/ Vouching(q) \/ At(q, "next"))
    BY <1>1, <1>2, <2>2 DEF TodoFits, Fetching, Vouching, At
  <2> QED
    BY <2>1, <2>2
<1>8. ASSUME mem[q].pc \in {"stream", "promote"} PROVE parts'[q] = parts[q]
  <2>1. mem[q].target \in DOMAIN Wanted[q] /\ parts[q].target = mem[q].target /\ Working(q)
    BY <1>2, <1>8 DEF TodoFits, PartFits, Fetching, PointsUnderLock
  <2>2. ASSUME At(p, "cleanup") PROVE ~OfManifest(p, parts[q])
    <3>1. LockKey(p) # LockKey(q)
      BY <1>2, <1>11, <2>1, <2>2, Apart DEF At, PointsUnderLock
    <3> QED
      BY <2>1, <3>1, SameDirSameKey DEF OfManifest
  <2>3. CASE parts' = [r \in Procs |-> IF OfManifest(p, parts[r]) THEN NoPart ELSE parts[r]]
             /\ At(p, "cleanup")
    BY <2>2, <2>3
  <2>4. CASE UNCHANGED parts \/ \E x : parts' = [parts EXCEPT ![p] = x]
    BY <1>3, <2>4
  <2> QED
    BY <2>3, <2>4, PartsMove DEF Drop
<1>9. ASSUME Vouching(q), NEW r \in Procs PROVE ~OfManifest(q, parts'[r])
  <2>1. ~OfManifest(q, parts[r]) /\ ~OfManifest(q, NoPart)
    BY <1>2, <1>9 DEF PartFits, OfManifest
  <2>2. CASE parts'[r] \in {parts[r], NoPart}
    BY <2>1, <2>2
  <2>3. CASE /\ mem[p].pc \in {"response", "stream"} /\ r = p
             /\ parts'[p].target = mem[p].target
    <3>1. mem[p].target \in DOMAIN Wanted[p] /\ Working(p)
      BY <1>2, <2>3 DEF TodoFits, Fetching, PointsUnderLock
    <3>2. LockKey(p) # LockKey(q)
      BY <1>2, <1>4, <1>9, <1>11, <3>1, Apart
    <3> QED
      BY <2>3, <3>1, <3>2, SameDirSameKey DEF OfManifest
  <2>4. CASE /\ At(p, "stream")
             /\ parts' = [parts EXCEPT ![p] = [parts[p] EXCEPT
                                                  !.body = Wanted[p][mem[p].target]]]
    <3>1. parts[p] # NoPart /\ parts[p].target = mem[p].target
      BY <2>4 DEF IInv, PartInv, PartFits, At
    <3>2. [parts[p] EXCEPT !.body = Wanted[p][mem[p].target]].target = mem[p].target
      BY <1>3, <3>1 DEF PartFiles
    <3> QED
      BY <1>3, <2>2, <2>3, <2>4, <3>2 DEF At
  <2>5. CASE /\ At(p, "response")
             /\ parts' = [parts EXCEPT ![p] = [target |-> mem[p].target, body |-> Partial]]
    BY <1>3, <2>2, <2>3, <2>5 DEF At
  <2>6. CASE UNCHANGED parts \/ Drop(p)
    BY <1>3, <2>2, <2>6 DEF Drop
  <2>7. CASE parts' = [s \in Procs |-> IF OfManifest(p, parts[s]) THEN NoPart ELSE parts[s]]
    BY <2>2, <2>7
  <2> QED
    BY <2>4, <2>5, <2>6, <2>7, PartsMove
<1>10. PartFits(q)'
  BY <1>1, <1>2, <1>8, <1>9 DEF PartFits, Vouching, At
<1> QED
  BY <1>7, <1>10
-----------------------------------------------------------------------------
(* What it knows stays true, and grows, with its own steps.                *)

(* An invocation that is through, or failed, knows nothing.                *)
LEMMA Resting ==
  ASSUME NEW p \in Procs, mem'[p].pc \in {"release", "done", "dead"}, mem'[p].todo = {},
         mem'[p].pc = "release" => mem'[p].outcome # "OK"
  PROVE  TodoFits(p)' /\ PartFits(p)'
  BY DEF TodoFits, PartFits, Fetching, Vouching, At, PointsUnderLock

LEMMA OwnKept ==
  ASSUME IInv, robbed = {}, NEW p \in Procs, Start(p) \/ Advance(p) \/ Interrupt(p) \/ Crash(p)
  PROVE  TodoFits(p)' /\ PartFits(p)'
<1> DEFINE Kept == TodoFits(p)' /\ PartFits(p)'
<1>1. /\ mem \in [Procs -> Memories] /\ mem[p] \in Memories
      /\ TodoFits(p) /\ PartFits(p) /\ parts \in [Procs -> PartFiles]
      /\ files \in [Targets -> Contents \cup Spoilt]
  BY DEF IInv, AloneInv, TypeOK, TodoInv, PartInv
<1>2. ASSUME NEW outcome, outcome # "OK",
             Raise(p, outcome) \/ Leave(p, "release", outcome)
      PROVE  Kept
  <2>1. mem'[p].pc = "release" /\ mem'[p].todo = {} /\ mem'[p].outcome # "OK"
    BY <1>1, <1>2, Leaving DEF Raise
  <2> QED
    BY <2>1, Resting
<1>3. ASSUME NEW point \in {"done", "dead"}, NEW outcome, Leave(p, point, outcome)
      PROVE  Kept
  <2>1. mem'[p].pc = point /\ mem'[p].todo = {}
    BY <1>1, <1>3, Leaving
  <2> QED
    BY <2>1, Resting
<1>4. ASSUME NEW m, Become(p, m) PROVE mem'[p] = m
  BY <1>1, <1>4 DEF Become
<1>5. CASE Start(p)
  <2>1. CASE Go(p, "lock") /\ At(p, "idle")
    <3>1. /\ mem'[p].pc = "lock" /\ mem'[p].outcome = mem[p].outcome
          /\ mem'[p].todo = mem[p].todo
      BY <1>1, <2>1, Going
    <3> QED
      BY <1>1, <2>1, <3>1 DEF TodoFits, PartFits, Fetching, Vouching, At, PointsUnderLock
  <2> QED
    BY <1>3, <1>5, <2>1 DEF Start
<1>6. CASE Lock(p)
  <2>1. CASE UNCHANGED mem /\ UNCHANGED <<files, parts>>
    BY <1>1, <2>1 DEF TodoFits, PartFits, Fetching, Vouching, At, Lacking, OfManifest
  <2>2. CASE Go(p, "recheck") /\ At(p, "lock")
    <3>1. /\ mem'[p].pc = "recheck" /\ mem'[p].outcome = mem[p].outcome
          /\ mem'[p].todo = mem[p].todo
      BY <1>1, <2>2, Going
    <3> QED
      BY <1>1, <2>2, <3>1 DEF TodoFits, PartFits, Fetching, Vouching, At, PointsUnderLock
  <2> QED
    BY <1>3, <1>6, <2>1, <2>2 DEF Lock, diskVars
<1>7. CASE Recheck(p)
  <2>1. CASE /\ Become(p, [mem[p] EXCEPT !.pc = "next", !.todo = Lacking(p)])
             /\ UNCHANGED files /\ At(p, "recheck")
    <3>1. /\ mem'[p].pc = "next" /\ mem'[p].outcome = mem[p].outcome
          /\ mem'[p].todo = Lacking(p)
      BY <1>1, <1>4, <2>1 DEF Memories
    <3> QED
      BY <1>1, <2>1, <3>1
      DEF TodoFits, PartFits, Fetching, Vouching, At, PointsUnderLock, Lacking
  <2> QED
    BY <1>2, <1>7, <2>1 DEF Recheck
<1>8. CASE NextFile(p)
  <2>1. CASE Go(p, "cleanup") /\ At(p, "next")
    <3>1. /\ mem'[p].pc = "cleanup" /\ mem'[p].outcome = mem[p].outcome
          /\ mem'[p].todo = mem[p].todo
      BY <1>1, <2>1, Going
    <3> QED
      BY <1>1, <2>1, <3>1 DEF TodoFits, PartFits, Fetching, Vouching, At, PointsUnderLock
  <2>2. ASSUME NEW t \in mem[p].todo, At(p, "next"), UNCHANGED files,
               Become(p, [mem[p] EXCEPT !.pc = "request", !.target = t, !.attempts = 0])
        PROVE  Kept
    <3>1. /\ mem'[p].pc = "request" /\ mem'[p].outcome = mem[p].outcome
          /\ mem'[p].todo = mem[p].todo /\ mem'[p].target = t
      BY <1>1, <1>4, <2>2 DEF Memories
    <3> QED
      BY <1>1, <2>2, <3>1
      DEF TodoFits, PartFits, Fetching, Vouching, At, PointsUnderLock, Lacking
  <2> QED
    BY <1>2, <1>8, <2>1, <2>2 DEF NextFile
(* From here on the download goes on, or fails.                            *)
<1>9. ASSUME Fetching(p), UNCHANGED files, mem'[p].outcome = mem[p].outcome,
             mem'[p].todo = mem[p].todo, mem'[p].target = mem[p].target
      PROVE  /\ mem'[p].pc \in {"request", "response", "redirect", "stream", "promote"} =>
                  TodoFits(p)'
             /\ mem'[p].pc \in {"request", "response", "redirect"} => PartFits(p)'
  BY <1>1, <1>9 DEF TodoFits, PartFits, Fetching, Vouching, At, PointsUnderLock, Lacking
<1>10. CASE Request(p)
  <2>1. /\ Fetching(p) /\ UNCHANGED files /\ mem'[p].outcome = mem[p].outcome
        /\ mem'[p].todo = mem[p].todo /\ mem'[p].target = mem[p].target
        /\ mem'[p].pc = "response"
    BY <1>1, <1>4, <1>10 DEF Request, Memories, Fetching, At, diskVars
  <2> QED
    BY <1>9, <2>1
<1>11. CASE FollowRedirect(p)
  <2>1. ASSUME NEW n,
               Become(p, [Reading(mem[p], n) EXCEPT !.pc = "redirect"])
        PROVE  /\ mem'[p].outcome = mem[p].outcome /\ mem'[p].pc = "redirect"
               /\ mem'[p].todo = mem[p].todo /\ mem'[p].target = mem[p].target
    BY <1>1, <1>4, <2>1 DEF Memories, Reading
  <2>2. Fetching(p) /\ UNCHANGED files
    BY <1>11 DEF FollowRedirect, Fetching, At
  <2> QED
    BY <1>2, <1>9, <1>11, <2>1, <2>2 DEF FollowRedirect
<1>12. CASE BadResponse(p) \/ LocalFault(p)
  BY <1>2, <1>12 DEF BadResponse, LocalFault
<1>13. CASE AcceptResponse(p)
  <2>1. CASE /\ Go(p, "stream")
             /\ parts' = [parts EXCEPT ![p] = [target |-> mem[p].target, body |-> Partial]]
    <3>1. /\ Fetching(p) /\ UNCHANGED files /\ mem'[p].outcome = mem[p].outcome
          /\ mem'[p].todo = mem[p].todo /\ mem'[p].target = mem[p].target
          /\ mem'[p].pc = "stream"
      BY <1>1, <1>13, <2>1, Going DEF AcceptResponse, Fetching, At
    <3>2. parts'[p] # NoPart /\ parts'[p].target = mem'[p].target
      <4>1. mem[p].target # <<>>
        BY <1>1, <3>1, KeyIsFirstName DEF TodoFits
      <4>2. parts'[p].target = mem[p].target
        BY <1>1, <2>1
      <4> QED
        BY <3>1, <4>1, <4>2 DEF NoPart
    <3>3. PartFits(p)'
      BY <3>1, <3>2 DEF PartFits, Vouching, At
    <3> QED
      BY <1>9, <3>1, <3>3
  <2> QED
    BY <1>2, <1>13, <2>1 DEF AcceptResponse
<1>14. CASE Stream(p)
  <2>1. Fetching(p) /\ UNCHANGED files /\ At(p, "stream")
    BY <1>14 DEF Stream, Fetching, At
  <2>2. ASSUME NEW n, NEW m, m = [Reading(mem[p], n) EXCEPT !.written = @ + n],
               Become(p, m), UNCHANGED parts
        PROVE  Kept
    <3>1. /\ mem'[p].outcome = mem[p].outcome /\ mem'[p].pc = "stream"
          /\ mem'[p].todo = mem[p].todo /\ mem'[p].target = mem[p].target
      BY <1>1, <1>4, <2>1, <2>2 DEF Memories, Reading, At
    <3>2. PartFits(p)'
      BY <1>1, <2>1, <2>2, <3>1 DEF PartFits, Vouching, At
    <3> QED
      BY <1>9, <2>1, <3>1, <3>2
  <2>3. ASSUME NEW n, NEW m, m = [Reading(mem[p], n) EXCEPT !.written = @ + n],
               Become(p, [m EXCEPT !.pc = "promote"]),
               parts' = [parts EXCEPT ![p] = [parts[p] EXCEPT
                                                !.body = Wanted[p][mem[p].target]]]
        PROVE  Kept
    <3>1. /\ mem'[p].outcome = mem[p].outcome /\ mem'[p].pc = "promote"
          /\ mem'[p].todo = mem[p].todo /\ mem'[p].target = mem[p].target
      BY <1>1, <1>4, <2>1, <2>3 DEF Memories, Reading, At
    <3>2. parts[p] # NoPart /\ parts[p].target = mem[p].target
      BY <1>1, <2>1 DEF PartFits, At
    <3>3. /\ parts'[p].target = mem[p].target
          /\ parts'[p].body = Wanted[p][mem[p].target]
      BY <1>1, <2>3, <3>2 DEF PartFiles
    <3>4. mem[p].target # <<>>
      BY <1>1, <2>1, KeyIsFirstName DEF TodoFits
    <3>5. PartFits(p)'
      BY <3>1, <3>3, <3>4 DEF PartFits, Vouching, At, NoPart
    <3> QED
      BY <1>9, <2>1, <3>1, <3>5
  <2>4. parts[p] # NoPart
    BY <1>1, <2>1 DEF PartFits, At
  <2> QED
    BY <1>2, <1>14, <2>2, <2>3, <2>4 DEF Stream, DigestMatches
<1>15. CASE BreakOff(p)
  <2>1. ASSUME NEW n, NEW l, Become(p, [Losing(Reading(mem[p], n), l) EXCEPT !.pc = "request"])
        PROVE  /\ mem'[p].outcome = mem[p].outcome /\ mem'[p].pc = "request"
               /\ mem'[p].todo = mem[p].todo /\ mem'[p].target = mem[p].target
    BY <1>1, <1>4, <2>1 DEF Memories, Reading, Losing
  <2>2. Fetching(p) /\ UNCHANGED files
    BY <1>15 DEF BreakOff, Fetching
  <2> QED
    BY <1>2, <1>9, <1>15, <2>1, <2>2 DEF BreakOff
<1>16. CASE Promote(p)
  <2>1. CASE /\ Become(p, [mem[p] EXCEPT !.pc = "next", !.todo = @ \ {mem[p].target}])
             /\ files' = [files EXCEPT ![mem[p].target] = parts[p].body]
             /\ At(p, "promote")
    <3>1. /\ mem'[p].pc = "next" /\ mem'[p].outcome = mem[p].outcome
          /\ mem'[p].todo = mem[p].todo \ {mem[p].target}
      BY <1>1, <1>4, <2>1 DEF Memories
    <3>2. mem[p].todo \ {mem[p].target} \subseteq Lacking(p)'
      BY <1>1, <2>1, WantedTyped DEF TodoFits, Fetching, At, Lacking
    <3> QED
      BY <1>1, <2>1, <3>1, <3>2 DEF TodoFits, PartFits, Fetching, Vouching, At, PointsUnderLock
  <2> QED
    BY <1>2, <1>16, <2>1 DEF Promote
<1>17. CASE Cleanup(p)
  <2>1. /\ mem'[p].pc = "verify" /\ mem'[p].outcome = mem[p].outcome
        /\ mem'[p].todo = DOMAIN Wanted[p] /\ mem[p].pc = "cleanup"
    BY <1>1, <1>4, <1>17 DEF Cleanup, Memories, At
  <2>2. \A q \in Procs : ~OfManifest(p, parts'[q])
    BY <1>17 DEF Cleanup, OfManifest
  <2>3. Lacking(p)' \subseteq DOMAIN Wanted[p]
    BY DEF Lacking
  <2> QED
    BY <1>1, <2>1, <2>2, <2>3 DEF TodoFits, PartFits, Fetching, Vouching, At, PointsUnderLock
<1>18. CASE Verify(p)
  <2>1. ASSUME NEW t \in mem[p].todo \ Lacking(p), UNCHANGED <<files, parts>>, At(p, "verify"),
               Become(p, [mem[p] EXCEPT !.todo = @ \ {t}])
        PROVE  Kept
    <3>1. /\ mem'[p].pc = "verify" /\ mem'[p].outcome = mem[p].outcome
          /\ mem'[p].todo = mem[p].todo \ {t}
      BY <1>1, <1>4, <2>1 DEF Memories, At
    <3> QED
      BY <1>1, <2>1, <3>1
      DEF TodoFits, PartFits, Fetching, Vouching, At, PointsUnderLock, Lacking, OfManifest
  <2>2. CASE /\ mem[p].todo = {} /\ Leave(p, "release", "OK") /\ UNCHANGED <<files, parts>>
             /\ At(p, "verify")
    <3>1. mem'[p].pc = "release" /\ mem'[p].todo = {} /\ mem'[p].outcome = "OK"
      BY <1>1, <2>2, Leaving
    <3> QED
      BY <1>1, <2>2, <3>1
      DEF TodoFits, PartFits, Fetching, Vouching, At, PointsUnderLock, Lacking, OfManifest
  <2> QED
    BY <1>2, <1>18, <2>1, <2>2 DEF Verify
<1>19. CASE Release(p)
  <2>1. CASE UNCHANGED <<mem, files, parts>>
    BY <1>1, <2>1 DEF TodoFits, PartFits, Fetching, Vouching, At, Lacking, OfManifest
  <2> QED
    BY <1>3, <1>19, <2>1 DEF Release, diskVars
<1>20. CASE Interrupt(p)
  BY <1>2, <1>20 DEF Interrupt
<1>21. CASE Crash(p)
  BY <1>3, <1>21 DEF Crash
<1>22. CASE OpenRedirect(p)
  <2>1. Fetching(p) /\ UNCHANGED files /\ Go(p, "response")
    BY <1>22 DEF OpenRedirect, Fetching, At, diskVars
  <2> QED
    BY <1>1, <1>9, <2>1, Going
<1> QED
  BY <1>5, <1>6, <1>7, <1>8, <1>10, <1>11, <1>12, <1>13, <1>14, <1>15, <1>16, <1>17, <1>18,
     <1>19, <1>20, <1>21, <1>22 DEF Advance
-----------------------------------------------------------------------------
(* The inductive invariant.                                                *)

LEMMA InitIInv == Init => IInv
<1> SUFFICES ASSUME Init PROVE IInv
  OBVIOUS
<1>1. AloneInv
  BY AloneInit
<1>2. robbed = {} /\ \A p \in Procs : mem[p] = Fresh /\ phase[p] = "out"
  BY DEF Init, LockInit
<1>3. Fresh.pc = "idle" /\ Fresh.todo = {} /\ Fresh.outcome = "NONE"
  BY DEF Fresh
<1>4. \A p \in Procs : mem[p].pc = "idle" /\ mem[p].todo = {} /\ mem[p].outcome = "NONE"
  BY <1>2, <1>3, Zenon
<1>5. LockInv
  BY <1>2, <1>4 DEF LockInv, PhaseFits, Owns, Dispossessed, Engaged, At, PointsUnderLock
<1>6. TodoInv
  BY <1>4 DEF TodoInv, TodoFits, Fetching, Vouching, At
<1>7. PartInv
  BY <1>4 DEF PartInv, PartFits, Vouching, At
<1> QED
  BY <1>1, <1>5, <1>6, <1>7 DEF IInv

(* A file that is spoilt was not vouched for, and is not what is wanted.   *)
LEMMA SpoilStep ==
  ASSUME IInv, robbed = {}, NEW t \in Targets, Spoil(t)
  PROVE  TodoInv' /\ PartInv'
<1>1. UNCHANGED <<lockVars, parts, mem, crashes>> /\ ~Vouched(t)
  BY DEF Spoil
<1>2. PICK x \in Spoilt : files' = [files EXCEPT ![t] = x]
  BY DEF Spoil
<1>3. PartInv'
  BY <1>1 DEF IInv, PartInv, PartFits, Vouching, At, OfManifest
<1>4. ASSUME NEW p \in Procs PROVE TodoFits(p)'
  <2>1. TodoFits(p) /\ files \in [Targets -> Contents \cup Spoilt]
    BY DEF IInv, AloneInv, TodoInv, TypeOK
  <2>2. Lacking(p) \subseteq Lacking(p)' /\ Lacking(p)' \subseteq Lacking(p) \cup {t}
    BY <1>2, <2>1, WantedTyped DEF Lacking
  <2>3. Vouching(p) => t \notin DOMAIN Wanted[p] \ mem[p].todo
    BY <1>1 DEF Vouched, Vouching
  <2>4. Lacking(p)' \subseteq DOMAIN Wanted[p]
    BY DEF Lacking
  <2> QED
    BY <1>1, <2>1, <2>2, <2>3, <2>4 DEF TodoFits, Fetching, Vouching, At
<1> QED
  BY <1>3, <1>4 DEF TodoInv

LEMMA StepIInv ==
  ASSUME IInv, [Next]_vars
  PROVE  IInv'
<1>1. AloneInv' /\ LockInv'
  BY AloneStep, LockStep DEF IInv, AloneInv
<1>2. robbed' = {} => robbed = {}
  BY RobbedGrows DEF IInv, AloneInv, TypeOK
<1> SUFFICES ASSUME robbed = {} PROVE TodoInv' /\ PartInv'
  BY <1>1, <1>2 DEF IInv
<1>3. ASSUME NEW p \in Procs, Start(p) \/ Advance(p) \/ Interrupt(p) \/ Crash(p)
      PROVE  TodoInv' /\ PartInv'
  <2>1. ASSUME NEW q \in Procs PROVE TodoFits(q)' /\ PartFits(q)'
    BY <1>3, OwnKept, OthersKeep
  <2> QED
    BY <2>1 DEF TodoInv, PartInv
<1>4. UNCHANGED <<diskVars, mem>> => TodoInv' /\ PartInv'
  BY DEF IInv, TodoInv, TodoFits, PartInv, PartFits, Fetching, Vouching, At, Lacking,
     OfManifest, diskVars
<1>5. CASE UNCHANGED vars
  BY <1>4, <1>5 DEF vars
<1>6. ASSUME NEW k \in Keys, OperatorRemoves(k) PROVE TodoInv' /\ PartInv'
  BY <1>4, <1>6 DEF OperatorRemoves
<1> QED
  BY <1>3, <1>5, <1>6, SpoilStep DEF Next

(* The inductive invariant holds of every execution.                       *)
THEOREM Invariant == Spec => []IInv
<1>1. Init => IInv
  BY InitIInv
<1>2. IInv /\ [Next]_vars => IInv'
  BY StepIInv
<1> QED
  BY <1>1, <1>2, PTL DEF Spec

(* No two invocations with the same lock key, from whom no lock was taken,  *)
(* are under it together.                                                  *)
THEOREM Exclusion == Spec => []MutualExclusion
<1>1. IInv => MutualExclusion
  BY Apart DEF IInv, MutualExclusion
<1> QED
  BY <1>1, Invariant, PTL

(* The lock of a working acquisition stands, with its token in it, until   *)
(* an operator removes it: no other acquisition takes it away, not even    *)
(* one that lost the same lock to an operator and then releases            *)
(* (_ArtifactLock.acquire, release).                                       *)
THEOREM LocksStand == Spec => []LockStands
<1>1. IInv => LockStands
  BY DEF IInv, LockInv, Owns, Engaged, LockStands
<1> QED
  BY <1>1, Invariant, PTL

(* Nothing is downloaded that is there, while no lock in use is removed.   *)
THEOREM OnlyNeeded == Spec => []NoNeedlessDownload
<1>1. IInv => NoNeedlessDownload
  BY DEF IInv, TodoInv, TodoFits, Fetching, Lacking, NoNeedlessDownload
<1> QED
  BY <1>1, Invariant, PTL

(* No cleanup removes the temporary file of a download that is running,    *)
(* while no lock in use is removed.                                        *)
THEOREM TempsOfOthers == Spec => []LiveTempKept
<1>1. IInv => LiveTempKept
  BY DEF IInv, PartInv, PartFits, LiveTempKept
<1> QED
  BY <1>1, Invariant, PTL

(* Success leaves no temporary file behind, while no lock in use is        *)
(* removed.                                                                *)
THEOREM TempsGone == Spec => []NoTempsAfterSuccess
<1>1. IInv => NoTempsAfterSuccess
  BY DEF IInv, PartInv, PartFits, Vouching, NoTempsAfterSuccess
<1> QED
  BY <1>1, Invariant, PTL

-----------------------------------------------------------------------------
(* The refinement.  Promoting publishes, the last verification succeeds,   *)
(* every other end of an invocation fails, spoiling spoils; the rest       *)
(* changes nothing that the abstract cache shows.                          *)

verdicts == [p \in Procs |-> Verdict(p)]

LEMMA VerdictOf ==
  ASSUME NEW p \in Procs
  PROVE  /\ mem[p].outcome = "NONE" => Verdict(p) = "NONE"
         /\ mem[p].outcome = "OK" => Verdict(p) = "OK"
         /\ mem[p].outcome \in Failures => Verdict(p) = "FAILED"
  BY DEF Verdict, Failures

(* The verdicts of the others stay; so a step either keeps them all, or    *)
(* changes one.                                                            *)
LEMMA VerdictsMove ==
  ASSUME TypeOK, TypeOK', NEW p \in Procs, mem' = [mem EXCEPT ![p] = mem'[p]]
  PROVE  /\ mem'[p].outcome = mem[p].outcome => verdicts' = verdicts
         /\ verdicts' = [verdicts EXCEPT ![p] = Verdict(p)']
<1>1. \A q \in Procs \ {p} : Verdict(q)' = Verdict(q)
  BY DEF TypeOK, Verdict
<1>2. mem'[p].outcome = mem[p].outcome => Verdict(p)' = Verdict(p)
  BY DEF Verdict
<1> QED
  BY <1>1, <1>2 DEF verdicts

(* How the outcome of an invocation comes about.                           *)
LEMMA OutcomeMoves ==
  ASSUME IInv, robbed = {}, NEW p \in Procs, Start(p) \/ Advance(p) \/ Interrupt(p) \/ Crash(p)
  PROVE  \/ mem'[p].outcome = mem[p].outcome
         \/ /\ mem[p].outcome = "NONE" /\ mem'[p].outcome \in Failures
            /\ UNCHANGED files
         \/ /\ mem[p].outcome = "NONE" /\ mem'[p].outcome = "OK"
            /\ UNCHANGED files
            /\ Lacking(p) = {}
<1> DEFINE Fails == /\ mem[p].outcome = "NONE" /\ mem'[p].outcome \in Failures
                    /\ UNCHANGED files
           Keeps == mem'[p].outcome = mem[p].outcome
<1>1. /\ mem \in [Procs -> Memories] /\ mem[p] \in Memories /\ TodoFits(p)
  BY DEF IInv, AloneInv, TypeOK, TodoInv
<1>2. ASSUME NEW outcome \in Failures, Raise(p, outcome), mem[p].pc \in PointsUnderLock,
             UNCHANGED files
      PROVE  Fails
  BY <1>1, <1>2, Leaving DEF Raise, TodoFits
<1>3. ASSUME NEW point, Go(p, point) PROVE Keeps
  BY <1>1, <1>3, Going
<1>4. ASSUME NEW m, Become(p, m), m.outcome = mem[p].outcome PROVE Keeps
  BY <1>1, <1>4 DEF Become
<1>5. CASE Start(p)
  <2>1. At(p, "idle") /\ UNCHANGED files
    BY <1>5 DEF Start, diskVars
  <2>2. mem[p].outcome = "NONE"
    BY <1>1, <2>1 DEF TodoFits, At
  <2>3. CASE Leave(p, "done", "POLICY_REFUSAL")
    BY <1>1, <2>1, <2>2, <2>3, Leaving DEF Failures
  <2> QED
    BY <1>3, <1>5, <2>3 DEF Start
<1>6. CASE Lock(p)
  <2>1. At(p, "lock") /\ UNCHANGED files
    BY <1>6 DEF Lock, diskVars
  <2>2. mem[p].outcome = "NONE"
    BY <1>1, <2>1 DEF TodoFits, At
  <2>3. CASE Leave(p, "done", "LOCK_CONFLICT")
    BY <1>1, <2>1, <2>2, <2>3, Leaving DEF Failures
  <2> QED
    BY <1>3, <1>6, <2>3 DEF Lock
<1>7. CASE Recheck(p)
  <2>1. [mem[p] EXCEPT !.pc = "next", !.todo = Lacking(p)].outcome = mem[p].outcome
    BY <1>1 DEF Memories
  <2> QED
    BY <1>2, <1>4, <1>7, <2>1 DEF Recheck, At, PointsUnderLock, Failures
<1>8. CASE NextFile(p)
  <2>1. ASSUME NEW t,
               Become(p, [mem[p] EXCEPT !.pc = "request", !.target = t, !.attempts = 0])
        PROVE  Keeps
    BY <1>1, <2>1 DEF Become, Memories
  <2>2. /\ mem[p].pc \in PointsUnderLock /\ UNCHANGED files
        /\ "MANIFEST_INVALID" \in Failures
    BY <1>8 DEF NextFile, At, PointsUnderLock, Failures
  <2>3. \/ Go(p, "cleanup")
        \/ Raise(p, "MANIFEST_INVALID")
        \/ \E t \in mem[p].todo :
             Become(p, [mem[p] EXCEPT !.pc = "request", !.target = t, !.attempts = 0])
    BY <1>8 DEF NextFile
  <2> QED
    BY <1>2, <1>3, <2>1, <2>2, <2>3
<1>9. CASE Request(p) \/ Cleanup(p)
  BY <1>1, <1>9 DEF Request, Cleanup, Become, Memories
<1>10. CASE FollowRedirect(p)
  <2>1. ASSUME NEW n
        PROVE  [Reading(mem[p], n) EXCEPT !.pc = "redirect"].outcome = mem[p].outcome
    BY <1>1 DEF Memories, Reading
  <2>2. At(p, "response") /\ UNCHANGED files
    BY <1>10 DEF FollowRedirect
  <2> QED
    BY <1>2, <1>4, <1>10, <2>1, <2>2 DEF FollowRedirect, At, PointsUnderLock, Failures
<1>11. CASE BadResponse(p) \/ LocalFault(p)
  BY <1>2, <1>11 DEF BadResponse, LocalFault, At, PointsUnderLock, Failures
<1>12. CASE AcceptResponse(p)
  BY <1>2, <1>3, <1>12 DEF AcceptResponse, At, PointsUnderLock, Failures
<1>13. CASE Stream(p)
  <2>1. ASSUME NEW n, NEW m, m = [Reading(mem[p], n) EXCEPT !.written = @ + n]
        PROVE  /\ m.outcome = mem[p].outcome
               /\ [m EXCEPT !.pc = "promote"].outcome = mem[p].outcome
    BY <1>1, <2>1 DEF Memories, Reading
  <2>2. At(p, "stream") /\ UNCHANGED files
    BY <1>13 DEF Stream
  <2>3. mem[p].pc \in PointsUnderLock /\ "INTEGRITY_FAILURE" \in Failures
    BY <2>2 DEF At, PointsUnderLock, Failures
  <2>4. PICK n \in 1 .. CHUNK_SIZE :
          LET m == [Reading(mem[p], n) EXCEPT !.written = @ + n]
          IN  \/ Become(p, m)
              \/ Become(p, [m EXCEPT !.pc = "promote"])
              \/ Raise(p, "INTEGRITY_FAILURE")
    BY <1>13 DEF Stream
  <2> QED
    BY <1>2, <1>4, <2>1, <2>2, <2>3, <2>4
<1>14. CASE BreakOff(p)
  <2>1. ASSUME NEW n, NEW l
        PROVE  [Losing(Reading(mem[p], n), l) EXCEPT !.pc = "request"].outcome = mem[p].outcome
    BY <1>1 DEF Memories, Reading, Losing
  <2>2. mem[p].pc \in PointsUnderLock /\ UNCHANGED files
    BY <1>14 DEF BreakOff, PointsUnderLock
  <2> QED
    BY <1>2, <1>4, <1>14, <2>1, <2>2 DEF BreakOff, Failures
<1>15. CASE Promote(p)
  <2>1. [mem[p] EXCEPT !.pc = "next", !.todo = @ \ {mem[p].target}].outcome = mem[p].outcome
    BY <1>1 DEF Memories
  <2> QED
    BY <1>2, <1>4, <1>15, <2>1 DEF Promote, At, PointsUnderLock, Failures
<1>16. CASE Verify(p)
  <2>1. ASSUME NEW t
        PROVE  [mem[p] EXCEPT !.todo = @ \ {t}].outcome = mem[p].outcome
    BY <1>1 DEF Memories
  <2>2. At(p, "verify") /\ UNCHANGED files /\ mem[p].pc \in PointsUnderLock
    BY <1>16 DEF Verify, At, PointsUnderLock
  <2>3. CASE mem[p].todo = {} /\ Leave(p, "release", "OK")
    <3>1. mem[p].outcome = "NONE" /\ Lacking(p) = {}
      BY <1>1, <2>2, <2>3 DEF TodoFits, Vouching
    <3>2. mem'[p].outcome = "OK"
      BY <1>1, <2>3, Leaving
    <3> QED
      BY <2>2, <3>1, <3>2
  <2> QED
    BY <1>2, <1>4, <1>16, <2>1, <2>2, <2>3 DEF Verify, Failures
<1>17. CASE Release(p)
  BY <1>1, <1>17, Leaving DEF Release
<1>18. CASE Interrupt(p)
  <2>1. mem[p].outcome = "NONE" /\ UNCHANGED files /\ mem'[p].outcome = "INTERNAL_ERROR"
    BY <1>1, <1>18, Leaving DEF Interrupt, TodoFits, diskVars
  <2> QED
    BY <2>1 DEF Failures
<1>19. CASE Crash(p)
  BY <1>1, <1>19, Leaving DEF Crash
<1>20. CASE OpenRedirect(p)
  BY <1>3, <1>20 DEF OpenRedirect
<1> QED
  BY <1>5, <1>6, <1>7, <1>8, <1>9, <1>10, <1>11, <1>12, <1>13, <1>14, <1>15, <1>16, <1>17, <1>18,
     <1>19, <1>20 DEF Advance

LEMMA StepRefines ==
  ASSUME IInv, IInv', [Next]_vars, robbed = {}
  PROVE  [Promise!Next]_(Promise!vars)
<1>1. ASSUME NEW p \in Procs, Start(p) \/ Advance(p) \/ Interrupt(p) \/ Crash(p)
      PROVE  [Promise!Next]_(Promise!vars)
  <2>1. mem' = [mem EXCEPT ![p] = mem'[p]]
    BY <1>1, MemoryStep DEF IInv, AloneInv, Moved
  <2>2. /\ mem'[p].outcome = mem[p].outcome => verdicts' = verdicts
        /\ verdicts' = [verdicts EXCEPT ![p] = Verdict(p)']
    BY <2>1, VerdictsMove DEF IInv, AloneInv
  <2>3. verdicts[p] = Verdict(p)
    BY DEF verdicts
  <2>4. CASE UNCHANGED files /\ mem'[p].outcome = mem[p].outcome
    BY <2>2, <2>4 DEF Promise!vars, verdicts
  <2>5. CASE mem[p].outcome = "NONE" /\ mem'[p].outcome \in Failures /\ UNCHANGED files
    <3>1. Verdict(p) = "NONE" /\ Verdict(p)' = "FAILED"
      BY <2>5 DEF Verdict, Failures
    <3>2. Promise!Fail(p)
      BY <2>2, <2>3, <2>5, <3>1 DEF Promise!Fail, verdicts
    <3> QED
      BY <3>2 DEF Promise!Next
  <2>6. CASE /\ mem[p].outcome = "NONE" /\ mem'[p].outcome = "OK" /\ UNCHANGED files
             /\ Lacking(p) = {}
    <3>1. Verdict(p) = "NONE" /\ Verdict(p)' = "OK"
      BY <2>6 DEF Verdict
    <3>2. \A t \in DOMAIN Wanted[p] : files[t] = Wanted[p][t]
      BY <2>6 DEF Lacking
    <3>3. Promise!Succeed(p)
      BY <2>2, <2>3, <2>6, <3>1, <3>2 DEF Promise!Succeed, verdicts
    <3> QED
      BY <3>3 DEF Promise!Next
  <2>7. CASE /\ At(p, "promote") /\ mem[p].target \in Lacking(p)
             /\ files' = [files EXCEPT ![mem[p].target] = Wanted[p][mem[p].target]]
             /\ mem'[p].outcome = mem[p].outcome
    <3> DEFINE t == mem[p].target
    <3>1. mem[p].outcome = "NONE"
      BY <2>7 DEF IInv, TodoInv, TodoFits, At, PointsUnderLock
    <3>2. Verdict(p) = "NONE"
      BY <3>1 DEF Verdict
    <3>3. t \in Targets /\ t \in DOMAIN Wanted[p] /\ files[t] # Wanted[p][t]
      BY <2>7, WantedTyped DEF Lacking
    <3>4. Promise!Publish(p, t)
      BY <2>2, <2>3, <2>7, <3>2, <3>3 DEF Promise!Publish, Promise!Wants, verdicts
    <3> QED
      BY <3>3, <3>4 DEF Promise!Next
  <2>8. files' # files => At(p, "promote") /\ mem'[p].outcome = mem[p].outcome
    BY <1>1, FilesMove, OutcomeMoves
  <2> QED
    BY <1>1, <2>4, <2>5, <2>6, <2>7, <2>8, FilesMove, OutcomeMoves
<1>2. ASSUME NEW t \in Targets, Spoil(t)
      PROVE  [Promise!Next]_(Promise!vars)
  <2>1. UNCHANGED mem /\ \E x \in Spoilt : files' = [files EXCEPT ![t] = x]
    BY <1>2 DEF Spoil
  <2>2. UNCHANGED verdicts
    BY <2>1 DEF verdicts, Verdict
  <2>3. Promise!Spoil(t)
    BY <2>1, <2>2 DEF Promise!Spoil, verdicts
  <2> QED
    BY <2>3 DEF Promise!Next
<1>3. ASSUME UNCHANGED <<files, mem>>
      PROVE  [Promise!Next]_(Promise!vars)
  BY <1>3 DEF Promise!vars, Verdict
<1> QED
  BY <1>1, <1>2, <1>3 DEF Next, OperatorRemoves, diskVars, vars

(* Files appear verified and in one step, only where needed, and success   *)
(* is honest: until a lock in use is removed, the invocations implement    *)
(* the abstract cache step by step.                                        *)
THEOREM Refinement == Spec => ImplementsVerifiedCache
<1>1. Init => Promise!Init
  <2> SUFFICES ASSUME Init PROVE Promise!Init
    OBVIOUS
  <2>1. \A p \in Procs : Verdict(p) = "NONE"
    BY DEF Init, Verdict, Fresh
  <2> QED
    BY <2>1 DEF Init, Promise!Init
<1> DEFINE Kept == robbed' = {} => [Promise!Next]_(Promise!vars)
<1>2. ASSUME IInv, IInv', [Next]_vars PROVE Kept
  BY <1>2, StepRefines, RobbedGrows DEF IInv, AloneInv, TypeOK
<1>3. []IInv /\ [][Next]_vars => [][Kept]_vars
  BY <1>2, PTL
<1> QED
  BY <1>1, <1>3, Invariant, PTL DEF Spec, ImplementsVerifiedCache
=============================================================================
