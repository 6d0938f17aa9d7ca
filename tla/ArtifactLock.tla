----------------------------- MODULE ArtifactLock -----------------------------
(***************************************************************************)
(* _ArtifactLock of src/docker/model_cache.py: a lock that is a directory, *)
(* one per lock key, with an owner file in it that holds the token of the  *)
(* process that made it.  A lock that is found is never broken; an         *)
(* operator removes what a crash left.  A token is its process.  The       *)
(* heartbeat (touch) changes only a time that a message mentions and is    *)
(* left out.                                                               *)
(***************************************************************************)
EXTENDS Naturals

CONSTANTS
  Procs,            \* acquisitions, each one invocation of the command
  NoOne,            \* the maker of a lock that is not there
  Unreadable        \* an owner file that was written in part

ASSUME LockAssumption ==
  NoOne \notin Procs /\ Unreadable \notin Procs /\ NoOne # Unreadable

VARIABLES
  lockDir,     \* who made the lock directory of a key, NoOne when it is absent
  ownerFile,   \* whose token the owner file of a key holds
  phase,       \* how far each process is with its lock
  robbed       \* for the properties: whose lock an operator removed, and in which phase

lockVars == <<lockDir, ownerFile, phase, robbed>>

Phases == {"out", "polling", "made", "held", "confirmed", "unlinked"}

LockTypeOK(Keys) ==
  /\ lockDir \in [Keys -> Procs \cup {NoOne}]
  /\ ownerFile \in [Keys -> Procs \cup {NoOne, Unreadable}]
  /\ phase \in [Procs -> Phases]
  /\ robbed \subseteq Procs \X Phases

LockInit(Keys) ==
  /\ lockDir = [k \in Keys |-> NoOne]
  /\ ownerFile = [k \in Keys |-> NoOne]
  /\ phase = [p \in Procs |-> "out"]
  /\ robbed = {}

MoveTo(p, ph) == phase' = [phase EXCEPT ![p] = ph] /\ UNCHANGED robbed

(* Mutant: a directory that exists is as good (exist_ok).                  *)
MakeLockShared(p, k) ==
  /\ phase[p] = "polling"
  /\ lockDir' = [lockDir EXCEPT ![k] = p]
  /\ MoveTo(p, "made")
  /\ UNCHANGED ownerFile

(* mkdir succeeds for one process only.                                    *)
MakeLock(p, k) ==
  /\ phase[p] = "polling" /\ lockDir[k] = NoOne
  /\ lockDir' = [lockDir EXCEPT ![k] = p]
  /\ MoveTo(p, "made")
  /\ UNCHANGED ownerFile

(* The deadline has passed and the lock is there, or mkdir failed.         *)
GiveUp(p, k) ==
  /\ phase[p] = "polling"
  /\ MoveTo(p, "out")
  /\ UNCHANGED <<lockDir, ownerFile>>

(* Written into whatever directory has this name by now.                   *)
WriteOwner(p, k) ==
  /\ phase[p] = "made" /\ lockDir[k] # NoOne
  /\ ownerFile' = [ownerFile EXCEPT ![k] = p]
  /\ MoveTo(p, "held")
  /\ UNCHANGED lockDir

(* The owner file cannot be written, or only in part: then the removal of  *)
(* the directory, which is not empty, fails too.                           *)
OwnerNotWritten(p, k) ==
  /\ phase[p] = "made"
  /\ \E o \in {ownerFile[k], Unreadable} :
       /\ lockDir[k] = NoOne => o = ownerFile[k]
       /\ ownerFile' = [ownerFile EXCEPT ![k] = o]
       /\ lockDir' = [lockDir EXCEPT ![k] = IF o = NoOne THEN NoOne ELSE @]
  /\ MoveTo(p, "out")

(* Mutant: the token is not compared.                                      *)
ConfirmOwnerBlindly(p, k) ==
  /\ phase[p] = "held"
  /\ MoveTo(p, "confirmed")
  /\ UNCHANGED <<lockDir, ownerFile>>

(* release: the token is compared, then the owner file is unlinked, then   *)
(* the directory removed.  Each of the last two may fail.                  *)
ConfirmOwner(p, k) ==
  /\ phase[p] = "held"
  /\ MoveTo(p, IF ownerFile[k] = p THEN "confirmed" ELSE "out")
  /\ UNCHANGED <<lockDir, ownerFile>>

UnlinkOwner(p, k) ==
  /\ phase[p] = "confirmed"
  /\ \/ /\ ownerFile[k] # NoOne
        /\ ownerFile' = [ownerFile EXCEPT ![k] = NoOne]
        /\ MoveTo(p, "unlinked")
     \/ UNCHANGED ownerFile /\ MoveTo(p, "out")
  /\ UNCHANGED lockDir

RemoveLock(p, k) ==
  /\ phase[p] = "unlinked"
  /\ \/ /\ ownerFile[k] = NoOne
        /\ lockDir' = [lockDir EXCEPT ![k] = NoOne]
     \/ UNCHANGED lockDir
  /\ MoveTo(p, "out")
  /\ UNCHANGED ownerFile

(* The process got past mkdir and has not come to the end of its release.  *)
Past(p) == phase[p] \notin {"out", "polling"}

(* An operator removes a lock.  One who first confirms that no acquisition *)
(* works under it, as documented, robs nobody.                             *)
OperatorRemovesLock(k, Users) ==
  /\ lockDir[k] # NoOne
  /\ lockDir' = [lockDir EXCEPT ![k] = NoOne]
  /\ ownerFile' = [ownerFile EXCEPT ![k] = NoOne]
  /\ robbed' = robbed \cup {<<p, phase[p]>> : p \in {q \in Users : Past(q)}}
  /\ UNCHANGED phase

(* The lock of p was never removed under it, and no other lock while its   *)
(* owner was taking or releasing it.                                       *)
Undisturbed(p) == robbed \subseteq (Procs \ {p}) \X {"held"}
===============================================================================
