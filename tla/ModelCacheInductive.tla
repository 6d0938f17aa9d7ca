------------------------- MODULE ModelCacheInductive -------------------------
(***************************************************************************)
(* The inductive invariants behind the theorems of ModelCacheAlone and     *)
(* ModelCacheProofs. AloneInv is what an invocation knows of its own       *)
(* download, budget and types; it rests on no lock.  IInv adds the locks,  *)
(* those included that were removed under a working acquisition, and, as   *)
(* long as no lock in use was removed, what invocations know about files   *)
(* and temporary files: it stays true while they are under their locks, as *)
(* only invocations with the same lock key can reach the same paths.       *)
(***************************************************************************)
EXTENDS ModelCache

Engaged(p) == phase[p] \in {"made", "held", "confirmed", "unlinked"}

(* The phase of the lock fits the point in the program.                    *)
PhaseFits(p) ==
  /\ mem[p].pc \in PointsUnderLock => phase[p] = "held"
  /\ At(p, "lock") => phase[p] \in {"polling", "made"}
  /\ At(p, "release") => phase[p] \in {"held", "confirmed", "unlinked"}
  /\ mem[p].pc \in {"idle", "done", "dead"} => phase[p] = "out"

(* Whoever got past mkdir undisturbed is the maker of the directory that   *)
(* is there; the owner file that it wrote is there until it unlinks it.    *)
Owns(p) ==
  Undisturbed(p) =>
    /\ Engaged(p) => lockDir[LockKey(p)] = p
    /\ phase[p] \in {"held", "confirmed"} => ownerFile[LockKey(p)] = p

(* A lock that was removed while its owner worked has another's owner file *)
(* for ever, so the owner's release ends with the comparison.              *)
Dispossessed(p) ==
  <<p, "held">> \in robbed =>
    /\ phase[p] \in {"held", "out"} /\ ~At(p, "idle")
    /\ phase[p] = "held" => ownerFile[LockKey(p)] # p

LockInv == \A p \in Procs : PhaseFits(p) /\ Owns(p) /\ Dispossessed(p)

(* Everything that is read is recorded.                                    *)
BudgetInv ==
  \A p \in Procs : mem[p].wire = mem[p].received /\ mem[p].wire <= Allowance[p]

Fetching(p) == mem[p].pc \in {"request", "response", "redirect", "stream", "promote"}
Vouching(p) == At(p, "verify") \/ (At(p, "release") /\ mem[p].outcome = "OK")

(* Before the cleanup todo holds what is missing or wrong; afterwards      *)
(* everything not in it is in place.                                       *)
TodoFits(p) ==
  /\ mem[p].todo \subseteq DOMAIN Wanted[p]
  /\ At(p, "next") \/ Fetching(p) => mem[p].todo \subseteq Lacking(p)
  /\ Fetching(p) => mem[p].target \in mem[p].todo
  /\ Vouching(p) => Lacking(p) \subseteq mem[p].todo
  /\ At(p, "release") => mem[p].todo = {}
  /\ mem[p].pc \in PointsUnderLock \cup {"idle", "lock"} => mem[p].outcome = "NONE"

TodoInv == \A p \in Procs : TodoFits(p)

(* A download has its temporary file, which holds what is wanted once it   *)
(* is complete; after the cleanup there is none.                           *)
PartFits(p) ==
  /\ mem[p].pc \in {"stream", "promote"} => parts[p] # NoPart /\ parts[p].target = mem[p].target
  /\ At(p, "promote") => parts[p].body = Wanted[p][mem[p].target]
  /\ Vouching(p) => \A q \in Procs : ~OfManifest(p, parts[q])

PartInv == \A p \in Procs : PartFits(p)

(* What an invocation knows of its own download, whatever becomes of its   *)
(* lock and of its temporary file.                                         *)
DownloadFits(p) ==
  /\ mem[p].todo \subseteq DOMAIN Wanted[p]
  /\ Fetching(p) => mem[p].target \in DOMAIN Wanted[p]
  /\ At(p, "promote") /\ parts[p] # NoPart => parts[p].body = Wanted[p][mem[p].target]

AloneInv ==
  /\ TypeOK
  /\ BudgetInv
  /\ \A p \in Procs : DownloadFits(p)

IInv ==
  /\ AloneInv
  /\ LockInv
  /\ robbed = {} => TodoInv /\ PartInv
==============================================================================
