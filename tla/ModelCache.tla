----------------------------- MODULE ModelCache -----------------------------
(***************************************************************************)
(* `models acquire` of src/docker/model_cache.py: any number of            *)
(* invocations over one cache directory, each with its own manifest and    *)
(* byte allowance, under an ArtifactLock per first namespace component.    *)
(* mem[p] is the memory of invocation p and the point it has reached.      *)
(*                                                                         *)
(* A path is a sequence of names; a content stands for its SHA-256.  The   *)
(* server may answer anything at any time; local file operations may fail; *)
(* invocations may be interrupted or die.                                  *)
(***************************************************************************)
EXTENDS ArtifactLock, Sequences, SequencesExt

CONSTANTS
  Names,         \* components of paths
  Targets,       \* destination paths below the cache root
  Contents,      \* contents of files
  Size,          \* their sizes in bytes
  Namespace,     \* per acquisition: the namespace of its manifest, a path
  Wanted,        \* per acquisition: target -> content, the files of its manifest
  Allowance,     \* per acquisition: --max-bytes
  Missing,       \* nothing at a path
  Directory,     \* a directory at the path of a file
  Spoilt,        \* what others may put in place of a file
  Found,         \* what may be at a target at first
  CHUNK_SIZE,
  MAX_RETRIES,
  RedirectBody,  \* bound: bytes in the body of a redirect
  MaxLost,       \* bound: bytes that arrive in a read that times out
  MaxCrashes,    \* bound: invocations that are interrupted or die
  MaxSpoils      \* bound: changes to files by others

(* What parsing a manifest guarantees: every target extends its namespace, *)
(* both have at least one component, and no target is the directory of     *)
(* another.                                                                *)
Parsed(p) ==
  /\ Wanted[p] \in [DOMAIN Wanted[p] -> Contents]
  /\ DOMAIN Wanted[p] \in SUBSET Targets
  /\ Len(Namespace[p]) > 0
  /\ \A t \in DOMAIN Wanted[p] :
       /\ Len(t) > Len(Namespace[p])
       /\ SubSeq(t, 1, Len(Namespace[p])) = Namespace[p]
       /\ \A u \in DOMAIN Wanted[p] : ~IsStrictPrefix(t, u)

ASSUME ManifestAssumption ==
  /\ Targets \subseteq Seq(Names)
  /\ Namespace \in [Procs -> Seq(Names)]
  /\ \A p \in Procs : Parsed(p)

ASSUME SizeAssumption ==
  /\ Size \in [Contents -> Nat \ {0}]
  /\ Allowance \in [Procs -> Nat]
  /\ Missing \notin Contents /\ Directory \notin Contents
  /\ Found \subseteq Contents \cup Spoilt
  /\ \A p \in Procs : \A t \in DOMAIN Wanted[p] : Wanted[p][t] \notin Spoilt

ASSUME BoundsAssumption ==
  /\ CHUNK_SIZE \in Nat \ {0}
  /\ {MAX_RETRIES, RedirectBody, MaxLost, MaxCrashes, MaxSpoils} \subseteq Nat

VARIABLES
  files,      \* what is at each target
  parts,      \* the temporary file of each acquisition, in the directory of its target
  mem,        \* memory of each acquisition
  crashes,
  spoils

diskVars == <<files, parts>>
vars == <<lockVars, diskVars, mem, crashes, spoils>>

Dir(t) == Front(t)

(* Mutant: the lock key is the whole namespace.                            *)
LockKeyNamespace(p) == Namespace[p]

(* Acquisitions with overlapping destinations share their lock.            *)
LockKey(p) == Head(Namespace[p])
Keys == {LockKey(p) : p \in Procs}

NoPart == [target |-> <<>>, body |-> Missing]
Partial == "partial"
PartFiles == {NoPart} \cup [target : Targets, body : Contents \cup {Partial}]

Lacking(p) == {t \in DOMAIN Wanted[p] : files[t] # Wanted[p][t]}

PointsUnderLock ==
  {"recheck", "next", "request", "response", "redirect", "stream", "promote", "cleanup",
   "verify"}
Points == {"idle", "lock", "release", "done", "dead"} \cup PointsUnderLock

Failures == {"POLICY_REFUSAL", "MANIFEST_INVALID", "INTEGRITY_FAILURE", "TRANSPORT_FAILURE",
             "LOCK_CONFLICT", "LOCAL_IO_FAILURE", "INTERNAL_ERROR"}
Outcomes == {"NONE", "OK"} \cup Failures

(* todo holds the targets not yet acquired, at "verify" those not yet      *)
(* verified; received is what the budget has recorded.  For the properties *)
(* only: wire counts the bytes that reads returned, lost those that had    *)
(* arrived when a read timed out, which then returns nothing.              *)
Memories ==
  [pc : Points, todo : SUBSET Targets, target : Targets \cup {<<>>}, attempts : Nat,
   written : Nat, received : Nat, wire : Nat, lost : Nat, outcome : Outcomes]

Fresh == [pc |-> "idle", todo |-> {}, target |-> <<>>, attempts |-> 0, written |-> 0,
          received |-> 0, wire |-> 0, lost |-> 0, outcome |-> "NONE"]

Init ==
  /\ LockInit(Keys)
  /\ files \in [Targets -> Found]
  /\ parts = [p \in Procs |-> NoPart]
  /\ mem = [p \in Procs |-> Fresh]
  /\ crashes = 0
  /\ spoils = 0

At(p, point) == mem[p].pc = point
Become(p, m) == mem' = [mem EXCEPT ![p] = m]
Go(p, point) == Become(p, [mem[p] EXCEPT !.pc = point])
World == <<crashes, spoils>>

SizeOf(p) == Size[Wanted[p][mem[p].target]]
Remaining(p) == Allowance[p] - mem[p].received

Drop(p) == parts' = [parts EXCEPT ![p] = NoPart]

(* What is left of an acquisition that leaves for another point with its   *)
(* outcome: the loop and its counters are gone.                            *)
Leave(p, point, outcome) == Become(p, [Fresh EXCEPT !.pc = point, !.outcome = outcome])

(* A ModelCacheError under the lock: the temporary file goes, the lock is  *)
(* released.                                                               *)
Raise(p, outcome) == Leave(p, "release", outcome) /\ Drop(p)

-----------------------------------------------------------------------------
(* Before the lock.                                                        *)

Sizes(p) == [t \in DOMAIN Wanted[p] |-> Size[Wanted[p][t]]]
Required(p) == SumFunctionOnSet(Sizes(p), Lacking(p))

(* The cache is inspected; without confirmation, or with an allowance      *)
(* below what is required, nothing is done.                                *)
Start(p) ==
  /\ At(p, "idle")
  /\ \/ /\ Leave(p, "done", "POLICY_REFUSAL")
        /\ UNCHANGED <<phase, robbed>>
     \/ /\ Required(p) <= Allowance[p]
        /\ Go(p, "lock")
        /\ MoveTo(p, "polling")
  /\ UNCHANGED <<lockDir, ownerFile, diskVars, World>>

Lock(p) ==
  /\ At(p, "lock")
  /\ \/ MakeLock(p, LockKey(p)) /\ UNCHANGED mem
     \/ WriteOwner(p, LockKey(p)) /\ Go(p, "recheck")
     \/ /\ GiveUp(p, LockKey(p)) \/ OwnerNotWritten(p, LockKey(p))
        /\ Leave(p, "done", "LOCK_CONFLICT")
  /\ UNCHANGED <<diskVars, World>>

-----------------------------------------------------------------------------
(* Under the lock.                                                         *)

(* Mutant: nothing that is cached is reused.                               *)
RecheckNothing(p) ==
  /\ At(p, "recheck")
  /\ Become(p, [mem[p] EXCEPT !.pc = "next", !.todo = DOMAIN Wanted[p]])
  /\ UNCHANGED <<lockVars, diskVars, World>>

(* The cache is inspected again: what another acquisition has completed is *)
(* reused, and the allowance must still suffice.                           *)
Recheck(p) ==
  /\ At(p, "recheck")
  /\ IF Allowance[p] < Required(p)
       THEN Raise(p, "POLICY_REFUSAL")
       ELSE /\ Become(p, [mem[p] EXCEPT !.pc = "next", !.todo = Lacking(p)])
            /\ UNCHANGED parts
  /\ UNCHANGED <<lockVars, files, World>>

(* The next file, in the order of the manifest.                            *)
NextFile(p) ==
  /\ At(p, "next")
  /\ \/ mem[p].todo = {} /\ Go(p, "cleanup") /\ UNCHANGED parts
     \/ \E t \in mem[p].todo :
          IF files[t] = Directory
            THEN Raise(p, "MANIFEST_INVALID")
            ELSE /\ Become(p, [mem[p] EXCEPT !.pc = "request", !.target = t, !.attempts = 0])
                 /\ UNCHANGED parts
  /\ UNCHANGED <<lockVars, files, World>>

(* Mutant: attempts are not counted.                                       *)
RequestUncounted(p) ==
  /\ At(p, "request")
  /\ Become(p, [mem[p] EXCEPT !.pc = "response", !.written = 0])
  /\ UNCHANGED <<lockVars, diskVars, World>>

Request(p) ==
  /\ At(p, "request")
  /\ Become(p, [mem[p] EXCEPT !.pc = "response", !.attempts = @ + 1, !.written = 0])
  /\ UNCHANGED <<lockVars, diskVars, World>>

(* m, having read and recorded n more bytes.                               *)
Reading(m, n) == [m EXCEPT !.received = @ + n, !.wire = @ + n]

(* Mutant: a redirect's body is free.                                      *)
FollowRedirectFree(p) ==
  /\ At(p, "response")
  /\ \E n \in 0 .. RedirectBody :
       Become(p, [mem[p] EXCEPT !.pc = "redirect", !.wire = @ + n])
  /\ UNCHANGED <<lockVars, diskVars, World>>

(* A redirect's body counts like any other; when it uses up the allowance, *)
(* that is an error.  Nothing counts the redirects: the handlers of urllib *)
(* that would are overridden.                                              *)
FollowRedirect(p) ==
  /\ At(p, "response")
  /\ \E n \in 0 .. RedirectBody :
       IF n >= Remaining(p)
         THEN Raise(p, "INTEGRITY_FAILURE")
         ELSE /\ Become(p, [Reading(mem[p], n) EXCEPT !.pc = "redirect"])
              /\ UNCHANGED parts
  /\ UNCHANGED <<lockVars, files, World>>

(* The request that the redirect asks for, within the same attempt.        *)
OpenRedirect(p) ==
  /\ At(p, "redirect")
  /\ Go(p, "response")
  /\ UNCHANGED <<lockVars, diskVars, World>>

(* Anything but a transient failure ends the acquisition: a permanent HTTP *)
(* error or a refused redirect; headers without the exact size.            *)
BadResponse(p) ==
  /\ At(p, "response")
  /\ \E outcome \in {"TRANSPORT_FAILURE", "INTEGRITY_FAILURE"} : Raise(p, outcome)
  /\ UNCHANGED <<lockVars, files, World>>

(* The declared size is right: the temporary file is created, if what is   *)
(* left of the allowance suffices.                                         *)
AcceptResponse(p) ==
  /\ At(p, "response")
  /\ IF SizeOf(p) > Remaining(p)
       THEN Raise(p, "INTEGRITY_FAILURE")
       ELSE /\ Go(p, "stream")
            /\ parts' = [parts EXCEPT ![p] = [target |-> mem[p].target, body |-> Partial]]
  /\ UNCHANGED <<lockVars, files, World>>

(* Mutant: only the size is compared.                                      *)
SizeMatches(p, body) == Size[body] = SizeOf(p)

DigestMatches(p, body) == body = Wanted[p][mem[p].target]

(* One chunk.  With the last one the digest is compared.                   *)
Stream(p) ==
  /\ At(p, "stream")
  /\ \E n \in 1 .. CHUNK_SIZE :
       /\ n <= SizeOf(p) - mem[p].written /\ n <= Remaining(p)
       /\ LET m == [Reading(mem[p], n) EXCEPT !.written = @ + n]
          IN  \/ /\ m.written < SizeOf(p)
                 /\ Become(p, m)
                 /\ UNCHANGED parts
              \/ /\ m.written = SizeOf(p)
                 /\ \E body \in {c \in Contents : Size[c] = SizeOf(p)} :
                      IF DigestMatches(p, body)
                        THEN /\ Become(p, [m EXCEPT !.pc = "promote"])
                             /\ parts' = [parts EXCEPT ![p] =
                                            IF @ = NoPart THEN @ ELSE [@ EXCEPT !.body = body]]
                        ELSE Raise(p, "INTEGRITY_FAILURE")
  /\ UNCHANGED <<lockVars, files, World>>

(* Mutant: a connection that closes early ends the file.                   *)
BreakOffAsEnd(p) ==
  /\ At(p, "stream")
  /\ Go(p, "promote")
  /\ UNCHANGED <<lockVars, diskVars, World>>

Losing(m, n) == [m EXCEPT !.lost = @ + n]

(* A transient failure, after n bytes that are not refunded and some that  *)
(* a read that timed out took with it: try again from the start, if        *)
(* attempts and allowance permit.                                          *)
BreakOff(p) ==
  /\ mem[p].pc \in {"response", "stream"}
  /\ \E n \in 0 .. CHUNK_SIZE, lost \in 0 .. MaxLost :
       LET m == Losing(Reading(mem[p], n), lost)
       IN  /\ n + lost <= Remaining(p)
           /\ At(p, "stream") => n + lost < SizeOf(p) - mem[p].written
           /\ IF m.attempts > MAX_RETRIES
                THEN Raise(p, "TRANSPORT_FAILURE")
                ELSE IF SizeOf(p) > Allowance[p] - m.received
                THEN Raise(p, "INTEGRITY_FAILURE")
                ELSE Become(p, [m EXCEPT !.pc = "request"]) /\ Drop(p)
  /\ UNCHANGED <<lockVars, files, World>>

(* The rename; it fails when the temporary file is gone or a directory is  *)
(* in the way.                                                             *)
Promote(p) ==
  /\ At(p, "promote")
  /\ LET t == mem[p].target
     IN  IF parts[p] = NoPart \/ files[t] = Directory
           THEN Raise(p, "LOCAL_IO_FAILURE") /\ UNCHANGED files
           ELSE /\ files' = [files EXCEPT ![t] = parts[p].body]
                /\ Drop(p)
                /\ Become(p, [mem[p] EXCEPT !.pc = "next", !.todo = @ \ {t}])
  /\ UNCHANGED <<lockVars, World>>

(* No temporary file, whoever left it, stays beside a file of the manifest.*)
OfManifest(p, part) == part # NoPart /\ \E t \in DOMAIN Wanted[p] : Dir(t) = Dir(part.target)

(* Mutant: only what this acquisition left is removed.                     *)
CleanupOwn(p) ==
  /\ At(p, "cleanup")
  /\ Drop(p)
  /\ Become(p, [mem[p] EXCEPT !.pc = "verify", !.todo = DOMAIN Wanted[p]])
  /\ UNCHANGED <<lockVars, files, World>>

Cleanup(p) ==
  /\ At(p, "cleanup")
  /\ parts' = [q \in Procs |-> IF OfManifest(p, parts[q]) THEN NoPart ELSE parts[q]]
  /\ Become(p, [mem[p] EXCEPT !.pc = "verify", !.todo = DOMAIN Wanted[p]])
  /\ UNCHANGED <<lockVars, files, World>>

(* The complete manifest is verified again, one file after the other.      *)
Verify(p) ==
  /\ At(p, "verify")
  /\ \/ \E t \in mem[p].todo :
          IF t \in Lacking(p)
            THEN Raise(p, "INTEGRITY_FAILURE")
            ELSE /\ Become(p, [mem[p] EXCEPT !.todo = @ \ {t}])
                 /\ UNCHANGED parts
     \/ /\ mem[p].todo = {}
        /\ Leave(p, "release", "OK")
        /\ UNCHANGED parts
  /\ UNCHANGED <<lockVars, files, World>>

(* Inspecting, creating, writing, flushing or cleaning up fails.           *)
LocalFault(p) ==
  /\ mem[p].pc \in {"recheck", "next", "response", "stream", "promote", "cleanup"}
  /\ Raise(p, "LOCAL_IO_FAILURE")
  /\ UNCHANGED <<lockVars, files, World>>

Release(p) ==
  /\ At(p, "release")
  /\ \/ ConfirmOwner(p, LockKey(p))
     \/ UnlinkOwner(p, LockKey(p))
     \/ RemoveLock(p, LockKey(p))
  /\ IF phase'[p] = "out" THEN Leave(p, "done", mem[p].outcome) ELSE UNCHANGED mem
  /\ UNCHANGED <<diskVars, World>>

-----------------------------------------------------------------------------
(* What goes wrong outside.                                                *)

(* Any other exception under the lock: the lock is released, the temporary *)
(* file stays.                                                             *)
Interrupt(p) ==
  /\ mem[p].pc \in PointsUnderLock /\ crashes < MaxCrashes
  /\ crashes' = crashes + 1
  /\ Leave(p, "release", "INTERNAL_ERROR")
  /\ UNCHANGED <<lockVars, diskVars, spoils>>

(* The process dies: lock and temporary file stay.                         *)
Crash(p) ==
  /\ mem[p].pc \notin {"idle", "done", "dead"} /\ crashes < MaxCrashes
  /\ crashes' = crashes + 1
  /\ Leave(p, "dead", mem[p].outcome)
  /\ MoveTo(p, "out")
  /\ UNCHANGED <<lockDir, ownerFile, diskVars, spoils>>

(* Somebody deletes, damages or replaces a file, but not one that an       *)
(* acquisition has verified and whose success it has yet to return.        *)
Vouched(t) ==
  \E p \in Procs :
    /\ t \in DOMAIN Wanted[p] \ mem[p].todo
    /\ At(p, "verify") \/ (At(p, "release") /\ mem[p].outcome = "OK")

Spoil(t) ==
  /\ spoils < MaxSpoils /\ ~Vouched(t)
  /\ spoils' = spoils + 1
  /\ \E x \in Spoilt : files' = [files EXCEPT ![t] = x]
  /\ UNCHANGED <<lockVars, parts, mem, crashes>>

OperatorRemoves(k) ==
  /\ OperatorRemovesLock(k, {p \in Procs : LockKey(p) = k})
  /\ UNCHANGED <<diskVars, mem, World>>

Advance(p) ==
  \/ Lock(p) \/ Recheck(p) \/ NextFile(p)
  \/ Request(p) \/ FollowRedirect(p) \/ OpenRedirect(p) \/ BadResponse(p)
  \/ AcceptResponse(p) \/ Stream(p) \/ BreakOff(p) \/ Promote(p) \/ Cleanup(p) \/ Verify(p)
  \/ LocalFault(p) \/ Release(p)

Next ==
  \/ \E p \in Procs : Start(p) \/ Advance(p) \/ Interrupt(p) \/ Crash(p)
  \/ \E t \in Targets : Spoil(t)
  \/ \E k \in Keys : OperatorRemoves(k)

(* Every wait in the code has a timeout, so an invocation that was started *)
(* and is not dead goes on.                                                *)
Fairness == \A p \in Procs : WF_vars(Advance(p))

Spec == Init /\ [][Next]_vars
FairSpec == Spec /\ Fairness

-----------------------------------------------------------------------------
(* Properties.                                                             *)

TypeOK ==
  /\ LockTypeOK(Keys)
  /\ files \in [Targets -> Contents \cup Spoilt]
  /\ parts \in [Procs -> PartFiles]
  /\ mem \in [Procs -> Memories]
  /\ crashes \in Nat /\ spoils \in Nat

(* Two acquisitions with the same key are never both under the lock, unless *)
(* an operator removed it under one of them, whatever crashes and failing   *)
(* writes of the owner file come between (_ArtifactLock.acquire, release).  *)
MutualExclusion ==
  \A p, q \in Procs :
    p # q /\ LockKey(p) = LockKey(q) /\ Undisturbed(p) /\ Undisturbed(q) =>
      ~(mem[p].pc \in PointsUnderLock /\ mem[q].pc \in PointsUnderLock)

(* What an acquisition reads is never more response-body bytes than it was *)
(* allowed, over all files, attempts and redirects (_TransferBudget).      *)
BudgetRespected == \A p \in Procs : mem[p].wire <= Allowance[p]

(* What is being downloaded is not there already: files that another       *)
(* acquisition completed in the meantime are reused (run_acquire inspects  *)
(* the cache again under the lock), as long as no lock in use is removed.  *)
NoNeedlessDownload ==
  robbed = {} =>
    \A p \in Procs :
      mem[p].pc \in {"request", "response", "redirect", "stream", "promote"} =>
        files[mem[p].target] # Wanted[p][mem[p].target]

(* The temporary file of a running download is not removed by another      *)
(* acquisition's cleanup, which removes every temporary file it finds, as  *)
(* long as no lock in use is removed.                                      *)
LiveTempKept ==
  robbed = {} => \A p \in Procs : mem[p].pc \in {"stream", "promote"} => parts[p] # NoPart

(* When success is about to be returned, no temporary file is left beside  *)
(* the files of the manifest, not even one of an acquisition that died, as *)
(* long as no lock in use is removed.                                      *)
NoTempsAfterSuccess ==
  robbed = {} =>
    \A p \in Procs :
      At(p, "release") /\ mem[p].outcome = "OK" =>
        \A q \in Procs : ~OfManifest(p, parts[q])

(* A file at a final path appears in one step, verified, only where it was *)
(* missing or wrong; success means that the complete manifest is in place  *)
(* at that moment (run_acquire, _stream_once), until a lock in use is      *)
(* removed.                                                                *)
Verdict(p) ==
  CASE mem[p].outcome = "NONE" -> "NONE"
    [] mem[p].outcome = "OK" -> "OK"
    [] OTHER -> "FAILED"

Promise == INSTANCE VerifiedCache WITH verdict <- [p \in Procs |-> Verdict(p)]
ImplementsVerifiedCache ==
  Promise!Init /\ [][robbed' = {} => [Promise!Next]_(Promise!vars)]_vars

(* An acquisition that was started ends, whatever servers, operators and    *)
(* other acquisitions do, unless servers answer with redirects for ever     *)
(* (_download_file, _ArtifactLock.acquire).                                 *)
AcquisitionEnds ==
  \A p \in Procs :
    (~At(p, "idle") ~> mem[p].pc \in {"done", "dead"}) \/ []<>At(p, "redirect")

(* docker/README.md, "Authorization and byte limits": --max-bytes is a     *)
(* hard cap on the bytes received, and every byte is accounted for.        *)
HardCap == \A p \in Procs : mem[p].wire + mem[p].lost <= Allowance[p]

(* The lock of a working acquisition stands: not even one whose own lock    *)
(* was removed while it worked, and which then finishes, fails or dies,     *)
(* takes away the lock that replaced it (_ArtifactLock.release compares     *)
(* tokens).                                                                 *)
LockStands ==
  \A p \in Procs :
    phase[p] = "held" /\ Undisturbed(p) =>
      lockDir[LockKey(p)] = p /\ ownerFile[LockKey(p)] = p
=============================================================================
