---------------------------- MODULE VerifiedCache ----------------------------
(***************************************************************************)
(* What `models acquire` promises about the files of a cache, without      *)
(* locks, partial files, requests or retries: a file appears in one step   *)
(* and is then what a manifest asks for, an acquisition touches nothing it *)
(* need not, and success means that everything asked for is in place at    *)
(* that moment.                                                            *)
(***************************************************************************)
CONSTANTS
  Procs,        \* acquisitions
  Targets,      \* destination paths
  Wanted,       \* per acquisition: the content its manifest names for each of its targets
  Found,        \* what may be at a destination at first
  Spoilt        \* what people and disks may leave in place of a file

VARIABLES
  files,        \* what is at each destination
  verdict       \* per acquisition: "NONE" until it succeeds or fails

vars == <<files, verdict>>

Wants(p, t) == t \in DOMAIN Wanted[p]

Init ==
  /\ files \in [Targets -> Found]
  /\ verdict = [p \in Procs |-> "NONE"]

(* A missing or wrong file becomes the one that is asked for.              *)
Publish(p, t) ==
  /\ verdict[p] = "NONE"
  /\ Wants(p, t) /\ files[t] # Wanted[p][t]
  /\ files' = [files EXCEPT ![t] = Wanted[p][t]]
  /\ UNCHANGED verdict

Succeed(p) ==
  /\ verdict[p] = "NONE"
  /\ \A t \in DOMAIN Wanted[p] : files[t] = Wanted[p][t]
  /\ verdict' = [verdict EXCEPT ![p] = "OK"]
  /\ UNCHANGED files

Fail(p) ==
  /\ verdict[p] = "NONE"
  /\ verdict' = [verdict EXCEPT ![p] = "FAILED"]
  /\ UNCHANGED files

Spoil(t) ==
  /\ \E x \in Spoilt : files' = [files EXCEPT ![t] = x]
  /\ UNCHANGED verdict

Next ==
  \/ \E p \in Procs : Succeed(p) \/ Fail(p) \/ \E t \in Targets : Publish(p, t)
  \/ \E t \in Targets : Spoil(t)

Spec == Init /\ [][Next]_vars
==============================================================================
