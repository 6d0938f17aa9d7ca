----------------------------- MODULE MCDelivery -----------------------------
(* The pull requests of a branch, or the publications of what was merged.  *)
(* The two share no state: part says which of them moves, so that one run  *)
(* explores both and not their product.                                    *)
EXTENDS PullRequests, Publisher, TLC

VARIABLE part

CONSTANTS alice, bob

Check(required, conclusion) == [required |-> required, conclusion |-> conclusion]

(* No check; an optional failure; a failure; one that could not run.       *)
MCPackages ==
  {{},
   {Check(TRUE, "PASS"), Check(FALSE, "FAIL")},
   {Check(TRUE, "FAIL")},
   {Check(TRUE, "PASS"), Check(TRUE, "INFRA_FAILURE")}}

Symmetry == Permutations(Workers)

DeliveryInit ==
  /\ part \in {"pull requests", "publications"}
  /\ PullInit
  /\ PubInit

DeliveryNext ==
  \/ part = "pull requests" /\ PullNext /\ UNCHANGED <<pubVars, part>>
  \/ part = "publications" /\ PubNext /\ UNCHANGED <<pullVars, part>>

DeliverySpec == DeliveryInit /\ [][DeliveryNext]_<<pullVars, pubVars, part>>
==============================================================================
