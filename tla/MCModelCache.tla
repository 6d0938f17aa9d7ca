---------------------------- MODULE MCModelCache ----------------------------
(* Two manifests whose namespaces overlap: they share a directory, agree   *)
(* about one file and disagree about the other.                            *)
EXTENDS ModelCacheInductive

CONSTANTS p1, p2, weights, config, other

MCNames == {"models", "rev", "weights", "config"}
AtWeights == <<"models", "rev", "weights">>
AtConfig == <<"models", "rev", "config">>

MCTargets == {AtWeights, AtConfig}
MCContents == {weights, config, other}
MCSize == (weights :> 2) @@ (config :> 1) @@ (other :> 2)
MCNamespace == (p1 :> <<"models", "rev">>) @@ (p2 :> <<"models">>)
MCWanted ==
  (p1 :> (AtWeights :> weights @@ AtConfig :> config))
    @@ (p2 :> (AtWeights :> other @@ AtConfig :> config))
MCAllowance == (p1 :> 5) @@ (p2 :> 3)
MCSpoilt == {Missing, Directory}

-----------------------------------------------------------------------------
(* Operators who remove locks only as documented, over an empty cache; or   *)
(* careless ones, over one that has what p1 wants, where nobody dies and    *)
(* people leave the files alone.                                            *)
VARIABLE part

Empty == [t \in MCTargets |-> Missing]
Cached == MCWanted[p1]

MCInit ==
  /\ Init
  /\ \/ part = "careful" /\ files = Empty
     \/ part = "careless" /\ files = Cached

MCNext ==
  /\ Next
  /\ part = "careful" => robbed' = {}
  /\ part = "careless" => crashes' = 0 /\ spoils' = 0
  /\ UNCHANGED part

MCSpec == MCInit /\ [][MCNext]_<<vars, part>>
MCFairSpec == MCSpec /\ Fairness
==============================================================================
