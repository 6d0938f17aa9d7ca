---------------------------- MODULE ImmutableTags ---------------------------
(***************************************************************************)
(* What the publisher promises of the registry, without jobs, locks,       *)
(* credentials or failures: a tag names one image for ever, and a          *)
(* publication is announced only when all its tags name the image that it  *)
(* announces.                                                              *)
(***************************************************************************)
CONSTANTS
  Tags,
  Digests,
  NoDigest       \* a tag that does not exist

VARIABLES
  registry,      \* digest of each tag
  announced      \* announced publications: their tags and their digest

tagVars == <<registry, announced>>

TagsInit ==
  /\ registry = [t \in Tags |-> NoDigest]
  /\ announced = {}

Assign(t, g) ==
  /\ registry[t] = NoDigest
  /\ registry' = [registry EXCEPT ![t] = g]
  /\ UNCHANGED announced

Announce(tags, g) ==
  /\ \A t \in tags : registry[t] = g
  /\ announced' = announced \cup {[tags |-> tags, digest |-> g]}
  /\ UNCHANGED registry

TagsNext ==
  \/ \E t \in Tags, g \in Digests : Assign(t, g)
  \/ \E tags \in SUBSET Tags, g \in Digests : Announce(tags, g)

TagsSpec == TagsInit /\ [][TagsNext]_tagVars

(* What was announced stays true.                                          *)
AnnouncementsHold ==
  \A a \in announced : \A t \in a.tags : registry[t] = a.digest
==============================================================================
