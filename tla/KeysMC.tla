------------------------------- MODULE KeysMC -------------------------------
(* Small instances of Keys: comment c1 on posts p1, p2 by a1 and a2.  *)
EXTENDS Keys, TLC

CONSTANTS c1, g1, p1, p2, a1, a2

(* A reverse index and a mapping through columns, one of them at least     *)
(* with whole old rows; tags has its key.                                  *)
MCIdentityMaps ==
  {f \in [Tables -> Identities] :
     f.tags = "default" /\ "full" \in {f.comments, f.posts}}

Symmetry == Permutations(Comments) \cup Permutations(Posts)
            \cup Permutations(Authors)
=============================================================================
