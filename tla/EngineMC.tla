------------------------------ MODULE EngineMC ------------------------------
(* Small instances of Engine.  In each, e1 reaches a doc through a column  *)
(* mapping and e2 its docs through reverse indexes.                        *)
EXTENDS Engine, TLC

CONSTANTS w1, w2, c1, c2, k1, k2, e1, e2

MCEvents == {e1, e2}

(* Two docs of one query: e1 changes c1, and e2 changes every doc.         *)
MCDirect  == (e1 :> {c1}) @@ (e2 :> {})
MCReverse == (e1 :> {}) @@ (e2 :> Lookups)
MCAffects == (e1 :> {c1}) @@ (e2 :> Channels)
MCFanout    == [k \in Lookups |-> Channels]
MCQueryDocs == [k \in Lookups |-> Channels]
TightMaxKeys == [k \in Lookups |-> Cardinality(Channels) - 1]

(* In the safety run e1 reaches c1 by its column mapping and c2 by k2,     *)
(* which is over its cap, and e2 reaches both by k1, which is not.         *)
SafetyReverse == (e1 :> {k2}) @@ (e2 :> {k1})
SafetyAffects == (e1 :> Channels) @@ (e2 :> Channels)
SafetyMaxKeys ==
  (k1 :> Cardinality(Channels)) @@ (k2 :> Cardinality(Channels) - 1)

(* In the run of failing lookups, they belong to another query: e2 changes *)
(* no doc through them.                                                    *)
PoisonAffects == (e1 :> {c1}) @@ (e2 :> {})
PoisonFanout  == [k \in Lookups |-> {}]

(* A poll lists nothing or everything.                                     *)
MCListings    == {{}, Channels}

Symmetry == Permutations(Workers)
=============================================================================
