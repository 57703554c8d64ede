---------------------------- MODULE PublicationMC ---------------------------
(* A small instance of Publication: definitions that widen, narrow,        *)
(* overlap and cover all tables, and one that watches a table whose name,  *)
(* in lower case, is o.                                                    *)
EXTENDS Publication

CONSTANTS o, p, Capital

MCFold    == [t \in Names |-> IF t = Capital THEN o ELSE t]
MCConfigs == {{}, {o}, {p}, {o, p}, {Capital}}
=============================================================================
