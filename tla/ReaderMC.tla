------------------------------ MODULE ReaderMC ------------------------------
(* Small instances of Reader: t1 is small, t2 may be streamed.             *)
EXTENDS Reader

CONSTANTS t1, t2

MCMaxChanges == [t \in Txs |-> IF t = t1 THEN 1 ELSE 2]
=============================================================================
