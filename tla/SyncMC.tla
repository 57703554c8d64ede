------------------------------- MODULE SyncMC -------------------------------
(* A small instance of Sync: two transactions alter one doc.               *)
EXTENDS Sync

CONSTANTS t1, t2, d1

MCMaxChanges == [t \in Txs |-> 1]
MCOn == [t \in Txs |-> Docs]
=============================================================================
