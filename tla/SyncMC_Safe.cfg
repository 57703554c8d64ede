SPECIFICATION SyncFairSpec
CONSTANTS
  t1 = t1
  t2 = t2
  d1 = d1
  Txs = {t1, t2}
  Streamed = {}
  Aborting = {}
  SlotAtStart = TRUE
  MaxChanges <- MCMaxChanges
  MaxQueue = 0
  MaxFaults = 2
  Docs = {d1}
  On <- MCOn
CHECK_DEADLOCK FALSE
INVARIANTS SyncTypeOK NoLostChange
PROPERTIES Promise EventuallyFresh
