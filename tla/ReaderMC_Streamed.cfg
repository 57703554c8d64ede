SPECIFICATION Spec
CONSTANTS
  t1 = t1
  t2 = t2
  Txs = {t1, t2}
  Streamed = {t2}
  Aborting = {t2}
  SlotAtStart = TRUE
  MaxChanges <- MCMaxChanges
  MaxQueue = 0
  MaxFaults = 2
CHECK_DEADLOCK FALSE
INVARIANT EveryChangeCounts
