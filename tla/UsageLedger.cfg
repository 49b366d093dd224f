SPECIFICATION FairLedger
CONSTANTS
  r1 = r1
  r2 = r2
  r3 = r3
  m1 = m1
  m2 = m2
  Requests = {r1, r2, r3}
  Models = {m1, m2}
  ModelOf <- MCModelOf
  Dims = {"tokens", "usd"}
  Usages <- MCUsages
  Estimate <- MCEstimate
  Windows = {"hourly", "daily"}
  Start <- MCStart
  Limits <- MCLimits
  Times <- MCTimes
  Global = Global
  NoLimit = NoLimit
  None = None
CHECK_DEADLOCK FALSE
INVARIANTS LedgerTypeOK CapsHold
PROPERTIES Settles
