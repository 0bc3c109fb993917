CONSTANTS
  Seller = {s1}
  Replica = {w1, w2}
  Request = {q1, q2}
  Sweep = {nightly}
  NoSeller = NoSeller
  NoReplica = NoReplica
  RecalcConcurrency = 1
  StaleAfter = 2
  MaxFaults = 2
  Production = TRUE
  Overrun = FALSE
SPECIFICATION FairSpec
INVARIANTS
  OneRecalcPerSeller
  HolderKeepsLock
  NoPhantomRunning
PROPERTY AbandonedLockIsTakenOver
