SPECIFICATION FairSpec
CONSTANTS
  Length = 3
  Digest <- Chain
  Fields <- ChainFields
  ZeroDigest = 0
  MaxSequence = 3
  Waiter = {w1, w2}
  Uploader = {u1}
  PageSize = 1
  PoolSize = 1
  MaxQueued = 1
INVARIANT TypeOK
INVARIANT NothingSkipped
INVARIANT WakeupOnTheWay
PROPERTY EveryCallAnswered
CHECK_DEADLOCK FALSE
