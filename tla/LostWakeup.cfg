SPECIFICATION Spec
CONSTANTS
  Length = 2
  Digest <- Chain
  Fields <- ChainFields
  ZeroDigest = 0
  MaxSequence = 2
  Waiter = {w1, w2}
  Uploader = {u1}
  PageSize = 1
  PoolSize = 1
  MaxQueued = 1
INVARIANT NoLostWakeup
CHECK_DEADLOCK FALSE
