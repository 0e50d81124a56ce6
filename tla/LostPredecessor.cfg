SPECIFICATION Spec
CONSTANTS
  a1 = a1
  b1 = b1
  a2 = a2
  b2 = b2
  a3 = a3
  n2 = n2
  n3 = n3
  zero = zero
  k1 = k1
  k2 = k2
  Null = Null
  Digest <- CompactionDigest
  Fields <- AllFields
  ZeroDigest = zero
  PublicKey = {k1}
  View = {v1}
  v1 = v1
  v2 = v2
  MaxSequence = 3
  MaxRevision = 2
  RetentionEvents = 1
  MinEvents = 2
INVARIANT BadPredecessorMeansBroken
CHECK_DEADLOCK FALSE
