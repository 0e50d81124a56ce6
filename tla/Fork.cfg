SPECIFICATION ReviewSpec
CONSTANTS
  a1 = a1
  b1 = b1
  a2 = a2
  b2 = b2
  a3 = a3
  n2 = n2
  n3 = n3
  zero = zero
  k1 = k1
  k2 = k2
  Null = Null
  Digest <- ForkDigest
  Fields <- AllFields
  ZeroDigest = zero
  PublicKey = {k1, k2}
  v1 = v1
  v2 = v2
  View = {}
  MaxSequence = 2
  MaxRevision = 2
  RetentionEvents = 1
  MinEvents = 1
  ListLimit = 1
INVARIANT TypeOK
INVARIANT OwnerSigned
INVARIANT HashChain
INVARIANT DivergenceIsOpen
INVARIANT NoSilentStall
INVARIANT SelectionStands
PROPERTY RevisionPinsCandidates
PROPERTY DecisionsAreInformed
CHECK_DEADLOCK FALSE
