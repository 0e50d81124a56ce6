SPECIFICATION FairSpec
CONSTANTS
  Length = 3
  Digest <- Chain
  Fields <- ChainFields
  ZeroDigest = 0
  MaxSequence = 3
  Reader = {p1}
  View = {v1, v2}
  Null = Null
  PageSize = 1
INVARIANT TypeOK
INVARIANT ViewIsExact
INVARIANT ResumeIsAnchored
PROPERTY PagingEnds
CHECK_DEADLOCK FALSE
