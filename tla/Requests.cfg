SPECIFICATION FairSpec
CONSTANTS
  t1 = t1
  t2 = t2
  x = x
  y = y
  api1 = api1
  api2 = api2
  i1 = i1
  i2 = i2
  d1 = d1
  d2 = d2
  e1 = e1
  e2 = e2
  Null = Null
  Call = {t1, t2, x, y}
  Instance = {api1, api2}
  Device = {d1, d2}
  Event = {e1, e2}
  Home <- AllHomes
  Request <- AllRequests
  PoolSize = 1
  MaxCrashes = 1
INVARIANT TypeOK
INVARIANT RowsMatchRequests
PROPERTY ImplementsIdempotency
PROPERTY EveryCallAnswered
CHECK_DEADLOCK FALSE
