SPECIFICATION FairSpec
CONSTANTS
  api1 = api1
  api2 = api2
  worker = worker
  Api = {api1, api2}
  Worker = {worker}
  FileCount = 3
  Null = Null
  MaxFaults = 3
INVARIANT TypeOK
INVARIANT ChecksStillHold
INVARIANT ServesMigrated
PROPERTY EveryProcessWorks
PROPERTY ShutdownCompletes
