SPECIFICATION Spec
CONSTANTS
  Threads = {1, 2}
  Hosts = {h1, h2}
  retry_ = 2
  MaxAddresses = 2
  Indexes <- MCIndexes
  SizeModulus = 256
  Interval <- MCInterval
  Restarts <- MCRestarts
  MaxTime = 3
  Programs <- MCPrograms
  Files <- MCFiles
  Names <- MCNames
  PoolSize = 2
  UintModulus = 4096
CHECK_DEADLOCK FALSE
INVARIANTS
  ServersOnRunningLoops
  ConfigAsWritten
  HostKeepsAddress
PROPERTY
  CallsReturnUnlessEarly
