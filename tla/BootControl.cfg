\* One service process, whose one read of devinfo may fail, so that it works
\* on devinfo or on the GPT attributes; zuma: two fuse banks.
CONSTANTS
  MaxRetry = 1
  Procs = {hal}
  Proc = hal
  HasDevInfo = TRUE
  LinkCounts = {0, 2}
  ReadOutcomes = {TRUE, FALSE}
  Lost = Lost
  Platform = "zuma"
  InitTables <- FreshPhone
SPECIFICATION Spec
INVARIANTS TypeOK OneActive CacheCoherent OkIsDurable
PROPERTIES LunFollowsMetadata FusesFollowSuccessMark ImplementsRegister 
