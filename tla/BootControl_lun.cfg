\* What an answer ok of setActiveBootSlot says of the boot LUN.
CONSTANTS
  MaxRetry = 1
  Procs = {hal}
  Proc = hal
  HasDevInfo = TRUE
  LinkCounts = {2}
  ReadOutcomes = {TRUE}
  Lost = Lost
  Platform = "zumapro"
  InitTables <- FromSlot0
SPECIFICATION Spec
PROPERTIES OkMeansLunSwitched
